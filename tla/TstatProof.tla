----------------------------- MODULE TstatProof -----------------------------
(***************************************************************************)
(* Tstat for every value of its constants.                                 *)
(***************************************************************************)
EXTENDS Tstat, TLAPS

\* The exchange with the controller has one result when it is answered.
Exchanges ==
    /\ ctl \in [Clients -> Exchange]
    /\ ctl[Me].st = "replied" => Ok \in BOOLEAN

\* What the code at a place relies on that was established before it got there.
Places ==
    /\ pc # "down" => IsSet(earliest)
    /\ pc = "fan_on.G" => IsSet(fanOn)
    /\ pc \in {"on.OB", "on.Y1"} => IsSet(compOn)
    /\ pc = "fan_off.G" => IsSet(fanOff)
    /\ pc \in {"off.Y1", "off.OB"}
          => mode # "off" /\ ~IsSet(fanOn) /\ ~IsSet(compOn)
    /\ pc = "goals.off" => mode = "off" /\ ~IsSet(fanOff)

\* The thread will wake up for the timer `t'.
Covered(t) ==
    IsSet(t) => /\ IsSet(timeout)
                /\ timeout <= t \/ timeout <= Retry

\* The timers that the pass through the loop has dealt with are covered.
Coverage ==
    /\ pc \in {"compressor", "on.OB", "on.Y1", "fan_off", "fan_off.G", "poll"}
          => Covered(fanOn)
    /\ pc \in {"fan_off", "fan_off.G", "poll"} => Covered(compOn)
    /\ pc = "poll" => Covered(fanOff)

\* Once the fan was turned on for the compressor, and until it is turned off
\* after it, its last confirmed level is on.
FanKnown ==
    (mode # "off" /\ ~IsSet(fanOn)) \/ IsSet(fanOff) => acked["G"] = "on"

Inv == TypeOK /\ Exchanges /\ Places /\ TimersMatchMode /\ Coverage /\ FanKnown
----------------------------------------------------------------------------
\* What the definitions of the program rest on.
LEMMA Constants ==
    /\ FanBefore \in Nat /\ FanAfter \in Nat /\ ShutoffDelay \in Nat
    /\ Retry \in Nat /\ MaxLag \in Nat /\ Me \in Clients
    /\ Unset \in Time /\ Unset # Overdue /\ ~IsSet(Unset) /\ 0 \in Nat
    /\ \A n \in Nat : IsSet(n) /\ n \in Time /\ n # Overdue
    /\ \A t \in Time : IsSet(t) <=> t # Unset
BY TstatAssumption DEF Unset, Overdue, IsSet, Time

\* A time seen later is a time, and as set as it was.
LEMMA LaterIsTime ==
    \A t \in Time, d \in Nat :
        Later(t, d) \in Time /\ (IsSet(Later(t, d)) <=> IsSet(t))
BY DEF Later, Time, IsSet, Unset, Overdue

\* Reading the clock leaves the timers times, and as set as they were.
LEMMA TimersStay ==
    ASSUME TypeOK
    PROVE  \A d \in Nat : TimersLater(d) =>
              /\ earliest' \in Time /\ fanOn' \in Time
              /\ compOn' \in Time /\ fanOff' \in Time
              /\ IsSet(earliest') <=> IsSet(earliest)
              /\ IsSet(fanOn') <=> IsSet(fanOn)
              /\ IsSet(compOn') <=> IsSet(compOn)
              /\ IsSet(fanOff') <=> IsSet(fanOff)
BY LaterIsTime DEF TimersLater, TypeOK

\* A tick of zmq_poll's sleep keeps what is covered covered.
LEMMA TickCovers ==
    \A t \in Time, limit \in Time \ {Overdue} :
        LET left == Later(limit, 1)
        IN limit # 0 =>
             /\ left \in Time \ {Overdue}
             /\ (IsSet(t) => IsSet(limit) /\ (limit <= t \/ limit <= Retry))
                => (IsSet(Later(t, 1)) =>
                      IsSet(left) /\ (left <= Later(t, 1) \/ left <= Retry))
BY Constants DEF Later, Time, IsSet, Unset, Overdue

\* A timer that is taken in is covered, and so is what was covered before.
LEMMA TakeInIsSoonest ==
    \A t \in Time \ {Overdue}, timer \in Time :
        /\ TakeIn(t, timer) \in Time \ {Overdue}
        /\ IsSet(timer) /\ ~Passed(timer) =>
              IsSet(TakeIn(t, timer)) /\ TakeIn(t, timer) <= timer
        /\ IsSet(t) => IsSet(TakeIn(t, timer)) /\ TakeIn(t, timer) <= t
BY DEF TakeIn, Passed, Time, IsSet, Unset, Overdue

\* The states an exchange goes through.
LEMMA Exchanged ==
    /\ Idle \in Exchange /\ Taken \in Exchange /\ Lost \in Exchange
    /\ Idle.st = "idle" /\ Taken.st = "taken" /\ Lost.st = "lost"
    /\ \A ok \in BOOLEAN : /\ Replied(<<ok>>) \in Exchange
                           /\ Replied(<<ok>>).results[1] = ok
    /\ \A w \in Wires, level \in Level :
          /\ Sent(<<Cmd(w, level)>>) \in Exchange
          /\ Sent(<<Cmd(w, level)>>).st = "sent"
<1>1. <<>> \in Seq(Command) /\ <<>> \in Seq(BOOLEAN)
  OBVIOUS
<1>2. \A ok \in BOOLEAN : <<ok>> \in Seq(BOOLEAN)
  OBVIOUS
<1>3. \A w \in Wires, level \in Level : <<Cmd(w, level)>> \in Seq(Command)
  BY DEF Cmd, Command, AnyWire
<1> QED
  BY <1>1, <1>2, <1>3 DEF Idle, Taken, Lost, Replied, Sent, Exchange

\* The exchange after a command, after its end, and after a step that leaves it.
LEMMA ExchangeSteps ==
    ASSUME Exchanges
    PROVE  /\ \A w \in Wires, level \in Level :
                 ctl' = [ctl EXCEPT ![Me] = Sent(<<Cmd(w, level)>>)] => Exchanges'
           /\ ctl' = [ctl EXCEPT ![Me] = Idle] => Exchanges'
           /\ UNCHANGED ctl => Exchanges'
           /\ HwStep => Exchanges'
<1> USE Constants, Exchanged
<1>1. \A e \in Exchange : ctl' = [ctl EXCEPT ![Me] = e] =>
          ctl' \in [Clients -> Exchange] /\ ctl'[Me] = e
  BY DEF Exchanges
<1>2. \A w \in Wires, level \in Level :
          ctl' = [ctl EXCEPT ![Me] = Sent(<<Cmd(w, level)>>)] => Exchanges'
  BY <1>1 DEF Exchanges
<1>3. ctl' = [ctl EXCEPT ![Me] = Idle] => Exchanges'
  BY <1>1 DEF Exchanges
<1>4. UNCHANGED ctl => Exchanges'
  BY DEF Exchanges, Ok
<1>5. ASSUME NEW ok \in BOOLEAN, ctl' = [ctl EXCEPT ![Me] = Replied(<<ok>>)]
      PROVE  Exchanges'
  BY <1>1, <1>5 DEF Exchanges, Ok
<1>6. HwStep => Exchanges'
  BY <1>1, <1>5 DEF HwStep, Exchanges
<1> QED
  BY <1>2, <1>3, <1>4, <1>6
\* The levels the program asks for are levels.
LEMMA Levels ==
    /\ ValveLevel \in Level /\ {"on", "off"} \subseteq Level
    /\ Level \subseteq Tristate
    /\ {"Y1", "OB", "G"} \subseteq Wires
BY DEF ValveLevel, Level, Tristate, Wires

\* A timer has passed when it is overdue.
LEMMA PassedIsOverdue ==
    \A t \in Time : (Passed(t) <=> t = Overdue) /\ (Passed(t) => IsSet(t))
BY DEF Passed, Time, IsSet, Unset, Overdue

\* What is covered is covered after one more timer is taken in.
LEMMA TakeInCovers ==
    \A s \in Time, t \in Time \ {Overdue}, timer \in Time :
        (IsSet(s) => IsSet(t) /\ (t <= s \/ t <= Retry))
        => (IsSet(s) => /\ IsSet(TakeIn(t, timer))
                        /\ TakeIn(t, timer) <= s \/ TakeIn(t, timer) <= Retry)
BY Constants DEF TakeIn, Passed, Time, IsSet, Unset, Overdue

\* A step of the thread sends a command from where no exchange is under way or on a
\* reply, reads a reply, or leaves the exchange alone while none is under way.
LEMMA ThreadTalks ==
    ASSUME Thread, pc \in {"down"} \cup Running => ctl[Me].st = "idle"
    PROVE  \/ /\ ctl[Me].st \in {"idle", "replied"} /\ pc' \in Waiting
              /\ \E w \in {"Y1", "OB", "G"}, level \in Level :
                    ctl' = [ctl EXCEPT ![Me] = Sent(<<Cmd(w, level)>>)]
           \/ ctl[Me].st = "replied" /\ ctl' = [ctl EXCEPT ![Me] = Idle]
           \/ UNCHANGED ctl /\ pc \in {"down"} \cup Running
<1> DEFINE Rest == {"down"} \cup Running
           Calls == \E w \in {"Y1", "OB", "G"}, level \in Level, place \in Waiting :
                       Call(w, level, place)
           Reads == ctl[Me].st = "replied" /\ ctl' = [ctl EXCEPT ![Me] = Idle]
           Stays == UNCHANGED ctl /\ pc \in Rest
<1>1. Calls => /\ pc' \in Waiting
               /\ \E w \in {"Y1", "OB", "G"}, level \in Level :
                     ctl' = [ctl EXCEPT ![Me] = Sent(<<Cmd(w, level)>>)]
  BY DEF Call
<1> SUFFICES (ctl[Me].st \in {"idle", "replied"} /\ Calls) \/ Reads \/ Stays
  BY <1>1
<1> HIDE DEF Calls
<1>2. \A level \in Level :
         /\ \A place \in {"start.G", "fan_on.G", "fan_off.G", "goals.on", "goals.off"} :
               Call("G", level, place) => Calls
         /\ \A place \in {"on.OB", "undo.OB", "off.OB"} : Call("OB", level, place) => Calls
         /\ \A place \in {"on.Y1", "undo.Y1", "off.Y1"} : Call("Y1", level, place) => Calls
  BY DEF Calls, Waiting
<1>3. \A place \in Rest : pc = place => ctl[Me].st = "idle"
  OBVIOUS
<1> USE <1>2, <1>3, Levels DEF Running, Return, Replies
<1>4. CASE Start
  BY <1>4 DEF Start
<1>5. CASE FanOnTimer
  BY <1>5 DEF FanOnTimer
<1>6. CASE CompressorTimer
  BY <1>6 DEF CompressorTimer
<1>7. CASE FanOffTimer
  BY <1>7 DEF FanOffTimer
<1>8. CASE PollTimedOut
  BY <1>8 DEF PollTimedOut
<1>9. CASE ReadWeather
  BY <1>9 DEF ReadWeather, CompressorOn, CompressorOff
<1>10. CASE HandleReq
  BY <1>10 DEF HandleReq
<1>11. CASE ReversingSet \/ CompressorTurnedOn \/ CompressorUndone \/ CompressorTurnedOff
  BY <1>11 DEF ReversingSet, CompressorTurnedOn, CompressorUndone, CompressorTurnedOff
<1>12. CASE \/ Started \/ FanTurnedOn \/ ReversingUndone \/ FanTurnedOff
            \/ ReversingTurnedOff \/ FanSetOn \/ FanSetOff
  BY <1>12 DEF Started, FanTurnedOn, ReversingUndone, FanTurnedOff, ReversingTurnedOff,
               FanSetOn, FanSetOff
<1> QED
  BY <1>4, <1>5, <1>6, <1>7, <1>8, <1>9, <1>10, <1>11, <1>12 DEF Thread

\* One command is under way at most, and has one result.
LEMMA ExchangeStep == Inv /\ Next => Exchanges'
<1> SUFFICES ASSUME Inv, Next PROVE Exchanges'
  OBVIOUS
<1> USE ExchangeSteps, Levels DEF Inv
<1>1. CASE Start
  BY <1>1 DEF Start, Call
<1>2. CASE Started
  BY <1>2 DEF Started, Return, Replies
<1>3. CASE FanOnTimer
  BY <1>3 DEF FanOnTimer, Call
<1>4. CASE FanTurnedOn
  BY <1>4 DEF FanTurnedOn, Return, Replies
<1>5. CASE CompressorTimer
  BY <1>5 DEF CompressorTimer, Call
<1>6. CASE ReversingSet
  BY <1>6 DEF ReversingSet, Call, Replies
<1>7. CASE CompressorTurnedOn
  BY <1>7 DEF CompressorTurnedOn, Call, Replies, Return
<1>8. CASE CompressorUndone
  BY <1>8 DEF CompressorUndone, Call, Replies
<1>9. CASE ReversingUndone
  BY <1>9 DEF ReversingUndone, Return, Replies
<1>10. CASE FanOffTimer
  BY <1>10 DEF FanOffTimer, Call
<1>11. CASE FanTurnedOff
  BY <1>11 DEF FanTurnedOff, Return, Replies
<1>12. CASE PollTimedOut
  BY <1>12 DEF PollTimedOut
<1>13. CASE PollReady
  BY <1>13 DEF PollReady
<1>14. CASE ReadWeather
  BY <1>14 DEF ReadWeather, CompressorOn, CompressorOff, Call
<1>15. CASE CompressorTurnedOff
  BY <1>15 DEF CompressorTurnedOff, Call, Replies
<1>16. CASE ReversingTurnedOff
  BY <1>16 DEF ReversingTurnedOff, Replies
<1>17. CASE HandleReq
  BY <1>17 DEF HandleReq, Call
<1>18. CASE FanSetOn
  BY <1>18 DEF FanSetOn, Return, Replies
<1>19. CASE FanSetOff
  BY <1>19 DEF FanSetOff, Return, Replies
<1>20. CASE Crash
  BY <1>20 DEF Crash
<1>21. CASE HwStep
  BY <1>21
<1>22. CASE TstatTick /\ UNCHANGED ctl
  BY <1>22
<1> QED
  BY <1>1, <1>2, <1>3, <1>4, <1>5, <1>6, <1>7, <1>8, <1>9, <1>10, <1>11,
     <1>12, <1>13, <1>14, <1>15, <1>16, <1>17, <1>18, <1>19, <1>20, <1>21,
     <1>22
     DEF Next, Thread

\* Each step of each action keeps every variable in its type.
LEMMA TypeStep == Inv /\ Next => TypeOK'
<1> SUFFICES ASSUME Inv, Next PROVE TypeOK'
  OBVIOUS
<1>e. ctl' \in [Clients -> Exchange]
  BY ExchangeStep DEF Exchanges
<1>o. Ok \in BOOLEAN \/ ctl[Me].st # "replied"
  BY DEF Inv, Exchanges
<1>l. lag \in Nat /\ TypeOK
  BY Constants DEF Inv, TypeOK
<1> USE Constants, Levels, <1>e, <1>o, <1>l
    DEF TypeOK, Running, Waiting, settings, timers
<1>1. CASE Start
  <2>1. goal' \in [low : Int, high : Int, hyst : Int]
    BY <1>1, TstatAssumption DEF Start
  <2>2. pc' \in {"start.G", "loop"}
    BY <1>1 DEF Start, Call
  <2> QED
    BY <1>1, <2>1, <2>2 DEF Start
<1>2. CASE Started
  BY <1>2 DEF Started, Return, Replies
<1>3. CASE FanOnTimer
  BY <1>3, TimersStay, TakeInIsSoonest DEF FanOnTimer, ReadClock, Call
<1>4. CASE FanTurnedOn
  BY <1>4 DEF FanTurnedOn, Return, Replies, RetryUnless
<1>5. CASE CompressorTimer
  BY <1>5, TakeInIsSoonest DEF CompressorTimer, Call
<1>6. CASE ReversingSet
  BY <1>6 DEF ReversingSet, Call, Replies
<1>7. CASE CompressorTurnedOn
  BY <1>7 DEF CompressorTurnedOn, Call, Replies, Return, CompressorDone
<1>8. CASE CompressorUndone
  BY <1>8 DEF CompressorUndone, Call, Replies
<1>9. CASE ReversingUndone
  BY <1>9 DEF ReversingUndone, Return, Replies, RetryLater
<1>10. CASE FanOffTimer
  BY <1>10, TakeInIsSoonest DEF FanOffTimer, KeepFanOn, Call
<1>11. CASE FanTurnedOff
  BY <1>11 DEF FanTurnedOff, Return, Replies, RetryUnless
<1>12. CASE PollTimedOut
  BY <1>12 DEF PollTimedOut
<1>13. CASE PollReady
  <2>1. TimersLater(lag) /\ lag' = 0 /\ timeout' = Unset
    BY <1>13 DEF PollReady, ReadClock
  <2>2. pc' \in {"weather", "goals", "loop"} /\ reqReady' \in BOOLEAN
    BY <1>13 DEF PollReady
  <2>3. UNCHANGED <<settings, success, ctl, acked>>
    BY <1>13 DEF PollReady
  <2> QED
    BY <2>1, <2>2, <2>3, TimersStay
<1>14. CASE ReadWeather
  <2>1. UNCHANGED <<fanAlways, goal, timeout, lag, success, acked>>
    BY <1>14 DEF ReadWeather
  <2>2. pc' \in {"goals", "loop", "off.Y1"} /\ reqReady' \in BOOLEAN
        /\ mode' \in {"off", "cool", "heat"}
    BY <1>14 DEF ReadWeather, Wanted, CompressorOn, CompressorOff, Handled, Call
  <2>3. earliest' \in Time /\ fanOn' \in Time /\ compOn' \in Time
        /\ fanOff' \in Time
    BY <1>14 DEF ReadWeather, CompressorOn, CompressorOff, KeepFanOn,
                 CancelCompressor
  <2> QED
    BY <2>1, <2>2, <2>3
<1>15. CASE CompressorTurnedOff
  BY <1>15 DEF CompressorTurnedOff, Call, Replies
<1>16. CASE ReversingTurnedOff
  <2>1. FanAfter + lag \in Time /\ ShutoffDelay \in Time
    BY DEF Time
  <2>2. pc' \in {"goals", "loop"} /\ reqReady' \in BOOLEAN /\ acked' =
          IF Ok THEN [acked EXCEPT !["OB"] = "off"] ELSE acked
    BY <1>16 DEF ReversingTurnedOff, Replies, Handled
  <2>3. acked' \in [Wires -> Tristate]
    BY <2>2 DEF Tristate
  <2> QED
    BY <1>16, <2>1, <2>2, <2>3 DEF ReversingTurnedOff
<1>17. CASE HandleReq
  <2>1. goal' \in [low : Int, high : Int, hyst : Int]
    <3>1. PICK g \in Goals : goal' \in [low  : {goal.low, g.low},
                                       high : {goal.high, g.high},
                                       hyst : {goal.hyst, g.hyst}]
      BY <1>17 DEF HandleReq
    <3>2. g \in [low : Int, high : Int, hyst : Int]
      BY TstatAssumption
    <3> QED
      BY <3>1, <3>2
  <2>2. pc' \in {"loop", "goals.on", "goals.off"} /\ fanAlways' \in BOOLEAN
    BY <1>17 DEF HandleReq, Call
  <2>3. UNCHANGED <<mode, timers, timeout, lag, success, reqReady, acked>>
    BY <1>17 DEF HandleReq
  <2> QED
    BY <2>1, <2>2, <2>3
<1>18. CASE FanSetOn
  BY <1>18 DEF FanSetOn, Return, Replies
<1>19. CASE FanSetOff
  BY <1>19 DEF FanSetOff, Return, Replies
<1>20. CASE Crash
  <2>1. 0 \in 0..MaxLag
    BY Constants
  <2> QED
    BY <1>20, <2>1 DEF Crash, Blank
<1>21. CASE HwStep
  BY <1>21 DEF HwStep
<1>22. CASE TstatTick /\ UNCHANGED ctl
  BY <1>22, TimersStay, TickCovers DEF TstatTick, Stuck
<1> QED
  BY <1>1, <1>2, <1>3, <1>4, <1>5, <1>6, <1>7, <1>8, <1>9, <1>10, <1>11,
     <1>12, <1>13, <1>14, <1>15, <1>16, <1>17, <1>18, <1>19, <1>20, <1>21,
     <1>22
     DEF Next, Thread

\* Each step of each action keeps the plan: one step per action, and under it one
\* per part of the invariant.
LEMMA PlanStep ==
    Inv /\ Next => Places' /\ TimersMatchMode' /\ Coverage' /\ FanKnown'
<1> SUFFICES ASSUME Inv, Next
             PROVE  Places' /\ TimersMatchMode' /\ Coverage' /\ FanKnown'
  OBVIOUS
<1>o. Ok \in BOOLEAN \/ ctl[Me].st # "replied"
  BY DEF Inv, Exchanges
<1>l. lag \in Nat /\ TypeOK
  BY Constants DEF Inv, TypeOK
<1> USE Constants, Levels, PassedIsOverdue, <1>o, <1>l
    DEF Inv, TypeOK, Places, TimersMatchMode, settings, timers
<1>1. CASE Start
  <2>1. Places'
    BY <1>1 DEF Start, Call
  <2>2. TimersMatchMode'
    BY <1>1 DEF Start, Call
  <2>3. Coverage'
    BY <1>1 DEF Start, Call, Coverage, Covered
  <2>4. FanKnown'
    BY <1>1 DEF Start, Call, FanKnown
  <2> QED
    BY <2>1, <2>2, <2>3, <2>4
<1>2. CASE Started
  <2>1. Places'
    BY <1>2 DEF Started, Return, Replies
  <2>2. TimersMatchMode'
    BY <1>2 DEF Started, Return, Replies
  <2>3. Coverage'
    BY <1>2 DEF Started, Return, Replies, Coverage, Covered
  <2>4. FanKnown'
    BY <1>2 DEF Started, Return, Replies, FanKnown
  <2> QED
    BY <2>1, <2>2, <2>3, <2>4
<1>3. CASE FanOnTimer
  <2>1. Places'
    BY <1>3, TimersStay, TakeInIsSoonest DEF FanOnTimer, ReadClock, Call
  <2>2. TimersMatchMode'
    BY <1>3, TimersStay, TakeInIsSoonest DEF FanOnTimer, ReadClock, Call
  <2>3. Coverage'
    BY <1>3, TimersStay, TakeInIsSoonest
       DEF FanOnTimer, ReadClock, Call, Coverage, Covered
  <2>4. FanKnown'
    BY <1>3, TimersStay, TakeInIsSoonest
       DEF FanOnTimer, ReadClock, Call, FanKnown
  <2> QED
    BY <2>1, <2>2, <2>3, <2>4
<1>4. CASE FanTurnedOn
  <2>1. Places'
    BY <1>4 DEF FanTurnedOn, Return, Replies, RetryUnless
  <2>2. TimersMatchMode'
    BY <1>4 DEF FanTurnedOn, Return, Replies, RetryUnless
  <2>3. Coverage'
    BY <1>4 DEF FanTurnedOn, Return, Replies, RetryUnless, Coverage, Covered
  <2>4. FanKnown'
    BY <1>4 DEF FanTurnedOn, Return, Replies, RetryUnless, FanKnown
  <2> QED
    BY <2>1, <2>2, <2>3, <2>4
<1>5. CASE CompressorTimer
  <2>1. Places'
    BY <1>5, TakeInIsSoonest DEF CompressorTimer, Call
  <2>2. TimersMatchMode'
    BY <1>5, TakeInIsSoonest DEF CompressorTimer, Call
  <2>3. Coverage'
    <3>1. timeout' = TakeIn(timeout, compOn) /\ UNCHANGED timers
      BY <1>5 DEF CompressorTimer
    <3>2. Covered(fanOn)
      BY <1>5 DEF CompressorTimer, Coverage
    <3>3. Covered(fanOn)'
      BY <3>1, <3>2, TakeInCovers DEF Covered
    <3>4. pc' = "fan_off" => Covered(compOn)'
      BY <1>5, <3>1, TakeInIsSoonest DEF CompressorTimer, Call, Covered
    <3> QED
      BY <1>5, <3>3, <3>4 DEF CompressorTimer, Call, Coverage
  <2>4. FanKnown'
    BY <1>5, TakeInIsSoonest DEF CompressorTimer, Call, FanKnown
  <2> QED
    BY <2>1, <2>2, <2>3, <2>4
<1>6. CASE ReversingSet
  <2>1. Places'
    BY <1>6 DEF ReversingSet, Call, Replies
  <2>2. TimersMatchMode'
    BY <1>6 DEF ReversingSet, Call, Replies
  <2>3. Coverage'
    BY <1>6 DEF ReversingSet, Call, Replies, Coverage, Covered
  <2>4. FanKnown'
    BY <1>6 DEF ReversingSet, Call, Replies, FanKnown
  <2> QED
    BY <2>1, <2>2, <2>3, <2>4
<1>7. CASE CompressorTurnedOn
  <2>1. Places'
    BY <1>7 DEF CompressorTurnedOn, Call, Replies, Return, CompressorDone
  <2>2. TimersMatchMode'
    BY <1>7 DEF CompressorTurnedOn, Call, Replies, Return, CompressorDone
  <2>3. Coverage'
    BY <1>7
       DEF CompressorTurnedOn, Call, Replies, Return, CompressorDone,
           Coverage, Covered
  <2>4. FanKnown'
    BY <1>7
       DEF CompressorTurnedOn, Call, Replies, Return, CompressorDone, FanKnown
  <2> QED
    BY <2>1, <2>2, <2>3, <2>4
<1>8. CASE CompressorUndone
  <2>1. Places'
    BY <1>8 DEF CompressorUndone, Call, Replies
  <2>2. TimersMatchMode'
    BY <1>8 DEF CompressorUndone, Call, Replies
  <2>3. Coverage'
    BY <1>8 DEF CompressorUndone, Call, Replies, Coverage, Covered
  <2>4. FanKnown'
    BY <1>8 DEF CompressorUndone, Call, Replies, FanKnown
  <2> QED
    BY <2>1, <2>2, <2>3, <2>4
<1>9. CASE ReversingUndone
  <2>1. Places'
    BY <1>9 DEF ReversingUndone, Return, Replies, RetryLater
  <2>2. TimersMatchMode'
    BY <1>9 DEF ReversingUndone, Return, Replies, RetryLater
  <2>3. Coverage'
    BY <1>9 DEF ReversingUndone, Return, Replies, RetryLater, Coverage, Covered
  <2>4. FanKnown'
    BY <1>9 DEF ReversingUndone, Return, Replies, RetryLater, FanKnown
  <2> QED
    BY <2>1, <2>2, <2>3, <2>4
<1>10. CASE FanOffTimer
  <2>1. Places'
    BY <1>10, TakeInIsSoonest DEF FanOffTimer, KeepFanOn, Call
  <2>2. TimersMatchMode'
    BY <1>10, TakeInIsSoonest DEF FanOffTimer, KeepFanOn, Call
  <2>3. Coverage'
    <3>1. timeout' = TakeIn(timeout, fanOff) /\ UNCHANGED <<fanOn, compOn>>
      BY <1>10 DEF FanOffTimer
    <3>2. Covered(fanOn) /\ Covered(compOn)
      BY <1>10 DEF FanOffTimer, Coverage
    <3>3. Covered(fanOn)' /\ Covered(compOn)'
      BY <3>1, <3>2, TakeInCovers DEF Covered
    <3>4. pc' = "poll" => Covered(fanOff)'
      BY <1>10, <3>1, TakeInIsSoonest DEF FanOffTimer, Call, Covered
    <3> QED
      BY <1>10, <3>3, <3>4 DEF FanOffTimer, Call, Coverage
  <2>4. FanKnown'
    BY <1>10, TakeInIsSoonest DEF FanOffTimer, KeepFanOn, Call, FanKnown
  <2> QED
    BY <2>1, <2>2, <2>3, <2>4
<1>11. CASE FanTurnedOff
  <2>1. Places'
    BY <1>11 DEF FanTurnedOff, Return, Replies, RetryUnless
  <2>2. TimersMatchMode'
    BY <1>11 DEF FanTurnedOff, Return, Replies, RetryUnless
  <2>3. Coverage'
    BY <1>11 DEF FanTurnedOff, Return, Replies, RetryUnless, Coverage, Covered
  <2>4. FanKnown'
    BY <1>11 DEF FanTurnedOff, Return, Replies, RetryUnless, FanKnown
  <2> QED
    BY <2>1, <2>2, <2>3, <2>4
<1>12. CASE PollTimedOut
  <2>1. Places'
    BY <1>12 DEF PollTimedOut
  <2>2. TimersMatchMode'
    BY <1>12 DEF PollTimedOut
  <2>3. Coverage'
    BY <1>12 DEF PollTimedOut, Coverage, Covered
  <2>4. FanKnown'
    BY <1>12 DEF PollTimedOut, FanKnown
  <2> QED
    BY <2>1, <2>2, <2>3, <2>4
<1>13. CASE PollReady
  <2>1. Places'
    BY <1>13, TimersStay DEF PollReady, ReadClock
  <2>2. TimersMatchMode'
    BY <1>13, TimersStay DEF PollReady, ReadClock
  <2>3. Coverage'
    BY <1>13, TimersStay DEF PollReady, ReadClock, Coverage, Covered
  <2>4. FanKnown'
    BY <1>13, TimersStay DEF PollReady, ReadClock, FanKnown
  <2> QED
    BY <2>1, <2>2, <2>3, <2>4
<1>14. CASE ReadWeather
  <2>1. Places'
    BY <1>14
       DEF ReadWeather, CompressorOn, CompressorOff, KeepFanOn,
           CancelCompressor, Handled, Call
  <2>2. TimersMatchMode'
    BY <1>14
       DEF ReadWeather, CompressorOn, CompressorOff, KeepFanOn,
           CancelCompressor, Handled, Call
  <2>3. Coverage'
    BY <1>14
       DEF ReadWeather, CompressorOn, CompressorOff, KeepFanOn,
           CancelCompressor, Handled, Call, Coverage, Covered
  <2>4. FanKnown'
    BY <1>14
       DEF ReadWeather, CompressorOn, CompressorOff, KeepFanOn,
           CancelCompressor, Handled, Call, FanKnown
  <2> QED
    BY <2>1, <2>2, <2>3, <2>4
<1>15. CASE CompressorTurnedOff
  <2>1. Places'
    BY <1>15 DEF CompressorTurnedOff, Call, Replies
  <2>2. TimersMatchMode'
    BY <1>15 DEF CompressorTurnedOff, Call, Replies
  <2>3. Coverage'
    BY <1>15 DEF CompressorTurnedOff, Call, Replies, Coverage, Covered
  <2>4. FanKnown'
    BY <1>15 DEF CompressorTurnedOff, Call, Replies, FanKnown
  <2> QED
    BY <2>1, <2>2, <2>3, <2>4
<1>16. CASE ReversingTurnedOff
  <2>1. Places'
    BY <1>16 DEF ReversingTurnedOff, Replies, Handled
  <2>2. TimersMatchMode'
    BY <1>16 DEF ReversingTurnedOff, Replies, Handled
  <2>3. Coverage'
    BY <1>16 DEF ReversingTurnedOff, Replies, Handled, Coverage, Covered
  <2>4. FanKnown'
    BY <1>16 DEF ReversingTurnedOff, Replies, Handled, FanKnown
  <2> QED
    BY <2>1, <2>2, <2>3, <2>4
<1>17. CASE HandleReq
  <2>1. Places'
    BY <1>17 DEF HandleReq, Call, FanNotNeeded
  <2>2. TimersMatchMode'
    BY <1>17 DEF HandleReq, Call, FanNotNeeded
  <2>3. Coverage'
    BY <1>17 DEF HandleReq, Call, FanNotNeeded, Coverage, Covered
  <2>4. FanKnown'
    BY <1>17 DEF HandleReq, Call, FanNotNeeded, FanKnown
  <2> QED
    BY <2>1, <2>2, <2>3, <2>4
<1>18. CASE FanSetOn
  <2>1. Places'
    BY <1>18 DEF FanSetOn, Return, Replies
  <2>2. TimersMatchMode'
    BY <1>18 DEF FanSetOn, Return, Replies
  <2>3. Coverage'
    BY <1>18 DEF FanSetOn, Return, Replies, Coverage, Covered
  <2>4. FanKnown'
    BY <1>18 DEF FanSetOn, Return, Replies, FanKnown
  <2> QED
    BY <2>1, <2>2, <2>3, <2>4
<1>19. CASE FanSetOff
  <2>1. Places'
    BY <1>19 DEF FanSetOff, Return, Replies
  <2>2. TimersMatchMode'
    BY <1>19 DEF FanSetOff, Return, Replies
  <2>3. Coverage'
    BY <1>19 DEF FanSetOff, Return, Replies, Coverage, Covered
  <2>4. FanKnown'
    BY <1>19 DEF FanSetOff, Return, Replies, FanKnown
  <2> QED
    BY <2>1, <2>2, <2>3, <2>4
<1>20. CASE Crash
  <2>1. Places'
    BY <1>20 DEF Crash, Blank
  <2>2. TimersMatchMode'
    BY <1>20 DEF Crash, Blank
  <2>3. Coverage'
    BY <1>20 DEF Crash, Blank, Coverage, Covered
  <2>4. FanKnown'
    BY <1>20 DEF Crash, Blank, FanKnown
  <2> QED
    BY <2>1, <2>2, <2>3, <2>4
<1>21. CASE HwStep
  <2>1. Places'
    BY <1>21 DEF HwStep
  <2>2. TimersMatchMode'
    BY <1>21 DEF HwStep
  <2>3. Coverage'
    BY <1>21 DEF HwStep, Coverage, Covered
  <2>4. FanKnown'
    BY <1>21 DEF HwStep, FanKnown
  <2> QED
    BY <2>1, <2>2, <2>3, <2>4
<1>22. CASE TstatTick /\ UNCHANGED ctl
  <2>1. Places'
    BY <1>22, TimersStay, TickCovers DEF TstatTick, Stuck
  <2>2. TimersMatchMode'
    BY <1>22, TimersStay, TickCovers DEF TstatTick, Stuck
  <2>3. Coverage'
    <3>1. CASE UNCHANGED <<timers, timeout>>
      BY <1>22, <3>1 DEF TstatTick, Coverage, Covered
    <3>2. CASE pc = "poll" /\ timeout # 0 /\ TimersLater(1)
               /\ timeout' = Later(timeout, 1)
      <4>1. Covered(fanOn) /\ Covered(compOn) /\ Covered(fanOff)
        BY <3>2 DEF Coverage
      <4>2. Covered(fanOn)' /\ Covered(compOn)' /\ Covered(fanOff)'
        BY <3>2, <4>1, TickCovers DEF Covered, TimersLater
      <4> QED
        BY <4>2 DEF Coverage
    <3> QED
      BY <1>22, <3>1, <3>2 DEF TstatTick
  <2>4. FanKnown'
    BY <1>22, TimersStay, TickCovers DEF TstatTick, Stuck, FanKnown
  <2> QED
    BY <2>1, <2>2, <2>3, <2>4
<1> QED
  BY <1>1, <1>2, <1>3, <1>4, <1>5, <1>6, <1>7, <1>8, <1>9, <1>10, <1>11,
     <1>12, <1>13, <1>14, <1>15, <1>16, <1>17, <1>18, <1>19, <1>20, <1>21,
     <1>22
     DEF Next, Thread
----------------------------------------------------------------------------
\* No state but a step of Next changes what Inv is about.
LEMMA StutterStep == Inv /\ UNCHANGED tstatVars => Inv'
BY DEF Inv, TypeOK, Exchanges, Ok, Places, TimersMatchMode, Coverage, Covered,
       FanKnown, tstatVars

\* A thermostat that is down has no plan.
LEMMA Initially == Init => Inv
<1> SUFFICES ASSUME Init PROVE Inv
  OBVIOUS
<1> USE Constants, Exchanged DEF Init
<1>1. Exchanges
  BY DEF Exchanges
<1>2. TypeOK
  <2>1. goal \in [low : Int, high : Int, hyst : Int]
    BY TstatAssumption
  <2>2. 0 \in 0..MaxLag
    OBVIOUS
  <2> QED
    BY <1>1, <2>1, <2>2 DEF TypeOK, Exchanges, Tristate
<1>3. Places /\ TimersMatchMode /\ Coverage /\ FanKnown
  BY DEF Places, TimersMatchMode, Coverage, FanKnown
<1> QED
  BY <1>1, <1>2, <1>3 DEF Inv

\* The invariant, which the theorems below are parts of, holds.
THEOREM InvHolds == Spec => []Inv
<1>1. Inv /\ [Next]_tstatVars => Inv'
  BY ExchangeStep, TypeStep, PlanStep, StutterStep DEF Inv
<1> QED
  BY Initially, <1>1, PTL DEF Spec

\* Every variable has its type, and no time outgrows its representation: the
\* plan of timers never holds a value the clock code cannot compare.
THEOREM TstatTypes == Spec => []TypeOK
<1>1. Inv => TypeOK
  BY DEF Inv
<1> QED
  BY InvHolds, <1>1, PTL

\* In every state, between any two commands and after any refusal, the timers
\* that are set are the ones the mode calls for (tstat.c:115-164, 325-372).
THEOREM TimersAreOnePlan == Spec => []TimersMatchMode
<1>1. Inv => TimersMatchMode
  BY DEF Inv
<1> QED
  BY InvHolds, <1>1, PTL

\* The thread never sleeps in zmq_poll past a timer that is set, but for the
\* delay of a retry (tstat.c:323-381).
THEOREM NoTimerIsSleptPast == Spec => []NoLostWakeup
<1>1. Inv => NoLostWakeup
  BY DEF Inv, Coverage, Covered, NoLostWakeup
<1> QED
  BY InvHolds, <1>1, PTL

\* The compressor is asked for only after the fan is confirmed to be on, for any
\* delays, goals and temperatures and after any refusals (tstat.c:323-359).
THEOREM CompressorWaitsForFan == Spec => []CompressorNeedsFan
<1>1. Inv => CompressorNeedsFan
  BY Levels DEF Inv, Places, TimersMatchMode, FanKnown, CompressorNeedsFan
<1> QED
  BY InvHolds, <1>1, PTL
=============================================================================
