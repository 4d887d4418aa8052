------------------------------- MODULE Htu21d -------------------------------
(***************************************************************************)
(* htu21d: the process that polls a temperature and humidity sensor on an  *)
(* I2C bus and publishes what it reads.  One loop runs req_func, the next  *)
(* step of the poll, when ts_next_req has passed, and otherwise sleeps in  *)
(* zmq_poll, from which a new subscriber may wake it.                      *)
(*                                                                         *)
(* Time is relative, as in Tstat: `next' is ts_next_req after ts_now, and  *)
(* `lag' the time since ts_now was read.  The sensor is what the datasheet *)
(* says: it takes a command, is busy for a while, and then gives its       *)
(* reading once; until then, and after, it does not answer a read.         *)
(***************************************************************************)
EXTENDS Integers

CONSTANTS TempDelay,    \* the 50 ms of htu21d_req_temp, in ticks
          HumidDelay,   \* the 16 ms of htu21d_req_humid
          Interval,     \* poll_interval_ms
          TempTime,     \* how long the sensor takes for a temperature
          HumidTime,    \* and for a humidity
          MaxLag        \* bound: ticks the code runs between clock readings

\* What the constants are to be.
Htu21dAssumption ==
    /\ TempDelay \in Nat /\ HumidDelay \in Nat /\ Interval \in Nat
    /\ TempTime \in Nat /\ HumidTime \in Nat /\ MaxLag \in Nat

\* The delays of the code give the sensor, and a clock read MaxLag ticks before, the
\* time they take: a deadline is over a tick after it.
InTime ==
    /\ TempTime + MaxLag <= TempDelay + 1
    /\ HumidTime + MaxLag <= HumidDelay + 1

Overdue == -1

VARIABLES pc,       \* "loop" (to read the clock), "check", "humid" (between the
                    \* two commands of rcv_temp) or "poll"
          req_func, \* "req_temp", "rcv_temp" or "rcv_humid"
          next,     \* ts_next_req
          timeout,  \* in zmq_poll: what is left of the timeout
          lag,
          reading,  \* the sensor: "none", "temp" or "humid" ...
          busy,     \* ... and the ticks until it is ready
          bus,      \* whether the bus works
          sent      \* what was last published

vars == <<pc, req_func, next, timeout, lag, reading, busy, bus, sent>>

Later(t, d) == IF t < d THEN Overdue ELSE t - d
----------------------------------------------------------------------------
(* The sensor on the bus.                                                  *)

\* A write that works starts a measurement.
Measure(kind, time) == bus /\ reading' = kind /\ busy' = time

\* A read that works gives a finished reading.
CanRead == bus /\ reading # "none" /\ busy = 0
Read == reading' = "none" /\ busy' = 0
----------------------------------------------------------------------------
(* The steps of a poll.                                                    *)

\* Mutant of PollComplete: the poll is not begun anew.
PollGoesOn == next' = Interval /\ UNCHANGED req_func

PollComplete ==
    /\ req_func' = "req_temp"
    /\ next' = Interval

\* Mutant of Await: the deadline stays.
AwaitNothing(func, delay) == req_func' = func /\ UNCHANGED next

\* The step that comes next, and when.
Await(func, delay) == req_func' = func /\ next' = delay

\* htu21d_reset, which may fail to reach the sensor.
Reset ==
    /\ \/ bus /\ reading' = "none" /\ busy' = 0
       \/ ~bus /\ UNCHANGED <<reading, busy>>
    /\ PollComplete
    /\ UNCHANGED sent

ReqTemp ==
    \/ Measure("temp", TempTime) /\ Await("rcv_temp", TempDelay) /\ UNCHANGED sent
    \/ ~bus /\ Reset

\* A temperature is published, and then its humidity asked for.
RcvTemp ==
    \/ CanRead /\ reading = "temp" /\ Read /\ sent' = "temp" /\ pc' = "humid"
          /\ UNCHANGED <<req_func, next>>
    \/ ~(CanRead /\ reading = "temp") /\ Reset /\ UNCHANGED pc

\* rcv_temp does not look at the result of htu21d_req_humid: when the bus fails in
\* between, req_func and ts_next_req stay as they were.
ReqHumid ==
    /\ pc = "humid"
    /\ pc' = "check"
    /\ \/ Measure("humid", HumidTime) /\ Await("rcv_humid", HumidDelay)
       \/ ~bus /\ UNCHANGED <<reading, busy, req_func, next>>
    /\ UNCHANGED <<timeout, lag, bus, sent>>

RcvHumid ==
    \/ CanRead /\ reading = "humid" /\ Read /\ sent' = "humid" /\ PollComplete
    \/ ~(CanRead /\ reading = "humid") /\ Reset
----------------------------------------------------------------------------
(* main.                                                                   *)

ReadClock ==
    /\ pc = "loop"
    /\ pc' = "check"
    /\ next' = Later(next, lag)
    /\ lag' = 0
    /\ UNCHANGED <<req_func, timeout, reading, busy, bus, sent>>

\* ts_now is the one that was read before the last step.
Due == pc = "check" /\ next = Overdue

Step ==
    /\ Due
    /\ \/ req_func = "req_temp" /\ ReqTemp /\ UNCHANGED pc
       \/ req_func = "rcv_temp" /\ RcvTemp
       \/ req_func = "rcv_humid" /\ RcvHumid /\ UNCHANGED pc
    /\ UNCHANGED <<timeout, lag, bus>>

Sleep ==
    /\ pc = "check" /\ next # Overdue
    /\ pc' = "poll"
    /\ timeout' = next
    /\ UNCHANGED <<req_func, next, lag, reading, busy, bus, sent>>

\* The timeout is over.
WakeUp ==
    /\ pc = "poll" /\ timeout = 0
    /\ pc' = "loop"
    /\ UNCHANGED <<req_func, next, timeout, lag, reading, busy, bus, sent>>

\* A new subscriber wakes the loop and is sent the current state.
Subscriber ==
    /\ pc = "poll"
    /\ pc' = "loop"
    /\ timeout' = 0
    /\ UNCHANGED <<req_func, next, lag, reading, busy, bus, sent>>

\* The bus fails or works again.
BusChange ==
    /\ bus' = ~bus
    /\ UNCHANGED <<pc, req_func, next, timeout, lag, reading, busy, sent>>

\* In zmq_poll the time is counted by the timeout; elsewhere MaxLag ticks at most
\* go by between clock readings.
Tick ==
    /\ \/ pc = "poll" /\ timeout > 0
             /\ timeout' = timeout - 1 /\ next' = Later(next, 1) /\ UNCHANGED lag
       \/ ~(pc = "poll" /\ timeout > 0) /\ lag < MaxLag
             /\ lag' = lag + 1 /\ UNCHANGED <<timeout, next>>
    /\ busy' = IF busy > 0 THEN busy - 1 ELSE 0
    /\ UNCHANGED <<pc, req_func, reading, bus, sent>>
----------------------------------------------------------------------------
Init ==
    /\ pc = "loop" /\ req_func = "req_temp"
    /\ next = 0 /\ timeout = 0 /\ lag = 0
    /\ reading = "none" /\ busy = 0 /\ bus \in BOOLEAN
    /\ sent = "none"

Process == ReadClock \/ Step \/ ReqHumid \/ Sleep \/ WakeUp

Next == Process \/ Subscriber \/ BusChange \/ Tick

\* The process runs and time passes.
Spec == Init /\ [][Next]_vars /\ WF_vars(Process) /\ WF_vars(Tick)
----------------------------------------------------------------------------
(* Properties.                                                             *)

\* Every variable has its type.
TypeOK ==
    /\ pc \in {"loop", "check", "humid", "poll"}
    /\ req_func \in {"req_temp", "rcv_temp", "rcv_humid"}
    /\ next \in {Overdue} \cup Nat /\ timeout \in Nat /\ lag \in 0..MaxLag
    /\ reading \in {"none", "temp", "humid"} /\ busy \in Nat
    /\ bus \in BOOLEAN
    /\ sent \in {"none", "temp", "humid"}

\* A measurement that the sensor has begun is left to finish: it is neither read
\* too early, which resets the sensor, nor begun again, however a subscriber's
\* wake-up or a failing bus falls between the steps (htu21d.c:36-59, 78-98).
MeasurementsFinish ==
    [][busy > 0 => reading' = reading /\ busy' <= busy]_vars

\* The loop always gets back to zmq_poll, even while the bus fails; once it works
\* for good, temperature and humidity are both published again and again, from
\* wherever a failure left the poll (htu21d.c:43-122, 174-190).
KeepsReporting ==
    /\ pc = "check" ~> pc = "poll"
    /\ <>[]bus => []<>(sent = "temp") /\ []<>(sent = "humid")
=============================================================================
