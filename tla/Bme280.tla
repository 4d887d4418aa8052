------------------------------- MODULE Bme280 -------------------------------
(***************************************************************************)
(* bme280: the pressure sensor's process.  Its one thread sleeps in my_loop*)
(* for everything it waits for: the next poll, the measurement, and inside *)
(* the driver's callbacks each readiness of the I2C device.  Wherever it   *)
(* sleeps, a new subscriber is sent the current reading.  Times are struct *)
(* timespecs, and the timeout of a sleep is in whole milliseconds.         *)
(***************************************************************************)
EXTENDS Timespec

CONSTANTS Interval,  \* poll_interval_ms
          ReqDelay,  \* req_delay, in milliseconds
          Pause,     \* what the driver may wait for on its own, in nanoseconds
          MaxOps,    \* bound: accesses in one call of the driver
          MaxSec     \* bound: the seconds that the clock runs

ASSUME Bme280Assumption ==
    {Interval, ReqDelay, Pause, MaxOps, MaxSec} \subseteq Nat

Nobody == -1

VARIABLES now,      \* the clock
          at,       \* in main: "interval", "mode", "delay" or "data"
          io,       \* in the driver: what it waits for, or "none"
          pc,       \* "loop" and "poll" in my_loop; "back" from it; "driver"
          deadline, \* ts_req_timeout
          wake,     \* in zmq_poll: when its timeout is over
          revents,  \* the device was reported ready
          ops,      \* accesses in this call of the driver
          failed,   \* one of them failed
          reading,  \* current_pbw: the number of the poll it is from, 0 before
          told,     \* what the latest subscriber was sent last, or Nobody
          poll,     \* history: the number of the poll
          started,  \* history: the last poll in which a measurement was begun
          begun,    \* history: when this wait was begun ...
          owed      \* history: ... and how long it is to be, 0 for the device

loopVars == <<pc, deadline, wake, revents>>
history == <<poll, started, begun, owed>>
vars == <<now, at, io, loopVars, ops, failed, reading, told, history>>

\* A call of my_loop with a deadline `ns' from now, and one for the device.
SleepFor(until, ns) ==
    /\ pc' = "loop"
    /\ deadline' = until
    /\ revents' = FALSE
    /\ begun' = now /\ owed' = ns

AwaitDevice == SleepFor(Clear, 0)
----------------------------------------------------------------------------
(* my_loop.                                                                *)

\* Mutant of SleepsOn: the wait is over when the timeout is.
SleepsTimeout ==
    ~revents /\ ~Passed(deadline, now) /\ ~(IsSet(wake) /\ Cmp(now, wake) >= 0)

\* Neither is the deadline past nor the device ready.
SleepsOn == ~revents /\ ~Passed(deadline, now)

LoopPass ==
    /\ pc = "loop"
    /\ \/ SleepsOn
             /\ pc' = "poll"
             /\ wake' = IF IsSet(deadline)
                        THEN AddMs(now, TimeoutMs(now, deadline)) ELSE Clear
       \/ ~SleepsOn /\ pc' = "back" /\ wake' = Clear
    /\ UNCHANGED <<now, at, io, deadline, revents, ops, failed, reading, told, history>>

PollTimedOut ==
    /\ pc = "poll"
    /\ IsSet(wake) /\ Cmp(now, wake) >= 0
    /\ pc' = "loop"
    /\ UNCHANGED <<now, at, io, deadline, wake, revents, ops, failed, reading, told,
                   history>>

\* A new subscriber, one that leaves, the device, or several of them.
PollReady ==
    /\ pc = "poll"
    /\ pc' = "loop"
    /\ \E sub, fd \in BOOLEAN :
          /\ fd => ~IsSet(deadline)
          /\ told' = IF sub THEN reading ELSE told
          /\ revents' = fd
    /\ UNCHANGED <<now, at, io, deadline, wake, ops, failed, reading, history>>
----------------------------------------------------------------------------
(* my_i2c_write and my_i2c_read, and the driver that calls them.           *)

\* The driver: it reads or writes a register, or waits, a few times ...
DriverAccess ==
    /\ pc = "driver"
    /\ ~failed /\ ops < MaxOps
    /\ ops' = ops + 1
    /\ \/ io' \in {"write", "register"} /\ AwaitDevice
       \/ io' = "pause" /\ SleepFor(AddNs(now, Pause), Pause)
    /\ UNCHANGED <<now, at, wake, failed, reading, told, poll, started>>

\* A write or a read that the device took none of, or a part of a read, is tried
\* again; a register that was written is then read.
Access ==
    /\ pc = "back"
    /\ io # "none"
    /\ \/ io = "register" /\ io' = "read" /\ AwaitDevice /\ UNCHANGED failed
       \/ io # "pause" /\ AwaitDevice /\ UNCHANGED <<io, failed>>
       \/ /\ io # "register"
          /\ io' = "none" /\ pc' = "driver"
          /\ UNCHANGED <<deadline, revents, failed, begun, owed>>
       \/ /\ io # "pause"
          /\ io' = "none" /\ pc' = "driver" /\ failed' = TRUE
          /\ UNCHANGED <<deadline, revents, begun, owed>>
    /\ UNCHANGED <<now, at, wake, ops, reading, told, poll, started>>
----------------------------------------------------------------------------
(* main.                                                                   *)

CallDriver(place) ==
    /\ at' = place
    /\ pc' = "driver"
    /\ ops' = 0
    /\ failed' = FALSE

\* The next poll's time has come.
PollSensor ==
    /\ pc = "back" /\ io = "none" /\ at = "interval"
    /\ CallDriver("mode")
    /\ poll' = poll + 1
    /\ UNCHANGED <<now, io, deadline, wake, revents, reading, told, started, begun, owed>>

ScheduleNextPoll ==
    /\ at' = "interval"
    /\ SleepFor(AddMs(now, Interval), Interval * NsPerMs)

\* Mutant of ModeFailed: the poll goes on.
ModeFailedAnyway ==
    at' = "delay" /\ SleepFor(AddNs(now, ReqDelay * NsPerMs), ReqDelay * NsPerMs)

ModeFailed == ScheduleNextPoll

\* bme280_set_sensor_mode returns; a call with a failed access has failed.
ModeSet ==
    /\ pc = "driver" /\ at = "mode"
    /\ \/ /\ ~failed
          /\ at' = "delay"
          /\ SleepFor(AddNs(now, ReqDelay * NsPerMs), ReqDelay * NsPerMs)
          /\ started' = poll
       \/ ModeFailed /\ UNCHANGED started
    /\ UNCHANGED <<now, io, wake, ops, failed, reading, told, poll>>

\* The measurement is done.
GetData ==
    /\ pc = "back" /\ io = "none" /\ at = "delay"
    /\ CallDriver("data")
    /\ UNCHANGED <<now, io, deadline, wake, revents, reading, told, history>>

\* Mutant of HandleReadings: what a later subscriber is sent stays as it was.
HandleReadingsOnce ==
    /\ reading' = IF reading = 0 THEN poll ELSE reading
    /\ told' = IF told = Nobody THEN told ELSE poll

\* handle_readings: current_pbw is set and published.
HandleReadings ==
    /\ reading' = poll
    /\ told' = IF told = Nobody THEN told ELSE poll

\* bme280_get_sensor_data returns.
DataGot ==
    /\ pc = "driver" /\ at = "data"
    /\ \/ ~failed /\ HandleReadings
       \/ UNCHANGED <<reading, told>>
    /\ ScheduleNextPoll
    /\ UNCHANGED <<now, io, wake, ops, failed, poll, started>>
----------------------------------------------------------------------------
Tick ==
    /\ now.sec < MaxSec
    /\ now' = AddNs(now, 1)
    /\ UNCHANGED <<at, io, loopVars, ops, failed, reading, told, history>>

\* The first poll is due at once.
Init ==
    /\ now \in { Time(0, n) : n \in 0..NsPerSec - 1 }
    /\ at = "interval" /\ io = "none" /\ pc = "loop"
    /\ deadline = now /\ wake = Clear /\ revents = FALSE
    /\ ops = 0 /\ failed = FALSE
    /\ reading = 0 /\ told = Nobody
    /\ poll = 0 /\ started = 0 /\ begun = now /\ owed = 0

Next ==
    \/ LoopPass \/ PollTimedOut \/ PollReady
    \/ DriverAccess \/ Access
    \/ PollSensor \/ ModeSet \/ GetData \/ DataGot
    \/ Tick

Spec == Init /\ [][Next]_vars
----------------------------------------------------------------------------
(* Properties.                                                             *)

\* Every variable has its type; every time is a normal timespec.
TypeOK ==
    /\ now \in Times /\ begun \in Times
    /\ deadline \in Times \cup {Clear} /\ wake \in Times \cup {Clear}
    /\ at \in {"interval", "mode", "delay", "data"}
    /\ io \in {"none", "write", "register", "read", "pause"}
    /\ pc \in {"loop", "poll", "back", "driver"}
    /\ revents \in BOOLEAN /\ failed \in BOOLEAN
    /\ ops \in 0..MaxOps /\ owed \in Nat
    /\ reading \in 0..poll /\ told \in {Nobody} \cup 0..poll

\* No wait ends early: neither a subscriber, nor a timeout cut to milliseconds,
\* nor a carry makes my_loop return before its time, so that a measurement is
\* not read before it is done (bme280.c:63-94, 189-196).
NeverEarly ==
    pc = "back" => Value(now) - Value(begun) >= owed

\* A subscriber, whichever wait it came in, knows the current reading
\* (bme280.c:38-59).
SubscriberKnowsReading == told # Nobody => told = reading

\* What is published was measured in the poll that publishes it, however the
\* accesses before it failed (bme280.c:187-206).
OnlyFreshReadings == [][reading' # reading => started = poll]_vars
=============================================================================
