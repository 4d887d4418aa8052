# FreeAbode in TLA+

A verification project for FreeAbode (C, `src/`): TLA+ models of its processes and of the
library they share, TLC configurations that check them on small instances, and TLAPS proofs of
what matters most for every instance. FreeAbode is a set of processes that talk over ZeroMQ: a
thermostat, two interchangeable hardware controllers, sensors, a knob with a screen on the wall,
and two clients for the command line.

## 1. The system

| Component | State | Operations | Modelled in |
|---|---|---|---|
| `gpio_hvac` | per wire: line, believed `value`, `last_changed` | wire commands (REP), snapshot and events (XPUB), startup commands | `GpioHvac`, promise in `RelaySafety` |
| `nbp` | per FET: `_asserted`, `_present`, `_ts_last_shutoff`; read buffer | wire commands (REP), presence reports and other messages on a serial line, snapshot and events (XPUB) | `NbpFet`; the serial framing in `NbpFrame` and `Crc16` |
| `tstat` | goals, `fan_always_on`, mode, `ts_earliest_compressor`, three timers | timers, weather (SUB), requests (REP), commands to a controller (REQ) | `Tstat` |
| `tstat` with its controller | both | both, on one clock | `HvacSystem` (gpio_hvac, and a second client), `NbpSystem` (nbp), `House` (either) |
| `wallknob` | goals and `adjusting`, shared by two threads; menu, units | knob turns, keys, menus, adjustments (REQ), events (SUB), drawing | `Wallknob` |
| `htu21d` | next step of the poll and its time | I2C poll, events (XPUB) | `Htu21d` |
| `bme280` | reading, deadline of the wait | I2C poll that waits inside the driver's callbacks, events (XPUB) | `Bme280` |
| time arithmetic (`util.h`) | none | add, subtract, compare, timeouts | `Timespec` |
| configuration (`fabdcfg.c`) | `directory.json`, the device's own file | look-ups by precedence, binding, choice of an endpoint, connecting | `Fabdcfg` |
| JSON (`json.c`, `util.c`) | none | JSON to messages and back, words and numbers, hexadecimal | `FabdJson`, `FabdUtil` |
| `fabd-cli`, `remctl` | none | arguments to one request, one reply to an exit status | `FabdCli`; as a client that may die, in `HvacSystem` |
| security, logging | keys | ZAP, output | not modelled |

**How they interact.** A REQ socket sends one request and blocks for its reply; the REP side
carries out the request's commands one after the other and replies with one result for each.
Changes are published on XPUB sockets, which also hand the process each new subscription, so
that it can send a snapshot. No call has a timeout. Every process is one thread, except
`wallknob`, which has two (and the ZAP handler's, in the servers). Where a client finds a server
is written in configuration files, part of which only one of the two reads.

**What is hard.** Commands of several clients and of one request undo each other; a line or a
serial write fails halfway through a command; a process dies, comes back without memory of the
equipment's past, and meets peers that remember; the thermostat computes deadlines from a clock
reading that is older than the command it has just waited for; three timers share one timeout;
thermostat and controller each have lockouts of their own; a backplate resets and tells later;
two threads share variables without a lock; numbers change their width and sign on the way from
JSON to a message. The full list, with the lines, is under `hazards` in `PROJECT.json`.

**What makes each component correct.**

* Controllers: heat sources rest between runs and never run without the fan; the valve does
  not turn under a compressor that has been running; a reply and the events are about the lines.
* Thermostat: timers and mode agree; no timer is slept past; the compressor is asked for only
  with a confirmed fan.
* Thermostat with a controller: the compressor runs only as wanted, a want is served in the end,
  the fan stops in the end, and neither's death makes the compressor run the wrong way.
* Knob: what is shown, held and sent are goals the thermostat has or had.
* Sensors: no measurement is cut short; reports go on after a failure; a subscriber knows the reading.
* Framing: nothing is made up, no whole frame is passed over, the parser always comes to its end.
* Library: a request says what its JSON says or is not sent; what is printed is what was replied;
  a client finds the server that the configuration names.

## 2. Modules

`HvacWires` is the common vocabulary: wires, levels, commands, and the state of one REQ/REP
exchange (idle, sent, taken, replied, lost). Four wires have safety controls, `other` stands for
all the rest, which `gpio_hvac` always refuses.

### RelaySafety: the abstract specification
Only the equipment: lines, whether a controller is alive, and the age of each heat source's last
switch. `Relay` changes lines under three conditions (rest, fan, valve), `Abandon` and
`TakeCharge` are the death and the start of a controller, in which lines may only drop.

### GpioHvac
One action per handler: `Start` (lines requested low, `gpio_hvac_obj_init`), `ControlWire` (one
command: `control_wire_safe` and everything it calls, with the forced fan and the forced
compressor stop inside the step), `Serve`, `HandleReq`, `SendReply`, `GotNewSubscriber`, `Crash`.
A request is a list of commands carried out by successive `ControlWire` steps, so that time may
pass and clients may come and go between them. `Drive` is `control_wire_unsafe`: a wire without a
line, or a failing `gpiod_line_set_value`, changes nothing and yields FALSE. `line` is what is,
`value` what the process believes; `since` is the truth about rest, `age` is `last_changed`. The
code compares the clock only with `last_changed` plus a constant, so ages are kept and saturate
at `Forever`.

### Tstat
The thread's place in the loop is `pc`; a command is a `Call` and, after the reply, the rest of
the code up to the next command. Every time is kept in ticks after `ts_now`, the clock reading in
use, and `lag` is how far the real clock has moved on; `ReadClock` shifts them all. Thus a deadline
computed from a stale `ts_now` is modelled as such. In `zmq_poll` time passes by the timeout.
`HwStep` is the weakest controller the thermostat may rely on: it takes, answers TRUE or FALSE, or
loses the exchange.

### NbpFet
What is (`fet`, `rest`) is kept apart from what nbp believes (`asserted`, `present`, `age`). The
backplate may reset whenever it likes and its report arrives later; the FETs disconnected on a
report are each written to the backplate or not (`unsent` remembers which were not). The FETs that
are told apart are a constant. Weather, power and periodic messages touch none of this state.

### HvacSystem, NbpSystem and House
`HvacSystem` instantiates `Tstat` and `GpioHvac` on shared variables `ctl` (the exchanges) and one
`Tick`, with deaths of either process and a second client. Two refinements tie it to its parts: the
system implements `Tstat!Spec` with any controller (`ImplementsTstat`, on the thermostat's own
exchange) and `GpioHvac!Spec` with any clients (`ImplementsGpio`), so that what is shown of each
part alone holds of it here. `NbpSystem` does the same with `NbpFet`, without faults: each FET has
a rest of its own there, and nbp knows neither fan nor valve.

`House` is the thermostat with whichever of the two its configuration names: `hw` chooses in the
first state, and each action is the one of that system. The variables of the controller that is not
there have no value. What the thermostat means for the equipment is stated once, for both.

### NbpFrame and Crc16
The serial line from the backplate to `nbp_read`. `Send` puts a frame on the line, whole or with one
byte lost, changed or put in; `Read` takes up to 16 bytes of what has come in; the three actions of
`Loop` are the ways a pass of the parsing loop ends: wait for more (`NeedMore`), drop up to the next
byte that may begin a frame (`Invalid`), or hand over a message (`GotMessage`). `alloc` is the
buffer's allocation. The bytes are real here, and so is the checksum (`Crc16`, table and all, with
the exclusive or put together from halves, so that it can be proved about), for the properties are
about what bytes look like. `received` and `pos` keep the whole stream, so that
`NoFrameLost` can say of every place in it whether a whole frame stood there, and that what has been
read fits its allocation.

### Timespec and Bme280
`Timespec` is `util.h`'s arithmetic on `struct timespec`, with the lengths of a millisecond and a
second as constants, so that carries and truncations occur with small numbers. `Bme280` uses it as it
is: absolute times, and a poll whose timeout is cut to whole milliseconds. The thread's place is
`at` (which wait of `main`), `io` (which access of the driver, in whose callbacks the same
`my_loop` runs) and `pc` (inside `my_loop`). The driver is not in the repository; it is an arbitrary
sequence of accesses and pauses, each of which may fail. `begun` and `owed` record when a wait began
and how long it is to be.

### Htu21d
The four `req_func`s, `htu21d_reset` and the loop, against a sensor that answers a read once, and
only when its measurement is done, and a bus that may fail and recover at any moment.

### Wallknob
Both threads, step by step between accesses to what they share: `ActivateSide`, `ReceiveSide`,
`DrawSide` for each goal of an event; `WeatherRecv`; `KnobTurn`, two `CopySide`, `Shift`;
`MakeAdjustments`, two `ReplySide`, `Finish`; and the menus (`ButtonPress`, `MenuScroll`,
`MenuSelect`, `UnitsChosen`), of which the one for units changes what the other thread draws with.
Two pipes wake the weather thread, one for the goals and one for the whole screen. `saw` stands for
the compiler's freedom to read `adjusting` again or not. Beyond that the model is sequentially
consistent, and it takes the goals as whole numbers: `adj_hp`, a double, is what it rounds to. The
thermostat is `tstat`'s `handle_req` (apply, reply, publish) with another client beside the knob.

### FabdUtil, FabdJson, FabdCli
`FabdUtil` is `util.c`: hexadecimal and `fabd_strtobool` with its table of words; and the C library's
`strtol` and `strtod`, with blanks, signs and prefixes. `MCLibrary` evaluates a table of what they
read (`Readings`). Floats and doubles are counted in halves: what is finer, rounding, exponents,
infinity, NaN and a hexadecimal numeral that begins with its point are left out.
`FabdJson` is `json.c` in both directions, by the descriptors of the messages (`Schema`, `Enums`):
`j2p_assign_field` and `json_to_protobuf` one way, `p2j_elem` and `protobuf_to_json` the other, with
the widths of `int`, `long` and the JSON library's integer as constants. A conversion yields the
message and whether anything failed: what can be converted is, even when something else cannot. The
elements of an array are assigned one after the other (`AssignElements`, a recursive function). No
message of `freeabode.proto` that is sent this way nests deeper than a message in a message, so the
functions' recursion is unfolded once (`Converted`, `ToJson`), and `FabdJsonAssumption` says so.
`FabdCli` are the two programs, from arguments to exit, with a server that replies as it likes.
`Says` and `Means` state what a request is to have in terms of the JSON, type by type: an integer is
itself, a word what it says, a whole numeral its number, a real itself or, where a whole number is
wanted, its whole part. The
messages that are printed and read back are a constant, `Sayings`, of which `saying` is any one.

### Fabdcfg
The look-ups (`fabdcfg_device_get` and the server's lists) over `directory.json` and the device's own
file, `IsLocal`, the choice of an endpoint from `connect` or `bind`, and two processes that bind and
connect, in either order. ZeroMQ and the host are external: what can be bound, what
reaches what.

## 3. Runs

| Run | Instance | Expect | Shows |
|---|---|---|---|
| `gpio` | Y1, OB and G wired; lines fail; one client that dies | pass | `TypeOK`, `FanRunsWithHeat`, `AckedCommandsHold`, `SubscriberKnowsLines`, refinement `KeepsRelaysSafe` |
| `gpio_no_compressor` | no Y1 line | violation | `KnownAfterStartup` (finding 1) |
| `tstat` | any controller, crashes, two goal sets | pass | `TypeOK`, `TimersMatchMode`, `NoLostWakeup`, `CompressorNeedsFan` |
| `tstat_cancel` | any controller | violation | `CancelledFanIsOff` (finding 2) |
| `house` | either controller, no failures, fan requests, fairness | pass | `CompressorFollowsMode`, `RefusedOnlyForRest`, `WantIsServed`, `FanStops` |
| `faults` | gpio_hvac; crashes of both, or a meddling client; fairness | pass | `RunsTheWantedWay`, `PlanCompletes`, refinements `ImplementsTstat`, `ImplementsGpio` |
| `nbp_starved` | nbp, commands that take two ticks, fairness | violation | `StraightToCompressor` (finding 3) |
| `nbp` | FETs with and without a wire, resets, failing writes; or two frames, one faulty byte, reads of any size | pass | `TypeOK`, `BeliefMatchesBackplate`, `SubscriberKnowsFets`, `RestBeforeConnect`; `NothingMadeUp`, `NoFrameLost`, `CleanLineDelivers`, `LoopEnds` |
| `sensors` | `bme280` or `htu21d`; failing bus, subscribers, fairness | pass | `TypeOK`, `NeverEarly`, `SubscriberKnowsReading`, `OnlyFreshReadings`; `MeasurementsFinish`, `KeepsReporting` |
| `library` | requests, replies, messages of every type, configurations | pass | `SentMeansWhatIsAsked`, `ShownIsReplied`, `RemctlTellsTruth`, `RoundTrip`, `ClientsReachServers` |
| `strtobool` | the same | violation | `NumbersAreTrue` (finding 4) |
| `wallknob` | two turns or menus, one other request, fairness | pass | `TypeOK`, `ReadsOwnWrites`, `ScreenSettles`, `AdjustmentEnds` |

Where one run checks two programs that share nothing (`nbp`, `sensors`, `library`), a behaviour is
of one or the other, and the rest of the variables stand still. Every property of a passing run has a
mutant in `PROJECT.json`: a plausible bug in one definition under which TLC finds that property
violated.

### Bounds
* `Forever`, the saturation of ages, is at least every delay an age is compared with, so no
  comparison is lost. Delays are a few ticks, ordered as in the code (tolerance, retry, fan before,
  fan after, lockout), so each comparison falls on both sides and ties occur. In `faults` the
  fan's time before is 0: ties of the fan's and the compressor's timers are what that leaves out,
  and `tstat` and `house` have them.
* `Batches` (`gpio`, `nbp`): every single command, and pairs in which one command meets the guard
  or undoes the effect of the other. One client suffices there, for a client may die and come back
  while its old request is carried out. The proofs have no such bound, and cover every other set of
  wires, two heat stages included.
* `CliBatches` (`faults`): the second client turns the compressor off, which is what the thermostat
  cannot notice. In a behaviour of that run there are either crashes or a second client.
* `MaxLag`: ticks the code runs between two clock readings, except while it waits for a lost
  reply. It is 1, and 2 in `nbp_starved`, where that is what goes wrong. For `Htu21d` it is a real
  assumption: with
  `MaxLag` = 2 a measurement can be read before it is ready, for the deadline is counted from a
  clock reading older than the command and a subscriber may wake the loop at the wrong moment; what
  is needed is `TempTime + MaxLag <= TempDelay + 1`. `RunsTheWantedWay` needs a lockout longer
  than `MaxLag`, which its theorem assumes (`WayAssumption`): the controller's begins when the
  command arrives, the thermostat's at `ts_now`.
* `MaxReports`: reports of the backplate on their way; 2 in `nbp`, so that it resets again before
  the first is read.
* `MaxFrames` = 2, `MaxFaults` = 1 and `Noise` (`nbp`): one message without data and one whose
  data begin like a header, in any order; the byte that goes wrong may become the first of a header
  or a 1, which among other things makes a length wrong. Two frames are enough for a broken one to
  hide the next. The proofs have none of these bounds.
* `NsPerMs` = 2, `MsPerSec` = 2 (`sensors`): every residue and every carry; the clock starts at any
  fraction of a second and stops at `MaxSec`. `MaxOps`: accesses in one call of the driver. The proofs
  have none of these bounds.
* `Narrow` = 5, `Wide` = 7 bits (`library`, `strtobool`): an `int`, and a `long` that is wider, with
  numbers at and past both ends of each, an integer that an `int` cuts to 0, reals whose whole part is
0, and words with blanks, a plus, a second minus or a point; `FltMax` likewise, in halves. A string is a sequence of pieces, single
  characters and whole words, so that prefixes and leftovers exist. `Json` is the requests and all
  values in them. `Sayings`: goals, and messages of a type with a field of every other type and label, each
  at its extremes or absent. `Results`: up to three commands. The proofs have none of these bounds.
  The configurations are the README's and its variations: every choice and order of two endpoints of
  four kinds, with or without a node in each file, on one node or two.
* `MaxTurns` = 2 and `MaxOthers` = 1 (`wallknob`): turns of the knob and openings of the menu, and
  requests of another client. `MaxPast` = 1: lines a menu is scrolled past its ends, for nothing in
  the code stops it there. The proofs are for every value of the three.
* The frames, the clock, the turns and the programs of the command line come to an end in these
  instances, hence `CHECK_DEADLOCK FALSE` in `nbp`, `sensors`, `wallknob` and the library's two.
  Elsewhere deadlock is checked.

### Refusals and the fan in a house
`RefusedOnlyForRest` and `FanStops` say together that no interlock keeps the thermostat from its plan.
The first is about each refusal: the wire was to be turned on, its rest is not over, and it goes on.
The second is about three ways a fan comes to be stopped: it is due to stop after the last want, it is
asked to be automatic again, or it was started for a compressor whose want went away (`FanIsToStop`).

### Fairness
* `House`, `NbpSystem`: weak fairness of each process's own steps and of time. They are loops on a
  running machine whose only waits are for each other and for the clock. Strong fairness of
  `Report`: nbp reads the serial line in every pass of its loop, whatever else it has to do. Nothing
  is assumed of messages: a weather report or a request may never come.
* `MCHvacFaults!FairFaults`: the same for gpio_hvac, and strong fairness of taking the thermostat's
  request, for a REP socket takes the requests of its peers in turn. Nobody owes a crash, but who
  has crashed comes back.
* `Wallknob!FairSpec`: weak fairness of the thermostat and of each thread. `MakeAdjustments` is
  among the main thread's steps, for its wait ends by a timeout, `ADJUSTMENT_DELAY_SECS` after the
  last turn: the assumption is that the user leaves the knob alone that long now and then. Nobody has to turn it.
* `Htu21d!Spec`: weak fairness of the process and of time. The bus owes nothing; `KeepsReporting`
  is about behaviours in which it works for good in the end.
* `NbpFrame!Spec`: weak fairness of the loop's passes, which wait for nothing. Nobody has to send.
* `Bme280` states safety only: a driver that never gets its access waits, rightly, for ever.

### Findings
1. `gpio_hvac.c:240` means to set all wires "to known and sane states". Without a compressor line
   the state of Y1 stays unknown, the guard at line 135 takes that for running, and the fan can
   never be turned off. For W2 (line 141) the line is tested first.
2. `tstat.c:120`: "Fan hasn't turned on yet, just cancel it". It may be on, from `fan_always_on`
   that was cleared while heat or cold was wanted, and then nobody turns it off.
3. `tstat.c:158`: "go straight to compressor". With nbp the start may never come: the thermostat's
   lockout ends before the rest of the valve's FET, which began some commands later; each start that
   fails halfway is undone, and undoing it begins the rest of the one FET that would have been ready
   (lines 351-354). The compressor is switched on for a moment, with a wrong valve, every time.
4. `util.c:103`: "Any number other than "0" is intentionally considered true, including 0x0". Words
   are looked for before numbers, and the word `0` begins `0x0`, `00` and `010`.

### What the code does not keep
Met while modelling; no document claims otherwise, so there are no runs for them.

* A controller that restarts has all lines low while the thermostat, in mode cool with no timer set,
  believes the compressor runs, and goes on believing it until the want ends. A thermostat that
  restarts has forgotten a compressor or fan that runs, and does not stop it before it has wanted
  it again. `faults` says what remains: nothing runs the wrong way, and what was planned is carried
  out or given up.
* A reply that is lost leaves the thermostat waiting for ever.
* With nbp a wrong valve is let through until the thermostat undoes it, and a backplate that resets
  between the valve's and the compressor's command would leave it so: `NbpSystem` therefore has
  no resets but nbp's own at its start, and `CompressorFollowsMode` makes an exception of those two
  places of the thread.
* nbp, after a reset of the backplate: until the report is read, and for good when the disconnection
  it then writes fails (`nest.c:90-96`, `:160`), a FET is held to be on that is open, and a command
  connects it at once, without a rest. `RestBeforeConnect` and `BeliefMatchesBackplate` make an
  exception of exactly that FET (`OpenUnknown`, `unsent`): they say that no other is affected. In a
  house with no resets there is no such FET, and `HouseRests` is without the exception.
* `WantIsServed` is, with nbp, about starts that begin with the fan; the others are finding 3.
* `wallknob`: if the knob is turned while the first event is half read (after `goal_low->active`,
  before `goal_low->cur`), the low goal is adjusted from 0, and that is sent.
* `wallknob`: if another client changes the goals between wallknob's reply and its main thread's
  write of it, the older goals are kept until the next event. `ReadsOwnWrites` therefore speaks of
  goals held since the adjustment.
* `wallknob`: units chosen before the first weather report show the temperature 0, and before the
  first goals an uninitialised buffer; a negative temperature is printed as an unsigned number; a
  turn of the goal is cut to hundredths, not rounded; a menu scrolls past its ends, where a choice
  does nothing.
* `htu21d.c:68` and `:106`: the reading is put together from a `char buf[2]`. Where `char` is signed
  the cast of `buf[0]` to unsigned carries its sign along, and readings of 41.01 °C or 56.5 % and
  more (a first byte of 0x80 or more) come out as nonsense; where it is unsigned, as on ARM, they
  are right. The readings' arithmetic is not modelled.
* `nest.c:235`: a false length makes the parser wait for as many bytes, 64 KiB at most, before it looks
  for the next frame; `NoFrameLost` says that the frames behind it are found, not that they are found
  soon. And where a message's data hold a whole frame of their own, that is handed over when the outer
  one is broken: `NothingMadeUp` is about messages that hold none.
* `nest.c:111`: a power report is taken apart without a look at its length. Which bytes it would
  read is not in the model.
* `json.c`: repeated booleans are printed from the wrong place from the third on (line 546:
  `sizeof(bool)` for a type of four bytes), hence the bound in `ShownIsReplied`. A float that is
  not above zero, and a negative real for an enumeration, are refused (284, 368); a real
  becomes a boolean by its whole part, so 0.5 is false, and an integer is first cut to an `int`, so
  2^32 is false and is sent so (line 314, for which `util.c:103` holds only of words); a real beyond
  an `unsigned long long` is converted to an integer all the same, which C does not define
  (`JsonAssumption` leaves it out); `strtoull` takes a minus sign of its own after blanks or after
  the one the code has taken off, and wraps, so " -18446744073709551611" is 5 (line 175); a `uint64` past the middle comes out negative; a required
  field that is missing gets its default, without an error; one that is given several values keeps the
  last (78); an array in the place of the message is an empty message, without an error. An empty
  string is false.
* `fabdcfg.c`: what a server's own file says of its servers or its node, clients on other
  processes do not see; an explicit address without `*` in `bind` is only used from the same node,
  and `localhost` in `connect` from any node; a client without an endpoint dies.
  `ClientsReachServers` is about configurations that are truthful in this sense.

## 4. Proofs

Eight modules hold proofs; TLC checks the properties of the runs on the small instances first. Modules of
components are proved about with their constants free. A module that composes components assumes of
its constants what each of them does (`PartsAssumption` of `HvacSystem` and of `House`, the latter with
`NbpSystemAssumption`); TLC evaluates these assumptions in `faults` and `house`, and each part's
in its own run.

### GpioHvacProof
For every value of the constants that meets `GpioAssumption`:

| Theorem | Statement |
|---|---|
| `TypeCorrect` | `Spec => []TypeOK` |
| `FanSafety` | `Spec => []FanRunsWithHeat` |
| `AckSafety` | `Spec => []AckedCommandsHold` |
| `SubscriberSafety` | `Spec => []SubscriberKnowsLines` |
| `Refinement` | `Spec => KeepsRelaysSafe`, that is, `RelaySafety` with `alive <- phase # "down"` |

None of the properties is inductive. The strengthening `Inv` ties what the process
believes to the equipment: `LinesKnown` (a `value` that is not unknown is the line's level and the
wire has a line; while the process runs, a wire whose value is unknown is low, because `Start`
requests the lines low), `AgesCover` (`age` is at most `since`, so a lockout that has passed by the
process's reckoning has passed in truth, and equal to it while the source is on, which is what the
tolerance of the valve needs) and `FanRunsWithHeat` itself. `ToldInv` adds what it told others.
Lemma `SafeCommand` reduces a command of `control_wire_safe`, whatever it calls, to one `Set` of
some wires to one level, and names what was checked before; `CheckedSetKeepsInv` and
`CheckedSetIsRelay` then need nothing of its cases. The step proofs have one step per action.
`ShutoffDelay <= Forever` and `Tolerance < Forever` only say that the saturation
loses no comparison; `"none"` is not a client.

### TstatProof
`TstatTypes`, `TimersAreOnePlan` (`[]TimersMatchMode`), `NoTimerIsSleptPast` (`[]NoLostWakeup`) and
`CompressorWaitsForFan` (`[]CompressorNeedsFan`), for all delays, temperatures and goals, contradictory
ones included, and any controller. What the code at a place relies on was established at an
earlier one, so the invariant has a part for each reliance: `Places` (which timers are set where),
`Coverage` (in one pass, the timers dealt with so far are covered by the timeout, or by a retry),
`FanKnown` (once the fan was turned on for a compressor, and until it is turned off after it, its
last confirmed level is on).

### NbpProof
About the FETs: `NbpTypes`, `BeliefSafety`, `SubscriberSafety` and `RestSafety`
(`RestBeforeConnect`), for any set of FETs, rest, requests, and a backplate that resets at will. A
FET is only told anything by `Control`, which notes what it told, so belief and truth part only by a
reset, which opens the FET (`Believed`), and the time nbp counts is never more than the FET has
rested (`Rested`). The rest is the FET's own (`rest`), not what nbp counts (`age`); the one exception
is a FET that nbp holds to be on while it cannot know that the backplate has opened it (`OpenUnknown`).

About the serial line: `FramesAreFound` (`[]NoFrameLost`), `FramesArrive` (`[]CleanLineDelivers`) and
`NothingIsMadeUp` (`[]NothingMadeUp`), for any checksum, messages, noise and number of frames and
faults. `FrameAssumption` is
the widths of C: bytes of eight bits; a type, a length and a checksum of sixteen. The invariant
`FrameInv` has a part for each promise of `nbp_read`:

* `Buffered`: the buffer is the rest of the stream, and there is room for it. That the doublings
  of `bytes_extend_buf` end in time is lemma `RoomIsMade`; it needs `Waiting`, by which the buffer holds
  less than one whole frame, which is 64 KiB and 8 bytes at most, when a read makes room.
* `Passed`: every byte dealt with lies within a frame that was found, or no frame begins there and
  none will when more comes in (lemma `NoFrameMoves`), for a place is only given up when its header or
  checksum is wrong and all bytes that were needed to say so are in.
* `InStep`: while the line had no faults, what was read and what is on its way is one frame after the
  other, and nbp is at the beginning of one. Lemma `EncodedFrame` says that a frame is read as what it was
  made from, `SameFrame` that this depends on its bytes alone, wherever they are.

`NothingIsMadeUp` has a hypothesis, for a faulty frame may well pass under some checksum, and that it
does not under the code's is a fact about `crc16ccitt` and the messages: in every stream that the line
may carry (`Carries`), the frames that stand whole anywhere are some of those that were sent, in
their order (`Tells`). That says nothing of nbp. The theorem is that the parser adds nothing to it:
what `nbp_read` finds stands whole in the stream, each at a place of its own and in the stream's order
(`FoundWhole`, by `IntactMoves`), whatever was thrown away or waited for in between. With the code's
checksum, and the messages and noise of `nbp`, TLC evaluates the hypothesis over all streams of up to
two frames (`ChecksumTells` in `MCNbp`).

`ChangedByteIsRejected` is about that checksum: a frame of any message in which one byte of its header,
type, data or checksum is changed is rejected wherever it stands. The hypothesis `TableTells` is about
the 256 entries of the table, and TLC evaluates it: their low bytes are all different. Then the step
of a byte can be undone (`StepTells`): from two checksums, or two bytes, that differ it goes on to two
that differ, and that carries over from one place to the next up to the end (`ByteByByte`, by
`UpToHold`, which is well-founded induction over a set of places). The exclusive or is an exclusive
or of halves of halves down to one bit, and so are the lemmas on it (`OneBit` to `TwoBytes`). A
changed length is left out: then the frame ends elsewhere.

`PassesComeToAnEnd`: `nbp_read` does not spin. Every pass of its loop ends it, or leaves less in the
buffer. It is the safety half of `LoopEnds`; that the passes are taken is fairness.

### HvacSystemProof
`SystemImplementsGpio` and `SystemImplementsTstat`: the two refinements of `HvacSystem`, with crashes
and the other client, so that every theorem about either part holds of the system. The first needs
that the thread asks only when nothing is under way (`OneExchange`); the second, that each request of
one command gets one result, of which `hvac_control_wire` reads the first (`OneCommand`, through
the controller's loop). `SystemAssumption`: the thermostat's single commands, and the other
client's, are among the requests the controller may meet.

With the theorems about the parts, each stated of an instance of its proof module, they yield what
holds of the system, whoever crashes and whatever the other client asks:

| Theorem | Statement | From |
|---|---|---|
| `SystemKeepsRelaysSafe` | `Spec => G!KeepsRelaysSafe`: the equipment's rest, fan and valve | `GpioHvacProof!Refinement` |
| `SystemRelaysAreKnown` | fan with heat, truthful replies, subscribers that know the lines | `FanSafety`, `AckSafety`, `SubscriberSafety` |
| `SystemKeepsPlan` | one plan at a time, no timer slept past, no compressor without a confirmed fan | `TstatProof` |

`WaySafety`: `Spec => []RunsTheWantedWay`, through crashes of either process, and with another client.
`Told` and `Way` state what the thread may conclude from an answer at the place where it waits for it.
What makes it hard is a controller that restarts, all lines low, while the thread holds a `yes` about
the valve: `Way` says that the compressor's lockout after the restart has not passed yet, because the
thread reads its clock again within `MaxLag`. A thermostat that restarts may find an answer to a
request of its earlier life under way; by `Young` it has planned nothing by then. `WayAssumption`:
lines do not fail, the lockout is longer than `MaxLag`, and the other client leaves the valve alone and
starts no compressor.

### HouseProof
`CompressorSafety`: `FairSpec => []CompressorFollowsMode`, for both controllers and all delays, goals
and temperatures. What the thermostat knows of the equipment is mostly in its place, not in its
variables: while it waits, its one command is on its way, being carried out, or answered
(`Exchanges`), and what the answer says of the lines is `Told`. `Plan` ties timers to mode and place,
`Safe` says that a running compressor is one the thread has started and is neither stopping nor turning
the valve of, `GpioKnows` and `NbpKnows` what each controller may rely on, `Early` that one which has not
begun has answered nothing. Lemma `Executed` needs of a command only what both controllers promise of
the compressor and the valve; that nbp runs the same thermostat is lemma `SameThread`.

`RefusalSafety`: `FairSpec => RefusedOnlyForRest`, where the fan has a line (`FanHasLine`; without
one gpio_hvac refuses every command of the fan). It is an action property: in the step that refuses,
the command asks to turn a wire on, the age the controller keeps for that wire is below the lockout,
and the step does not set it back (`RestsStill`). For gpio_hvac it is the same invariant: the fan is
told off, and the valve turned, only at places where `Plan` and `Safe` leave no compressor on, and a
place's name is what the thread asked there (`Asked`), so what is left to refuse is the compressor's
lockout (`GpioRefuses`). nbp refuses nothing but what is to be turned on before its rest is over
(`NbpRefuses`). That a lockout ends is then a matter of time passing, and `WantIsServed` checks it.

What holds of the parts holds in a house. It is one of two systems for good (`HouseIsOneOfTwo`), and
`NestRefines` is for nbp what the refinements of `HvacSystem` are for gpio_hvac: `NbpSystem`
implements both `NbpFet!Spec` and `Tstat!Spec`. Its invariant `NestInv` is that of one exchange and
one command: nbp takes what the thread sent, and leaves one result. Thence:

| Theorem | Statement |
|---|---|
| `HouseKeepsPlan` | the thermostat's three invariants (`TimersMatchMode`, `NoLostWakeup`, `CompressorNeedsFan`), with either controller |
| `HouseKeepsRelaysSafe` | with gpio_hvac, `KeepsRelaysSafe` |
| `HouseRests` | with nbp, no FET is connected before its rest is over, without the exception of `RestBeforeConnect`, for no backplate resets here; and `BeliefMatchesBackplate` for good |

`HouseAssumption`: the equipment has a compressor and a valve and does what it is told, and the
thermostat's lockout is not zero.

### SensorsProof
The time arithmetic: for every length of a millisecond and of a second (`TimespecAssumption`: both
are positive), the functions compute with normal timespecs as with the numbers they stand for:

| Theorem | Statement |
|---|---|
| `CmpIsOrder`, `PassedIsOver` | `timespec_cmp` and `timespec_passed` are the order of the numbers |
| `AddIsSum`, `AddMsIsSum`, `AddNsIsSum` | the sums are sums, and normal again |
| `TimeoutNeverLate` | the timeout is never negative, never ends after the timer, and less than a millisecond before it |
| `TimeoutIsSoonest` | the timeout carried from timer to timer is the soonest |

They justify the other modules, which count time in numbers. The products of constants are beyond
what the solver does alone; lemmas `Division` and `Order` bring each back to linear steps.

`Bme280`: `WaitsAreWhole` (`[]NeverEarly`), `TypeCorrect`,
`SubscriberSafety`, `FreshReadings`. The strengthening is `Counted` (the deadline of a wait is its
beginning plus what it owes, and the device is heeded only without a deadline) and `Fresh` (what is
awaited or read was begun in this poll). The only step that is not bookkeeping is the one that
leaves `my_loop`, where `PassedIsOver` turns the comparison of timespecs into elapsed time.

`Htu21d`: `MeasurementsAreLeft` (`MeasurementsFinish`), for all delays and times that meet `InTime`:
they give the sensor the time it takes, up to `MaxLag` (see Bounds). The deadline is kept relative to a
clock reading that is older than the command; `HtuAwaited` says that while the sensor measures, the
deadline is not over before it is ready, and that between a command and its reading none is begun.

### WallknobProof
`TypeSafety`, `ReadsItsWrites` (`[]ReadsOwnWrites`) and `ScreenIsRight` (`[]ScreenSettles`), for all
goals, turns, temperatures and requests of the other client. The two threads write the goals without a
lock, and what saves the result is order (`News`): the last event on its way, or the part of it not
stored yet, is of goals held since wallknob's last request, and so is the reply, so whichever thread
writes a goal last writes one of those. `Activated` says when a goal may be read at all, `Undrawn`
that a thread that leaves something undrawn has written to a pipe, or the other will draw it.

### LibraryProof
JSON, for all widths, schemas and names of enumerations (`FabdJsonAssumption`: the widths are those of
C integers, no enumeration's name is a numeral, messages nest at most once):

| Theorem | Statement |
|---|---|
| `HexRoundTrip` | `hex2bin` reads what `bin2hex` prints, for every sequence of bytes |
| `ValueRoundTrip` | every sayable value of every type is read back as it was printed |
| `MessageRoundTrip` | so is a whole message that is `SayableMessage` |
| `MessagesComeBack` | `SayingSpec => []RoundTrip`, for all `Sayings` that meet `SayingsAssumption` |

`SayableMessage` leaves out what the code does not print or read back (see above): numbers past
the signed ones, floats not above zero, arrays of booleans. `SayingsAssumption` is that the messages
are of the schema's types and sayable; TLC confirms it of those of `library`.

The command line: `RequestIsUnderstood` (`CliSpec => []SentMeansWhatIsAsked`), `ReplyIsShown`
(`[]ShownIsReplied`) and `TruthOfRemctl` (`[]RemctlTellsTruth`), for all JSON, replies and fields of
commands and goals, up to the two exceptions its comment names (an integer beyond an `int` given for
a boolean, a minus sign that wraps). `JsonAssumption` is what a JSON value is and the range of its
numbers, `FabdCliAssumption` the messages of
`freeabode.proto`: a request and a reply are what they are there, commands and goals may have any plain
fields. For the first, `Understood` shows for each type that a value which is accepted means what was
said (`IntegerUnderstood`, `RealUnderstood`, `NameUnderstood`, `BytesUnderstood`, and
`BoolUnderstood`, word by word through `WordsMean` and with `CutToZero` for the cut of an `int`); `ArrayAssigned` and `LastAssigned` that an array
becomes a list of as many values in its order, or the last of them; `SaysWhatIsGiven` that a message
then says what the object says.

These go along an array: `AssignElements` and `NotNull` are recursive functions, which `Unfolded` and
`NotNullUnfolded` show to exist, and what holds of the first element and of the next with each holds
of all (`UpToHold`). The library's induction theorems take an operator as a parameter; `UpToHold` takes
a set, and follows from the least counterexample, which there is because numbers are well-founded
(`Least`).

The configuration: `ServersAreReached` (`CfgSpec => []ClientsReachServers`), for all files, devices and
endpoints that meet `FabdcfgAssumption`. The client looks things up from its own process, and
`SameFound` and `SameServer` say when it finds what the server has found. `Places` and `Leads` say
where an endpoint leads that was chosen from the server's list, and `HasEndpoint` that there is one.
`CfgInv` adds that a server which is up is bound to its whole list, and that connections are made only
after the heartbeat is set.

### Only model-checked
All liveness, for fairness and ENABLED are outside what the prover handles: `WantIsServed`, `FanStops`,
`PlanCompletes`, `LoopEnds`, `KeepsReporting`, `AdjustmentEnds`. Every other property of a
passing run is stated by a theorem. Of `NothingMadeUp`, what it takes of the checksum (`Tells`):
that one changed byte is noticed is proved, but not that a lost byte, one put in or a changed length
is. Under such a fault the frame ends elsewhere, and whether its checksum can hold depends on what
else is in the stream: that is a fact about these messages and this noise, not about every one. The
recursion of `control_wire_safe` is at most one level deep and is unfolded in the
model; there is no recursive operator. What a refused request says is not in any property: only that
it is not sent.

## 5. Not modelled
* Security (`security.c`): one request and one answer for each connection, with the cryptography in
  ZeroMQ. Logging and names: output only.
* nbp's weather, power and periodic messages: numbers handed on, no other state.
* The sensors' arithmetic and the snapshot of `htu21d`; the setting up of the `bme280`, whose driver is
  absent from the repository.
* `wallknob`: the clock, the humidity, the windows of wires and charging, and drawing itself.
* JSON: the type `string`, which no message has; a repeated boolean in what is read; failures
  of `malloc`.
* Configuration: the look-ups of a number or a boolean, which change nothing; reading the files.
* The byte buffer beyond what the serial framing uses of it.

## 6. Plan
1. Liveness of `faults` with nbp, once its restarts are in `NbpSystem` (with what has to be given up
   about the valve).
2. Proofs: `Tells` of all streams whose only faults are changed bytes outside the lengths, for all
   messages and noise that hold no part of a frame, from `ChangedByteIsRejected`.
3. `wallknob`'s remaining windows, and the sensors' arithmetic with its widths.
