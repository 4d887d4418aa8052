------------------------------ MODULE GpioHvac ------------------------------
(***************************************************************************)
(* gpio_hvac: the process that owns the GPIO lines of the HVAC relays.  It *)
(* takes wire commands from any number of clients on a REP socket, lets    *)
(* them through a safety check (control_wire_safe), drives the lines, and  *)
(* publishes every change to its subscribers on an XPUB socket.            *)
(*                                                                         *)
(* Time is relative: the code only ever compares the clock with            *)
(* last_changed plus a constant, so the model keeps the age of             *)
(* last_changed in ticks, saturating at Forever.                           *)
(***************************************************************************)
EXTENDS HvacWires

CONSTANTS ShutoffDelay,   \* ts_shutoff_delay, in ticks
          Tolerance,      \* ts_reversing_delay_tolerance, in ticks
          Forever,        \* the age at which time since a change saturates
          Wired,          \* the wires whose GPIO line is configured
          Clients,        \* the processes that hold a REQ socket to it
          Batches,        \* bound: the requests clients send, lists of commands
          GpioFails       \* whether gpiod_line_set_value may fail

ASSUME GpioAssumption ==
    /\ ShutoffDelay \in Nat
    /\ Tolerance \in Nat
    /\ Forever \in Nat
    /\ ShutoffDelay <= Forever
    /\ Tolerance < Forever
    /\ Wired \subseteq Wires
    /\ "none" \notin Clients
    /\ Batches \subseteq Seq(Command)
    /\ GpioFails \in BOOLEAN

None == "none"

VARIABLES line,     \* the level of every relay line
          since,    \* history: ticks since a heat source's line last switched
          value,    \* gpio[w].value
          age,      \* ticks since gpio[w].last_changed, where it is used
          phase,    \* "down", "starting" (main before its loop) or "serving"
          batch,    \* the commands being carried out
          done,     \* the results so far, in order
          serving,  \* the client whose request is being handled
          ctl,      \* [Clients -> the state of its REQ/REP exchange]
          sub,      \* a subscriber: "none", "pending" (its subscription
                    \* is queued at the XPUB socket) or "served"
          told      \* what it was told since, once its queue is drained

gpioVars == <<line, since, value, age, phase, batch, done, serving,
              ctl, sub, told>>

StartupBatch == << [wire |-> "W2", connect |-> "off"],
                   [wire |-> "Y1", connect |-> "off"],
                   [wire |-> "OB", connect |-> "off"],
                   [wire |-> "G",  connect |-> "off"] >>
----------------------------------------------------------------------------
(* The safety check and the lines.                                         *)

Older(t) == IF t < Forever THEN t + 1 ELSE Forever

\* The history variable after the lines took the levels `new'.
Switched(new) ==
    [w \in HeatSources |-> IF new[w] = line[w] THEN since[w] ELSE 0]

AllLow == [w \in Wires |-> "off"]

\* The lines `ws' were set to `level' and the command answered with `ok': the
\* assignments of control_wire_unsafe, for the command's own wire and for the
\* one the safety check drives on its own account.
Set(ws, level, ok) ==
    LET new == [w \in Wires |-> IF w \in ws THEN level ELSE line[w]] IN
    /\ line' = new
    /\ since' = Switched(new)
    /\ value' = [w \in Wires |-> IF w \in ws THEN level ELSE value[w]]
    /\ age' = [w \in HeatSources |->
                 IF w \in ws /\ value[w] # level THEN 0 ELSE age[w]]
    /\ told' = [w \in Wires |->
                 IF w \in ws /\ sub # "none" /\ phase = "serving"
                 THEN level ELSE told[w]]
    /\ done' = Append(done, ok)

Refuse == Set({}, "off", FALSE)

\* Mutant of Drive: the result of gpiod_line_set_value is not looked at.
DriveUnchecked(w, level) ==
    \/ w \in Wired /\ Set({w}, level, TRUE)
    \/ w \notin Wired /\ Refuse
    \/ GpioFails /\ Set({}, level, TRUE)

\* control_wire_unsafe on one wire.
Drive(w, level) ==
    \/ w \in Wired /\ Set({w}, level, TRUE)
    \/ (w \notin Wired \/ GpioFails) /\ Refuse

\* Mutants of LockedOut: one tick short, one tick long.
LockedOutShort(w) == age[w] + 1 < ShutoffDelay
LockedOutLong(w) == age[w] <= ShutoffDelay

LockedOut(w) == age[w] < ShutoffDelay

\* case Y1 and W2: a lockout after the last change, then the fan first.
ControlHeat(w, level) ==
    LET starting == level = "on" /\ value[w] # "on"
        fanFirst == "G" \in Wired /\ value["G"] # "on"
    IN \/ starting /\ LockedOut(w) /\ Refuse
       \/ starting /\ ~LockedOut(w) /\ fanFirst
             /\ \/ w \in Wired /\ Set({"G", w}, "on", TRUE)
                \/ (w \notin Wired \/ GpioFails) /\ Set({"G"}, "on", FALSE)
                \/ GpioFails /\ Refuse
       \/ ~(starting /\ (LockedOut(w) \/ fanFirst)) /\ Drive(w, level)

\* case OB: past the tolerance a turn is refused and stops the compressor.
ControlReversing(level) ==
    LET late == /\ value["Y1"] # "off"
                /\ level # value["OB"]
                /\ age["Y1"] > Tolerance
    IN \/ ~late /\ Drive("OB", level)
       \/ late /\ "Y1" \in Wired /\ Set({"Y1"}, "off", FALSE)
       \/ late /\ ("Y1" \notin Wired \/ GpioFails) /\ Refuse

\* Mutants of HeatMayRun: never; a second stage where there is none; and still
\* for as long as the compressor rests.
HeatMayRunNever == FALSE
HeatMayRunW2 == value["W2"] # "off"
HeatMayRunOrRests == value["Y1"] # "off" \/ LockedOut("Y1")

\* A heat source is not known to be off.
HeatMayRun ==
    \/ value["Y1"] # "off"
    \/ "W2" \in Wired /\ value["W2"] # "off"

\* case G: the fan is held while a heat source may run.
ControlFan(level) ==
    \/ level = "off" /\ HeatMayRun /\ Refuse
    \/ ~(level = "off" /\ HeatMayRun) /\ Drive("G", level)

ControlWireSafe(cmd) ==
    \/ cmd.wire \in HeatSources /\ ControlHeat(cmd.wire, cmd.connect)
    \/ cmd.wire = "OB" /\ ControlReversing(cmd.connect)
    \/ cmd.wire = "G" /\ ControlFan(cmd.connect)
    \/ cmd.wire = "other" /\ Refuse
----------------------------------------------------------------------------
(* The process.                                                            *)

\* Mutant of EndBatch: the results are kept for the next request.
EndBatchKeepsResults == batch' = <<>> /\ UNCHANGED done

EndBatch == batch' = <<>> /\ done' = <<>>

Start ==
    /\ phase = "down"
    /\ phase' = "starting"
    /\ line' = AllLow
    /\ since' = Switched(AllLow)
    /\ value' = [w \in Wires |-> "unknown"]
    /\ age' = [w \in HeatSources |-> 0]
    /\ batch' = StartupBatch
    /\ done' = <<>>
    /\ UNCHANGED <<serving, ctl, sub, told>>

\* The next command of the batch, at startup or for a client.
ControlWire ==
    /\ phase # "down"
    /\ Len(done) < Len(batch)
    /\ ControlWireSafe(batch[Len(done) + 1])
    /\ UNCHANGED <<phase, batch, serving, ctl, sub>>

\* The sockets are bound and the loop begins.
Serve ==
    /\ phase = "starting"
    /\ Len(done) = Len(batch)
    /\ phase' = "serving"
    /\ EndBatch
    /\ UNCHANGED <<line, since, value, age, serving, ctl, sub, told>>

Polling == phase = "serving" /\ serving = None

HandleReq(c) ==
    /\ Polling
    /\ ctl[c].st = "sent"
    /\ serving' = c
    /\ batch' = ctl[c].cmds
    /\ done' = <<>>
    /\ ctl' = [ctl EXCEPT ![c] = Taken]
    /\ UNCHANGED <<line, since, value, age, phase, sub, told>>

\* Mutant of Reply: the first result is left out.
ReplyShort == Replied(Tail(done))

Reply == Replied(done)

\* The reply goes to the client that sent the request, if it is still there.
SendReply ==
    /\ serving # None
    /\ Len(done) = Len(batch)
    /\ ctl' = [ctl EXCEPT ![serving] = IF @.st = "taken" THEN Reply ELSE @]
    /\ serving' = None
    /\ EndBatch
    /\ UNCHANGED <<line, since, value, age, phase, sub, told>>

\* Mutant of Snapshot: a state that is not known, a non-zero value of the
\* enumeration, is reported as on.
SnapshotUnknownOn(w) == IF value[w] = "unknown" THEN "on" ELSE value[w]

\* The snapshot leaves out the wires whose state is not known.
Snapshot(w) == IF value[w] = "unknown" THEN told[w] ELSE value[w]

GotNewSubscriber ==
    /\ Polling
    /\ sub = "pending"
    /\ sub' = "served"
    /\ told' = [w \in Wires |-> Snapshot(w)]
    /\ UNCHANGED <<line, since, value, age, phase, batch, done, serving, ctl>>

\* The process dies anywhere.  The request it was handling is never answered,
\* and one that is on its way, or a reply, may be lost with the connection.
Crash ==
    /\ phase # "down"
    /\ phase' = "down"
    /\ \E kept \in SUBSET {w \in Wires : line[w] = "on"} :
          LET new == [w \in Wires |-> IF w \in kept THEN "on" ELSE "off"]
          IN line' = new /\ since' = Switched(new)
    /\ \E lost \in SUBSET Clients :
          /\ serving # None /\ ctl[serving].st = "taken" => serving \in lost
          /\ \A c \in lost : ctl[c].st # "idle"
          /\ ctl' = [c \in Clients |-> IF c \in lost THEN Lost ELSE ctl[c]]
    /\ serving' = None
    /\ EndBatch
    /\ value' = [w \in Wires |-> "unknown"]
    /\ age' = [w \in HeatSources |-> 0]
    /\ sub' = "none"
    /\ told' = [w \in Wires |-> "unknown"]
----------------------------------------------------------------------------
(* The environment: clients, a subscriber and time.                        *)

\* A client sends a request when no other is under way; it may have just read
\* the reply to the last one.
SendRequest(c, cmds) ==
    /\ ctl[c].st \in {"idle", "replied"}
    /\ ctl' = [ctl EXCEPT ![c] = Sent(cmds)]

ReceiveReply(c) ==
    /\ ctl[c].st = "replied"
    /\ ctl' = [ctl EXCEPT ![c] = Idle]

\* A client that dies drops its socket and whatever was under way on it.
ClientRestart(c) ==
    /\ ctl[c].st # "idle"
    /\ ctl' = [ctl EXCEPT ![c] = Idle]

Client(c) ==
    /\ \/ \E cmds \in Batches : SendRequest(c, cmds)
       \/ ReceiveReply(c)
       \/ ClientRestart(c)
    /\ UNCHANGED <<line, since, value, age, phase, batch, done, serving, sub, told>>

Subscribe ==
    /\ phase = "serving"
    /\ sub = "none"
    /\ sub' = "pending"
    /\ UNCHANGED <<line, since, value, age, phase, batch, done, serving, ctl, told>>

Tick ==
    /\ since' = [w \in HeatSources |-> Older(since[w])]
    /\ age' = [w \in HeatSources |-> Older(age[w])]
    /\ UNCHANGED <<line, value, phase, batch, done, serving, ctl, sub, told>>
----------------------------------------------------------------------------
Init ==
    /\ line = AllLow
    /\ since = [w \in HeatSources |-> 0]
    /\ value = [w \in Wires |-> "unknown"]
    /\ age = [w \in HeatSources |-> 0]
    /\ phase = "down"
    /\ batch = <<>>
    /\ done = <<>>
    /\ serving = None
    /\ ctl = [c \in Clients |-> Idle]
    /\ sub = "none"
    /\ told = [w \in Wires |-> "unknown"]

Server ==
    \/ Start
    \/ ControlWire
    \/ Serve
    \/ \E c \in Clients : HandleReq(c)
    \/ SendReply
    \/ GotNewSubscriber

Next ==
    \/ Server
    \/ Crash
    \/ \E c \in Clients : Client(c)
    \/ Subscribe
    \/ Tick

Spec == Init /\ [][Next]_gpioVars
----------------------------------------------------------------------------
(* Properties.                                                             *)

\* Every variable has its type: commands and results stay within the bound of
\* a batch and ages within the saturation.
TypeOK ==
    /\ line \in [Wires -> Level]
    /\ since \in [HeatSources -> 0..Forever]
    /\ value \in [Wires -> Tristate]
    /\ age \in [HeatSources -> 0..Forever]
    /\ phase \in {"down", "starting", "serving"}
    /\ batch \in Seq(Command)
    /\ done \in Seq(BOOLEAN)
    /\ Len(done) <= Len(batch)
    /\ serving \in Clients \cup {None}
    /\ ctl \in [Clients -> Exchange]
    /\ sub \in {"none", "pending", "served"}
    /\ told \in [Wires -> Tristate]

\* While the controller runs, no heat source is on without the fan, when the
\* fan has a line: neither a client's "G off", nor a fan line that fails to
\* switch, nor a restart leads there (gpio_hvac.c:102-109 and 130-145).
FanRunsWithHeat ==
    phase # "down" /\ "G" \in Wired /\ (\E w \in HeatSources : line[w] = "on")
        => line["G"] = "on"

\* What a later command of a batch may undo: the same wire's level, the
\* compressor when a turn of the valve is refused, a fan that is off when a
\* heat source starts.
Disturbs(later, earlier) ==
    \/ later.wire = earlier.wire
    \/ later.wire = "OB" /\ earlier.wire = "Y1" /\ earlier.connect = "on"
    \/ /\ later.wire \in HeatSources /\ later.connect = "on"
       /\ earlier.wire = "G" /\ earlier.connect = "off"

\* A result `true' is about the equipment: until the reply is sent, the line is
\* at the level that was asked for unless a later command of the same batch is
\* one of those that may undo it (handle_req, gpio_hvac.c:163-164).
AckedCommandsHold ==
    serving # None =>
        \A i \in 1..Len(done) :
            /\ done[i]
            /\ \A j \in i+1..Len(done) : ~Disturbs(batch[j], batch[i])
            => line[batch[i].wire] = batch[i].connect

\* A subscriber that was served its snapshot has been told the level of exactly
\* the lines the controller knows: no change falls between the snapshot and the
\* events, and one the safety check makes on its own account is published too.
SubscriberKnowsLines ==
    sub = "served" =>
        \A w \in Wires :
            told[w] = IF value[w] = "unknown" THEN "unknown" ELSE line[w]

\* The controller keeps the promises of module RelaySafety: rest of the heat
\* sources, fan before heat, no late turn of the valve, through commands,
\* failures of a line, crashes and restarts.
Relays == INSTANCE RelaySafety WITH alive <- phase # "down"
KeepsRelaysSafe == Relays!AbsSpec

\* "Set them all to known and sane states" (gpio_hvac.c:240): when the loop
\* begins with no line having failed, the state of every line is known.
KnownAfterStartup ==
    phase = "serving" /\ ~GpioFails => \A w \in Wired : value[w] # "unknown"
=============================================================================
