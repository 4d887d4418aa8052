------------------------------- MODULE NbpFet -------------------------------
(***************************************************************************)
(* nbp: the process in front of a Nest backplate, whose FETs switch the    *)
(* HVAC wires.  It takes wire commands on a REP socket, holds each FET to a*)
(* rest after a shutoff, and passes the rest on over a serial line.  The   *)
(* backplate is a program of its own: it opens every FET when it resets,   *)
(* told to or not, and reports which FETs have a wire some time later.     *)
(*                                                                         *)
(* What nbp knows (asserted, the age of _ts_last_shutoff) is kept apart    *)
(* from what is (fet, rest).  Time is relative, as in GpioHvac.            *)
(***************************************************************************)
EXTENDS HvacWires

CONSTANTS Fets,           \* the wires of FETs that are told apart
          Installed,      \* those that have a wire
          ShutoffDelay,   \* ts_shutoff_delay, in ticks
          Forever,        \* the age at which time saturates
          Clients,        \* the processes that hold a REQ socket to it
          Batches,        \* bound: the requests clients send
          MaxReports,     \* bound: the reports on their way
          SendFails       \* whether a write to the backplate may fail

ASSUME NbpAssumption ==
    /\ Fets \subseteq Wires
    /\ Installed \subseteq Fets
    /\ ShutoffDelay \in Nat
    /\ Forever \in Nat
    /\ ShutoffDelay <= Forever
    /\ "none" \notin Clients
    /\ Batches \subseteq Seq(Command)
    /\ MaxReports \in Nat
    /\ SendFails \in BOOLEAN

None == "none"

VARIABLES fet,      \* whether the backplate's FET conducts
          rest,     \* history: ticks since it last opened
          reports,  \* presence reports the backplate has sent
          asserted, \* _fet[f]._asserted
          present,  \* _fet[f]._present
          age,      \* ticks since _fet[f]._ts_last_shutoff
          unsent,   \* history: FETs whose safety disconnection was not written
          phase,    \* "down", "resetting" (no report yet) or "up"
          batch,    \* the commands being carried out
          done,     \* the results so far
          serving,  \* the client whose request is being handled
          ctl,      \* [Clients -> the state of its REQ/REP exchange]
          sub,      \* a subscriber: "none", "pending" or "served"
          told      \* what it was told since, once its queue is drained

backplateVars == <<fet, rest, reports>>
nbpVars == <<fet, rest, reports, asserted, present, age, unsent, phase,
             batch, done, serving, ctl, sub, told>>
----------------------------------------------------------------------------
(* The backplate.                                                          *)

Older(t) == IF t < Forever THEN t + 1 ELSE Forever

\* The FETs of `fs' are told to conduct or to open.
Switch(fs, level) ==
    /\ fet' = [f \in Fets |-> IF f \in fs /\ f \in Installed
                              THEN level ELSE fet[f]]
    /\ rest' = [f \in Fets |-> IF fet[f] = "on" /\ fet'[f] = "off"
                               THEN 0 ELSE rest[f]]

\* It resets by itself: every FET opens, and a report is sent.
BackplateReset ==
    /\ reports < MaxReports
    /\ Switch(Fets, "off")
    /\ reports' = reports + 1
    /\ UNCHANGED <<asserted, present, age, unsent, phase, batch, done,
                   serving, ctl, sub, told>>
----------------------------------------------------------------------------
(* nbp_control_fet.                                                        *)

\* Mutant of RestFromNow: _ts_last_shutoff stays at zero, long ago.
RestedSinceBoot == Forever

\* The age of a _ts_last_shutoff that is set to the clock.
RestFromNow == 0

\* Mutant of Publish: a disconnection is not published.
PublishOn(fs, level) ==
    told' = [f \in Fets |->
               IF f \in fs /\ sub # "none" /\ level = "on" THEN level ELSE told[f]]

\* cb_asserting_fet_control.
Publish(fs, level) ==
    told' = [f \in Fets |-> IF f \in fs /\ sub # "none" THEN level ELSE told[f]]

\* nbp_control_fet_unsafe on the FETs `fs', written to the backplate.
Control(fs, level) ==
    /\ Switch(fs, level)
    /\ age' = [f \in Fets |->
                 IF f \in fs /\ level = "off" /\ asserted[f] # "off"
                 THEN RestFromNow ELSE age[f]]
    /\ asserted' = [f \in Fets |-> IF f \in fs THEN level ELSE asserted[f]]
    /\ Publish(fs, level)

LockedOut(f) == age[f] < ShutoffDelay

\* A number past the FETs, or a FET that has not rested.
Refused(cmd) ==
    IF cmd.wire \in Fets THEN cmd.connect = "on" /\ LockedOut(cmd.wire) ELSE TRUE

\* Mutant of NotSent: the new state is noted before the write fails.
NotSentNoted(cmd) ==
    /\ SendFails
    /\ asserted' = [f \in Fets |-> IF f = cmd.wire THEN cmd.connect ELSE asserted[f]]
    /\ UNCHANGED <<fet, rest, age, unsent, told>>

\* nbp_send fails before anything is noted.
NotSent(cmd) ==
    /\ SendFails
    /\ UNCHANGED <<fet, rest, asserted, age, unsent, told>>

ControlFet(cmd) ==
    \/ /\ ~Refused(cmd)
       /\ Control({cmd.wire}, cmd.connect)
       /\ unsent' = unsent \ {cmd.wire}
       /\ done' = Append(done, TRUE)
    \/ /\ ~Refused(cmd) /\ NotSent(cmd)
       /\ done' = Append(done, FALSE)
    \/ /\ Refused(cmd)
       /\ done' = Append(done, FALSE)
       /\ UNCHANGED <<fet, rest, asserted, age, unsent, told>>
----------------------------------------------------------------------------
(* The process.                                                            *)

\* nbp_open, and the reset that main asks for; input from before is flushed.
Open ==
    /\ phase = "down"
    /\ phase' = "resetting"
    /\ Switch(Fets, "off")
    /\ reports' \in 1..MaxReports
    /\ asserted' = [f \in Fets |-> "unknown"]
    /\ present' = [f \in Fets |-> "unknown"]
    /\ age' = [f \in Fets |-> RestFromNow]
    /\ unsent' = {}
    /\ UNCHANGED <<batch, done, serving, ctl, sub, told>>

Polling == phase # "down" /\ serving = None

\* NBPM_FET_PRESENCE: what may be on is turned off, one FET after the other;
\* the first report makes the process publish its events.
Suspect == {f \in Fets : present[f] # "off" /\ asserted[f] # "off"}

FetPresence ==
    /\ Polling
    /\ reports > 0
    /\ reports' = reports - 1
    /\ \E written \in SUBSET Suspect :
          /\ written # Suspect => SendFails
          /\ Control(written, "off")
          /\ unsent' = Suspect \ written
    /\ present' = [f \in Fets |-> IF f \in Installed THEN "on" ELSE "off"]
    /\ phase' = "up"
    /\ UNCHANGED <<batch, done, serving, ctl, sub>>

HandleReq(c) ==
    /\ Polling
    /\ ctl[c].st = "sent"
    /\ serving' = c
    /\ batch' = ctl[c].cmds
    /\ done' = <<>>
    /\ ctl' = [ctl EXCEPT ![c] = Taken]
    /\ UNCHANGED <<backplateVars, asserted, present, age, unsent, phase,
                   sub, told>>

ControlWire ==
    /\ serving # None
    /\ Len(done) < Len(batch)
    /\ ControlFet(batch[Len(done) + 1])
    /\ UNCHANGED <<reports, present, phase, batch, serving, ctl, sub>>

\* Mutant of EndBatch: the results are kept for the next request.
EndBatchKeepsResults == serving' = None /\ batch' = <<>> /\ UNCHANGED done

EndBatch == serving' = None /\ batch' = <<>> /\ done' = <<>>

SendReply ==
    /\ serving # None
    /\ Len(done) = Len(batch)
    /\ ctl' = [ctl EXCEPT ![serving] =
                 IF @.st = "taken" THEN Replied(done) ELSE @]
    /\ EndBatch
    /\ UNCHANGED <<backplateVars, asserted, present, age, unsent, phase,
                   sub, told>>

GotNewSubscriber ==
    /\ Polling
    /\ sub = "pending"
    /\ sub' = "served"
    /\ told' = [f \in Fets |->
                  IF asserted[f] = "unknown" THEN told[f] ELSE asserted[f]]
    /\ UNCHANGED <<backplateVars, asserted, present, age, unsent, phase,
                   batch, done, serving, ctl>>

\* The process dies; the backplate does not notice.
Crash ==
    /\ phase # "down"
    /\ phase' = "down"
    /\ \E lost \in SUBSET Clients :
          /\ serving # None /\ ctl[serving].st = "taken" => serving \in lost
          /\ \A c \in lost : ctl[c].st # "idle"
          /\ ctl' = [c \in Clients |-> IF c \in lost THEN Lost ELSE ctl[c]]
    /\ serving' = None /\ batch' = <<>> /\ done' = <<>>
    /\ sub' = "none"
    /\ told' = [f \in Fets |-> "unknown"]
    /\ asserted' = [f \in Fets |-> "unknown"]
    /\ present' = [f \in Fets |-> "unknown"]
    /\ age' = [f \in Fets |-> 0]
    /\ unsent' = {}
    /\ UNCHANGED backplateVars
----------------------------------------------------------------------------
(* The environment: clients, a subscriber and time.                        *)

Client(c) ==
    /\ \/ /\ ctl[c].st \in {"idle", "replied"}
          /\ \E cmds \in Batches : ctl' = [ctl EXCEPT ![c] = Sent(cmds)]
       \/ /\ ctl[c].st # "idle"
          /\ ctl' = [ctl EXCEPT ![c] = Idle]
    /\ UNCHANGED <<backplateVars, asserted, present, age, unsent, phase,
                   batch, done, serving, sub, told>>

\* Events are published from the first report on.
Subscribe ==
    /\ phase = "up"
    /\ sub = "none"
    /\ sub' = "pending"
    /\ UNCHANGED <<backplateVars, asserted, present, age, unsent, phase,
                   batch, done, serving, ctl, told>>

Tick ==
    /\ rest' = [f \in Fets |-> Older(rest[f])]
    /\ age' = [f \in Fets |-> Older(age[f])]
    /\ UNCHANGED <<fet, reports, asserted, present, unsent, phase,
                   batch, done, serving, ctl, sub, told>>
----------------------------------------------------------------------------
\* The first state: the backplate is running, from an earlier process perhaps.
Init ==
    /\ fet \in {l \in [Fets -> Level] : \A f \in Fets \ Installed : l[f] = "off"}
    /\ rest = [f \in Fets |-> 0]
    /\ reports = 0
    /\ asserted = [f \in Fets |-> "unknown"]
    /\ present = [f \in Fets |-> "unknown"]
    /\ age = [f \in Fets |-> 0]
    /\ unsent = {}
    /\ phase = "down"
    /\ batch = <<>>
    /\ done = <<>>
    /\ serving = None
    /\ ctl = [c \in Clients |-> Idle]
    /\ sub = "none"
    /\ told = [f \in Fets |-> "unknown"]

Next ==
    \/ BackplateReset
    \/ Open
    \/ FetPresence
    \/ \E c \in Clients : HandleReq(c)
    \/ ControlWire
    \/ SendReply
    \/ GotNewSubscriber
    \/ Crash
    \/ \E c \in Clients : Client(c)
    \/ Subscribe
    \/ Tick

Spec == Init /\ [][Next]_nbpVars
----------------------------------------------------------------------------
(* Properties.                                                             *)

\* Every variable has its type.
TypeOK ==
    /\ fet \in [Fets -> Level]
    /\ rest \in [Fets -> 0..Forever]
    /\ reports \in 0..MaxReports
    /\ asserted \in [Fets -> Tristate]
    /\ present \in [Fets -> Tristate]
    /\ age \in [Fets -> 0..Forever]
    /\ unsent \subseteq Fets
    /\ phase \in {"down", "resetting", "up"}
    /\ batch \in Seq(Command)
    /\ done \in Seq(BOOLEAN)
    /\ Len(done) <= Len(batch)
    /\ serving \in Clients \cup {None}
    /\ ctl \in [Clients -> Exchange]
    /\ sub \in {"none", "pending", "served"}
    /\ told \in [Fets -> Tristate]

\* nbp is never wrong about the backplate in the dangerous direction: a FET it
\* does not hold to be on is off.  It is wrong in the other only while a report
\* of a reset is on its way, or its safety disconnection could not be written
\* (nest.c:153-160, 260-266).
BeliefMatchesBackplate ==
    phase # "down" =>
        \A f \in Installed :
            /\ fet[f] = "on" => asserted[f] = "on"
            /\ asserted[f] = "on" /\ fet[f] = "off" => reports > 0 \/ f \in unsent

\* What nbp cannot know of a FET it holds to be on: that the backplate has opened
\* it in a reset whose report has not been read, or that it is open since one
\* whose report was read while the disconnection could not be written.
OpenUnknown(f) == asserted[f] = "on" /\ (reports > 0 \/ f \in unsent)

\* A FET turns on only after it has been off for the shutoff delay, whoever
\* turned it off, this process, one before it or the backplate itself; but not so
\* one that nbp holds to be on while the backplate has opened it, which is turned
\* on at once by a command for what it already is (nest.c:90-96, 153-160, 276-285).
RestBeforeConnect ==
    [][\A f \in Fets :
          fet[f] = "off" /\ fet'[f] = "on"
              => rest[f] >= ShutoffDelay \/ OpenUnknown(f)]_nbpVars

\* A subscriber that was served its snapshot knows every FET as nbp does, the
\* disconnections that follow a reset of the backplate included.
SubscriberKnowsFets == sub = "served" => told = asserted
=============================================================================
