--------------------------- MODULE GpioHvacProof ---------------------------
(***************************************************************************)
(* Proofs about gpio_hvac, for every lockout, tolerance, wiring, set of    *)
(* clients and set of requests.                                            *)
(*                                                                         *)
(* The argument: whatever control_wire_safe does to a command, it does by  *)
(* setting some wires to one level, or none (lemma SafeCommand names what  *)
(* it checked before doing so).  The invariant Inv ties what the program   *)
(* believes (value, age) to the lines (line, since); with it those checks  *)
(* are about the equipment, and each step is one that RelaySafety allows.  *)
(***************************************************************************)
EXTENDS GpioHvac, TLAPS

\* What the program knows of a line is so; what it does not know was low since
\* it took charge; an unwired line is never known.
LinesKnown ==
    \A w \in Wires :
        /\ value[w] # "unknown" => value[w] = line[w] /\ w \in Wired
        /\ value[w] = "unknown" /\ phase # "down" => line[w] = "off"

\* last_changed never predates the last switch of the line, and is that switch
\* while the line is on.
AgesCover ==
    \A w \in HeatSources :
        /\ age[w] <= since[w]
        /\ value[w] = "on" => age[w] = since[w]

\* Only a serving controller has subscribers; none was ever told of a line the
\* controller does not know, and one that is down knows none.
ToldOfKnown ==
    /\ sub # "none" => phase = "serving"
    /\ \A w \in Wires :
          /\ value[w] = "unknown" => told[w] = "unknown"
          /\ phase = "down" => value[w] = "unknown"

\* The invariant that ties what the program believes to the lines, ...
Inv == TypeOK /\ LinesKnown /\ AgesCover /\ FanRunsWithHeat

\* ... and the one about what it told others.
AckedWired ==
    serving # None => \A i \in 1..Len(done) : done[i] => batch[i].wire \in Wires

ToldInv ==
    ToldOfKnown /\ SubscriberKnowsLines /\ AckedWired /\ AckedCommandsHold

\* Why the command has `w' set to `level': it is the command's own wire, or the
\* fan that must precede a heat source, or the compressor of a late turn.
Commanded(cmd, w, level) ==
    \/ w = cmd.wire /\ level = cmd.connect
    \/ /\ w = "G" /\ level = "on"
       /\ cmd.wire \in HeatSources /\ cmd.connect = "on"
    \/ w = "Y1" /\ level = "off" /\ cmd.wire = "OB"

\* What is so of the wires `ws' a command sets to `level' with result `ok'; ...
Carried(cmd, ws, level, ok) ==
    /\ \A w \in ws : Commanded(cmd, w, level)
    /\ ok => cmd.wire \in ws /\ level = cmd.connect

\* ... and what the safety check established before setting them.
Checked(ws, level) ==
    /\ ws \subseteq Wired
    /\ \A w \in HeatSources :
          level = "on" /\ w \in ws =>
              /\ value[w] # "on" => age[w] >= ShutoffDelay
              /\ "G" \in Wired => "G" \in ws \/ line["G"] = "on"
    /\ level = "off" /\ "G" \in ws => \A w \in HeatSources : line[w] = "off"
    /\ "OB" \in ws => /\ ws = {"OB"}
                      /\ line["Y1"] = "on" /\ level # line["OB"]
                            => age["Y1"] <= Tolerance

\* control_wire_safe sets wires to one level and only after those checks.
LEMMA SafeCommand ==
    ASSUME Inv, phase # "down", NEW cmd \in Command, ControlWireSafe(cmd)
    PROVE  \E ws \in SUBSET Wires, level \in Level, ok \in BOOLEAN :
              /\ Checked(ws, level)
              /\ Carried(cmd, ws, level, ok)
              /\ Set(ws, level, ok)
<1> USE DEF Inv, LinesKnown, Wires, HeatSources, Level, Tristate
<1> DEFINE Goal == \E ws \in SUBSET Wires, level \in Level, ok \in BOOLEAN :
                      /\ Checked(ws, level)
                      /\ Carried(cmd, ws, level, ok)
                      /\ Set(ws, level, ok)
<1>r. ASSUME Refuse PROVE Goal
  <2>1. Checked({}, "off") /\ Carried(cmd, {}, "off", FALSE)
    BY DEF Checked, Carried, Commanded, Carried
  <2> QED
    BY <1>r, <2>1 DEF Refuse
<1>s. ASSUME NEW ws \in SUBSET Wires, NEW level \in Level, NEW ok \in BOOLEAN,
             Set(ws, level, ok), Checked(ws, level),
             Carried(cmd, ws, level, ok)
      PROVE  Goal
  BY <1>s
<1> SUFFICES Goal
  OBVIOUS
<1> HIDE DEF Goal
<1>t. /\ value \in [Wires -> Tristate]
      /\ line \in [Wires -> Level]
      /\ age \in [HeatSources -> 0..Forever]
  BY DEF TypeOK
<1>a. ShutoffDelay \in Nat /\ Tolerance \in Nat /\ Forever \in Nat
  BY GpioAssumption
<1>1. CASE cmd.wire \in HeatSources /\ ControlHeat(cmd.wire, cmd.connect)
  <2> DEFINE w == cmd.wire
             level == cmd.connect
  <2>0. w \in HeatSources /\ level \in Level
    BY <1>1 DEF Command
  <2>1. ASSUME "G" \in Wired, w \in Wired, ~LockedOut(w), level = "on"
        PROVE  Checked({"G", w}, "on") /\ Carried(cmd, {"G", w}, "on", TRUE)
    BY <2>0, <2>1, <1>t, <1>a DEF Checked, Carried, Commanded, LockedOut
  <2>2. ASSUME "G" \in Wired, level = "on"
        PROVE  Checked({"G"}, "on") /\ Carried(cmd, {"G"}, "on", FALSE)
    BY <2>0, <2>2 DEF Checked, Carried, Commanded
  <2>3. ASSUME w \in Wired,
               ~(/\ level = "on" /\ value[w] # "on"
                 /\ LockedOut(w) \/ ("G" \in Wired /\ value["G"] # "on"))
        PROVE  Checked({w}, level) /\ Carried(cmd, {w}, level, TRUE)
    BY <2>0, <2>3, <1>t, <1>a DEF Checked, Carried, Commanded, LockedOut, FanRunsWithHeat
  <2> HIDE DEF w, level
  <2> QED
    BY <1>1, <2>0, <2>1, <2>2, <2>3, <1>r, <1>s DEF ControlHeat, Drive, w, level
<1>2. CASE cmd.wire = "OB" /\ ControlReversing(cmd.connect)
  <2> DEFINE level == cmd.connect
  <2>0. level \in Level
    BY DEF Command
  <2>1. ASSUME "OB" \in Wired,
               ~(/\ value["Y1"] # "off" /\ level # value["OB"]
                 /\ age["Y1"] > Tolerance)
        PROVE  Checked({"OB"}, level) /\ Carried(cmd, {"OB"}, level, TRUE)
    BY <1>2, <2>0, <2>1, <1>t, <1>a DEF Checked, Carried, Commanded
  <2>2. ASSUME "Y1" \in Wired
        PROVE  Checked({"Y1"}, "off") /\ Carried(cmd, {"Y1"}, "off", FALSE)
    BY <1>2, <2>2 DEF Checked, Carried, Commanded
  <2> HIDE DEF level
  <2> QED
    BY <1>2, <2>0, <2>1, <2>2, <1>r, <1>s DEF ControlReversing, Drive, level
<1>3. CASE cmd.wire = "G" /\ ControlFan(cmd.connect)
  <2> DEFINE level == cmd.connect
  <2>0. level \in Level
    BY DEF Command
  <2>1. ASSUME "G" \in Wired,
               ~(/\ level = "off"
                 /\ \/ value["Y1"] # "off"
                    \/ "W2" \in Wired /\ value["W2"] # "off")
        PROVE  Checked({"G"}, level) /\ Carried(cmd, {"G"}, level, TRUE)
    BY <1>3, <2>0, <2>1, <1>t DEF Checked, Carried, Commanded
  <2> HIDE DEF level
  <2> QED
    BY <1>3, <2>0, <2>1, <1>r, <1>s DEF ControlFan, HeatMayRun, Drive, level
<1>4. CASE cmd.wire = "other" /\ Refuse
  BY <1>4, <1>r
<1> QED
  BY <1>1, <1>2, <1>3, <1>4 DEF ControlWireSafe

\* A checked setting of wires keeps the invariant but for the types, ...
LEMMA CheckedSetKeepsInv ==
    ASSUME Inv, phase # "down", UNCHANGED phase,
           NEW ws \in SUBSET Wires, NEW level \in Level, NEW ok \in BOOLEAN,
           Checked(ws, level), Set(ws, level, ok)
    PROVE  LinesKnown' /\ AgesCover' /\ FanRunsWithHeat'
<1> USE GpioAssumption DEF Inv, Wires, HeatSources, Level, Tristate
<1>t. /\ value \in [Wires -> Tristate]
      /\ line \in [Wires -> Level]
      /\ age \in [HeatSources -> 0..Forever]
      /\ since \in [HeatSources -> 0..Forever]
  BY DEF TypeOK
<1>1. LinesKnown'
  BY <1>t DEF LinesKnown, Set, Checked
<1>2. AgesCover'
  BY <1>t DEF LinesKnown, AgesCover, Set, Switched
<1>3. FanRunsWithHeat'
  BY <1>t DEF LinesKnown, FanRunsWithHeat, Set, Checked
<1> QED
  BY <1>1, <1>2, <1>3

\* ... and is a step that the equipment is promised.
LEMMA CheckedSetIsRelay ==
    ASSUME Inv, phase # "down", UNCHANGED phase, FanRunsWithHeat',
           NEW ws \in SUBSET Wires, NEW level \in Level, NEW ok \in BOOLEAN,
           Checked(ws, level), Set(ws, level, ok)
    PROVE  Relays!Relay
<1> USE GpioAssumption
    DEF Inv, Wires, HeatSources, Level, Tristate,
        Relays!Wires, Relays!HeatSources, Relays!Level
<1>t. /\ value \in [Wires -> Tristate]
      /\ line \in [Wires -> Level]
      /\ age \in [HeatSources -> 0..Forever]
      /\ since \in [HeatSources -> 0..Forever]
  BY DEF TypeOK
<1> DEFINE new == [w \in Wires |-> IF w \in ws THEN level ELSE line[w]]
<1>1. new \in [Wires -> Level] /\ line' = new
  BY <1>t DEF Set
<1>2. \A w \in HeatSources :
         line[w] = "off" /\ new[w] = "on" => since[w] >= ShutoffDelay
  BY <1>t DEF LinesKnown, AgesCover, Checked
<1>3. Relays!FanCovers(new)
  BY <1>1 DEF FanRunsWithHeat, Relays!FanCovers
<1>4. line["Y1"] = "on" /\ new["Y1"] = "on" /\ new["OB"] # line["OB"]
         => since["Y1"] <= Tolerance
  BY <1>t DEF LinesKnown, AgesCover, Checked
<1>5. since' = Relays!Switched(new)
  BY DEF Set, Switched, Relays!Switched
<1> HIDE DEF new
<1> QED
  BY <1>1, <1>2, <1>3, <1>4, <1>5 DEF Relays!Relay

\* The types, kept by every step.
LEMMA TypeStep == TypeOK /\ Inv /\ [Next]_gpioVars => TypeOK'
<1> SUFFICES ASSUME TypeOK, Inv, [Next]_gpioVars PROVE TypeOK'
  OBVIOUS
<1> USE GpioAssumption DEF TypeOK, Level, Tristate
<1>e. /\ Idle \in Exchange /\ Taken \in Exchange /\ Lost \in Exchange
      /\ \A cmds \in Seq(Command) : Sent(cmds) \in Exchange
      /\ \A results \in Seq(BOOLEAN) : Replied(results) \in Exchange
  BY DEF Exchange, Idle, Taken, Lost, Sent, Replied
<1>o. \A t \in 0..Forever : Older(t) \in 0..Forever
  BY DEF Older
<1>s. \A new : Switched(new) \in [HeatSources -> 0..Forever]
  BY DEF Switched
<1>1. CASE Start
  <2>1. batch' \in Seq(Command)
    BY <1>1 DEF Start, StartupBatch, Command, AnyWire, Wires
  <2>2. Len(done') <= Len(batch')
    BY <1>1 DEF Start, StartupBatch
  <2> QED
    BY <1>1, <1>s, <2>1, <2>2 DEF Start, AllLow
<1>2. CASE ControlWire
  <2>1. batch[Len(done) + 1] \in Command
    BY <1>2 DEF ControlWire
  <2>2. PICK ws \in SUBSET Wires, level \in Level, ok \in BOOLEAN :
                Set(ws, level, ok)
    BY <1>2, <2>1, SafeCommand DEF ControlWire
  <2>3. done' \in Seq(BOOLEAN) /\ Len(done') = Len(done) + 1
    BY <2>2 DEF Set
  <2>4. line' \in [Wires -> Level] /\ value' \in [Wires -> Tristate]
    BY <2>2 DEF Set
  <2>5. since' \in [HeatSources -> 0..Forever] /\ age' \in [HeatSources -> 0..Forever]
    BY <2>2, <1>s DEF Set
  <2>6. told' \in [Wires -> Tristate]
    BY <2>2 DEF Set
  <2> QED
    BY <1>2, <2>3, <2>4, <2>5, <2>6 DEF ControlWire
<1>3. CASE Serve
  BY <1>3 DEF Serve, EndBatch
<1>4. ASSUME NEW c \in Clients, HandleReq(c) PROVE TypeOK'
  <2>1. ctl[c].cmds \in Seq(Command)
    BY DEF Exchange
  <2>2. batch' \in Seq(Command) /\ Len(done') <= Len(batch')
    BY <1>4, <2>1 DEF HandleReq, Polling
  <2> QED
    BY <1>4, <1>e, <2>2 DEF HandleReq
<1>5. CASE SendReply
  BY <1>5, <1>e DEF SendReply, EndBatch, Reply, None
<1>6. CASE GotNewSubscriber
  BY <1>6 DEF GotNewSubscriber, Snapshot
<1>7. CASE Crash
  BY <1>7, <1>e, <1>s DEF Crash, EndBatch, None
<1>8. ASSUME NEW c \in Clients, Client(c) PROVE TypeOK'
  <2>1. ASSUME NEW cmds \in Batches, SendRequest(c, cmds)
        PROVE ctl' \in [Clients -> Exchange]
    <3>1. Sent(cmds) \in Exchange
      BY <1>e, <2>1
    <3>2. QED
      BY <2>1, <3>1 DEF SendRequest
  <2>2. ReceiveReply(c) \/ ClientRestart(c) => ctl' \in [Clients -> Exchange]
    <3>1. Idle \in Exchange
      BY <1>e
    <3>2. QED
      BY <3>1 DEF ReceiveReply, ClientRestart
  <2>3. ctl' \in [Clients -> Exchange]
    BY <1>8, <2>1, <2>2 DEF Client
  <2>4. QED
    BY <1>8, <2>3 DEF Client
<1>9. CASE Subscribe
  BY <1>9 DEF Subscribe
<1>10. CASE Tick
  BY <1>10, <1>o DEF Tick
<1>11. CASE UNCHANGED gpioVars
  BY <1>11 DEF gpioVars
<1> QED
  BY <1>1, <1>2, <1>3, <1>4, <1>5, <1>6, <1>7, <1>8, <1>9, <1>10, <1>11
     DEF Next, Server
\* The invariant holds of the initial state ...
LEMMA InitInv == Init => Inv
<1> SUFFICES ASSUME Init PROVE Inv
  OBVIOUS
<1> USE GpioAssumption DEF Init, AllLow, Level, Tristate, Wires, HeatSources
<1>1. TypeOK
  <2>1. ctl \in [Clients -> Exchange]
    BY DEF Idle, Exchange
  <2>2. /\ batch \in Seq(Command) /\ done \in Seq(BOOLEAN)
        /\ Len(done) <= Len(batch)
    OBVIOUS
  <2> QED
    BY <2>1, <2>2 DEF TypeOK, None
<1>2. LinesKnown /\ AgesCover /\ FanRunsWithHeat
  BY DEF LinesKnown, AgesCover, FanRunsWithHeat
<1> QED
  BY <1>1, <1>2 DEF Inv

\* ... and every step keeps it.
LEMMA NextInv == Inv /\ [Next]_gpioVars => Inv'
<1> SUFFICES ASSUME Inv, [Next]_gpioVars PROVE Inv'
  OBVIOUS
<1>t. TypeOK'
  BY TypeStep DEF Inv
<1>l. /\ value \in [Wires -> Tristate]
      /\ line \in [Wires -> Level]
      /\ age \in [HeatSources -> 0..Forever]
      /\ since \in [HeatSources -> 0..Forever]
  BY DEF Inv, TypeOK
<1>d. SUFFICES LinesKnown' /\ AgesCover' /\ FanRunsWithHeat'
  BY <1>t DEF Inv
<1> USE GpioAssumption DEF Inv
<1>1. CASE Start
  BY <1>1, <1>l DEF Start, AllLow, Switched, LinesKnown, AgesCover,
                    FanRunsWithHeat, Wires, HeatSources, Level
<1>2. CASE ControlWire
  <2>1. batch[Len(done) + 1] \in Command
    BY <1>2 DEF ControlWire, TypeOK
  <2>2. PICK ws \in SUBSET Wires, level \in Level, ok \in BOOLEAN :
                Checked(ws, level) /\ Set(ws, level, ok)
    BY <1>2, <2>1, SafeCommand DEF ControlWire
  <2> QED
    BY <1>2, <2>2, CheckedSetKeepsInv DEF ControlWire
<1>3. CASE Crash
  BY <1>3, <1>l DEF Crash, Switched, LinesKnown, AgesCover, FanRunsWithHeat,
                    Wires, HeatSources
<1>4. CASE Tick
  <2>1. LinesKnown' /\ FanRunsWithHeat'
    BY <1>4 DEF Tick, LinesKnown, FanRunsWithHeat
  <2>2. AgesCover'
    BY <1>4, <1>l DEF Tick, Older, AgesCover, HeatSources
  <2> QED
    BY <2>1, <2>2
<1>5. CASE Serve
  BY <1>5 DEF Serve, LinesKnown, AgesCover, FanRunsWithHeat
<1>6. CASE UNCHANGED <<line, since, value, age, phase>>
  BY <1>6 DEF LinesKnown, AgesCover, FanRunsWithHeat
<1> QED
  BY <1>1, <1>2, <1>3, <1>4, <1>5, <1>6
     DEF Next, Server, HandleReq, SendReply, GotNewSubscriber, Client,
         Subscribe, gpioVars

LEMMA InvHolds == Spec => []Inv
BY InitInv, NextInv, PTL DEF Spec

\* A command that is carried out leaves alone what it does not disturb.
LEMMA AckedStep ==
    ASSUME Inv, AckedWired, AckedCommandsHold, ControlWire
    PROVE  AckedWired' /\ AckedCommandsHold'
<1> USE GpioAssumption DEF Inv
<1> DEFINE n == Len(done)
           cmd == batch[n + 1]
<1>1. cmd \in Command /\ phase # "down" /\ batch' = batch /\ serving' = serving
  BY DEF ControlWire, TypeOK
<1>2. PICK ws \in SUBSET Wires, level \in Level, ok \in BOOLEAN :
              Carried(cmd, ws, level, ok) /\ Set(ws, level, ok)
  BY <1>1, SafeCommand DEF ControlWire
<1>3. /\ done \in Seq(BOOLEAN) /\ n \in Nat
      /\ batch \in Seq(Command) /\ n + 1 \in 1..Len(batch)
  BY DEF ControlWire, TypeOK
<1>4. /\ done' = Append(done, ok) /\ Len(done') = n + 1
      /\ done'[n + 1] = ok /\ \A i \in 1..n : done'[i] = done[i]
  BY <1>2, <1>3 DEF Set
<1>w. AckedWired'
  BY <1>1, <1>2, <1>3, <1>4 DEF AckedWired, Carried
<1>5. SUFFICES ASSUME serving # None, NEW i \in 1..(n + 1), done'[i],
                      \A j \in i+1..(n + 1) : ~Disturbs(batch[j], batch[i])
               PROVE  line'[batch[i].wire] = batch[i].connect
  BY <1>1, <1>4, <1>w DEF AckedCommandsHold
<1>6. line' = [w \in Wires |-> IF w \in ws THEN level ELSE line[w]]
  BY <1>2 DEF Set
<1> HIDE DEF n
<1>7. CASE i = n + 1
  BY <1>2, <1>3, <1>4, <1>5, <1>6, <1>7 DEF Carried
<1>8. CASE i \in 1..n
  <2>d. done[i]
    BY <1>4, <1>5, <1>8
  <2>j. i \in 1..Len(done) /\ \A j \in i+1..Len(done) : j \in i+1..(n + 1)
    BY <1>3, <1>8 DEF n
  <2>1. line[batch[i].wire] = batch[i].connect /\ done[i]
    BY <1>5, <2>d, <2>j DEF AckedCommandsHold
  <2>2. ~Disturbs(cmd, batch[i])
    BY <1>3, <1>5, <1>8
  <2>3. batch[i] \in Command
    BY <1>3, <1>8
  <2>4. batch[i].wire \in ws => batch[i].connect = level
    BY <1>2, <2>2, <2>3
       DEF Carried, Commanded, Disturbs, Command, AnyWire, Wires, HeatSources, Level
  <2>5. batch[i].wire \in Wires
    BY <1>5, <1>8, <2>1 DEF AckedWired, n
  <2> QED
    BY <1>6, <2>1, <2>4, <2>5
<1> QED
  BY <1>3, <1>7, <1>8

\* A change that reaches a line reaches the subscribers.
LEMMA ToldStep ==
    ASSUME Inv, ToldOfKnown, SubscriberKnowsLines, ControlWire
    PROVE  ToldOfKnown' /\ SubscriberKnowsLines'
<1> USE DEF Inv
<1>1. PICK ws \in SUBSET Wires, level \in Level, ok \in BOOLEAN :
              Set(ws, level, ok)
  BY SafeCommand DEF ControlWire, TypeOK
<1>2. /\ value \in [Wires -> Tristate]
      /\ line \in [Wires -> Level]
      /\ told \in [Wires -> Tristate]
  BY DEF TypeOK
<1> QED
  BY <1>1, <1>2
     DEF ControlWire, Set, ToldOfKnown, SubscriberKnowsLines, LinesKnown, Level

LEMMA ToldNext ==
    Inv /\ ToldInv /\ [Next]_gpioVars => ToldInv'
<1> SUFFICES ASSUME Inv, ToldInv, [Next]_gpioVars PROVE ToldInv'
  OBVIOUS
<1> USE GpioAssumption
    DEF ToldInv, ToldOfKnown, SubscriberKnowsLines, AckedWired, AckedCommandsHold
<1>l. /\ value \in [Wires -> Tristate]
      /\ line \in [Wires -> Level]
      /\ told \in [Wires -> Tristate]
  BY DEF Inv, TypeOK
<1>1. CASE Start
  BY <1>1, <1>l DEF Start
<1>2. CASE ControlWire
  BY <1>2, AckedStep, ToldStep
<1>3. CASE Serve
  BY <1>3 DEF Serve, EndBatch
<1>4. ASSUME NEW c \in Clients, HandleReq(c) PROVE ToldInv'
  BY <1>4 DEF HandleReq
<1>5. CASE SendReply
  BY <1>5 DEF SendReply, EndBatch, Reply, None
<1>6. CASE GotNewSubscriber
  BY <1>6, <1>l DEF GotNewSubscriber, Snapshot, Polling, Inv, LinesKnown, None
<1>7. CASE Crash
  BY <1>7 DEF Crash, EndBatch, None
<1>8. ASSUME NEW c \in Clients, Client(c) PROVE ToldInv'
  BY <1>8 DEF Client
<1>9. CASE Subscribe
  BY <1>9 DEF Subscribe
<1>10. CASE Tick
  BY <1>10 DEF Tick
<1>11. CASE UNCHANGED gpioVars
  BY <1>11 DEF gpioVars
<1> QED
  BY <1>1, <1>2, <1>3, <1>4, <1>5, <1>6, <1>7, <1>8, <1>9, <1>10, <1>11
     DEF Next, Server

LEMMA ToldHolds == Spec => []ToldInv
<1>1. Init => ToldInv
  BY DEF Init, ToldInv, ToldOfKnown, SubscriberKnowsLines, AckedWired,
         AckedCommandsHold
<1> QED
  BY <1>1, ToldNext, InvHolds, PTL DEF Spec

\* Every variable keeps its type.
THEOREM TypeCorrect == Spec => []TypeOK
<1>1. Inv => TypeOK
  BY DEF Inv
<1> QED
  BY <1>1, InvHolds, PTL

\* No heat source runs without the fan while the controller is up.
THEOREM FanSafety == Spec => []FanRunsWithHeat
<1>1. Inv => FanRunsWithHeat
  BY DEF Inv
<1> QED
  BY <1>1, InvHolds, PTL

\* A result `true' is about the lines, whatever the rest of its batch does.
THEOREM AckSafety == Spec => []AckedCommandsHold
<1>1. ToldInv => AckedCommandsHold
  BY DEF ToldInv
<1> QED
  BY <1>1, ToldHolds, PTL

\* A served subscriber has been told exactly what the controller knows.
THEOREM SubscriberSafety == Spec => []SubscriberKnowsLines
<1>1. ToldInv => SubscriberKnowsLines
  BY DEF ToldInv
<1> QED
  BY <1>1, ToldHolds, PTL

\* gpio_hvac implements RelaySafety: every step is one the equipment is
\* promised, or leaves the lines alone.
THEOREM Refinement == Spec => KeepsRelaysSafe
<1>1. Init => Relays!AbsInit
  BY DEF Init, AllLow, Relays!AbsInit, Wires, HeatSources, Relays!Wires,
         Relays!HeatSources
<1>2. Inv /\ Inv' /\ [Next]_gpioVars => [Relays!AbsNext]_(Relays!relayVars)
  <2> SUFFICES ASSUME Inv, Inv', [Next]_gpioVars
               PROVE  [Relays!AbsNext]_(Relays!relayVars)
    OBVIOUS
  <2> USE DEF Relays!AbsNext, Relays!relayVars, Relays!Wires,
              Relays!HeatSources, Relays!Level
  <2>l. line \in [Wires -> Level]
    BY DEF Inv, TypeOK
  <2>1. CASE Start
    BY <2>1 DEF Start, Relays!TakeCharge, AllLow, Switched, Relays!Switched,
                Wires, HeatSources
  <2>2. CASE ControlWire
    <3>1. batch[Len(done) + 1] \in Command
      BY <2>2 DEF ControlWire, TypeOK, Inv
    <3>2. PICK ws \in SUBSET Wires, level \in Level, ok \in BOOLEAN :
                  Checked(ws, level) /\ Set(ws, level, ok)
      BY <2>2, <3>1, SafeCommand DEF ControlWire
    <3>3. Relays!Relay
      BY <2>2, <3>2, CheckedSetIsRelay DEF ControlWire, Inv
    <3> QED
      BY <3>3
  <2>3. CASE Crash
    <3>1. PICK kept \in SUBSET {w \in Wires : line[w] = "on"} :
             LET new == [w \in Wires |-> IF w \in kept THEN "on" ELSE "off"]
             IN line' = new /\ since' = Switched(new)
      BY <2>3 DEF Crash
    <3> DEFINE new == [w \in Wires |-> IF w \in kept THEN "on" ELSE "off"]
    <3>2. new \in [Wires -> Level] /\ line' = new /\ since' = Relays!Switched(new)
      BY <3>1 DEF Level, Switched, Relays!Switched, HeatSources
    <3>3. \A w \in Wires : new[w] = "on" => line[w] = "on"
      OBVIOUS
    <3> HIDE DEF new
    <3>4. Relays!Abandon
      BY <2>3, <3>2, <3>3 DEF Relays!Abandon, Crash, Wires, Level
    <3> QED
      BY <3>4
  <2>4. CASE Tick
    BY <2>4 DEF Tick, Relays!TimePasses, Older, Relays!Older, HeatSources
  <2>5. CASE Serve
    BY <2>5 DEF Serve
  <2>6. CASE UNCHANGED <<line, since, phase>>
    BY <2>6
  <2> QED
    BY <2>1, <2>2, <2>3, <2>4, <2>5, <2>6
       DEF Next, Server, HandleReq, SendReply, GotNewSubscriber, Client,
           Subscribe, gpioVars
<1> QED
  BY <1>1, <1>2, InvHolds, PTL DEF Spec, KeepsRelaysSafe, Relays!AbsSpec
=============================================================================
