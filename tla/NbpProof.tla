------------------------------ MODULE NbpProof ------------------------------
(***************************************************************************)
(* Proofs about the two halves of nbp.                                     *)
(*                                                                         *)
(* Its control of its FETs (NbpFet), for every rest, set of FETs, of       *)
(* clients and of requests, with a backplate that resets whenever it likes *)
(* and a serial line that fails whenever it likes.  A FET is only told     *)
(* anything by Control, which notes what it told (lemma Controlled).  So   *)
(* what nbp holds of a FET can differ from the FET only by a reset of the  *)
(* backplate, which opens it; and the time that nbp counts for a FET it    *)
(* does not hold to be on is never more than the FET has rested.           *)
(*                                                                         *)
(* Its serial line (NbpFrame), for every checksum, set of messages, noise  *)
(* and number of frames and of faults, and pieces of any size.  What nbp   *)
(* passes over, byte by byte, lies within a frame that it found or is no   *)
(* frame, and more bytes do not change that (lemma NoFrameMoves); its      *)
(* buffer is what follows (Buffered).  A frame whose bytes are those of one*)
(* that was sent is read as what was sent (lemmas EncodedFrame, SameFrame  *)
(* and CleanFrame), so that on a line without faults nbp goes from one     *)
(* frame to the next (InStep).  Its loop does not spin (PassShortens), and *)
(* the checksum of the code tells the change of one byte, for a byte's step*)
(* can be undone (StepTells): such a frame is rejected.                    *)
(***************************************************************************)
EXTENDS NbpFet, NbpFrame, Crc16, SequenceTheorems, WellFoundedInduction, TLAPS
----------------------------------------------------------------------------
(* The FETs.                                                               *)


\* A FET that is not there does not conduct, one that is there is never
\* reported absent, and nbp believes what it may.
Believed ==
    /\ \A f \in Fets \ Installed : fet[f] = "off"
    /\ \A f \in Installed : present[f] # "off"
    /\ BeliefMatchesBackplate

\* The rest that nbp counts for a FET that it may turn on is not too long.
Rested ==
    phase # "down" => \A f \in Fets : asserted[f] # "on" => age[f] <= rest[f]

\* Nobody is told of anything nbp does not hold, and nobody is listening to an nbp
\* that is down.
ToldOfAsserted ==
    /\ \A f \in Fets : told[f] = "unknown" \/ told[f] = asserted[f]
    /\ sub = "none" => \A f \in Fets : told[f] = "unknown"
    /\ phase = "down" => serving = None /\ sub = "none"
    /\ sub # "none" => phase = "up"
    /\ SubscriberKnowsFets

Inv == TypeOK /\ Believed /\ Rested /\ ToldOfAsserted
----------------------------------------------------------------------------
\* The levels that are used are levels, and a level is known.
LEMMA Levels ==
    /\ "on" \in Level /\ "off" \in Level
    /\ "on" \in Tristate /\ "off" \in Tristate /\ "unknown" \in Tristate
    /\ \A l \in Level : l \in Tristate /\ l # "unknown" /\ (l = "on" \/ l = "off")
BY DEF Level, Tristate

\* Ages saturate and keep their order.
LEMMA Ages ==
    /\ 0 \in 0..Forever /\ Forever \in 0..Forever /\ ShutoffDelay \in Nat
    /\ \A t \in 0..Forever : Older(t) \in 0..Forever
    /\ \A t, u \in 0..Forever : t <= u => Older(t) <= Older(u)
BY NbpAssumption DEF Older

\* What an exchange may be after each step of it.
LEMMA Exchanges ==
    /\ Idle \in Exchange /\ Taken \in Exchange /\ Lost \in Exchange
    /\ \A cmds \in Seq(Command) : Sent(cmds) \in Exchange
    /\ \A results \in Seq(BOOLEAN) : Replied(results) \in Exchange
<1>1. <<>> \in Seq(Command) /\ <<>> \in Seq(BOOLEAN)
  OBVIOUS
<1> QED
  BY <1>1 DEF Idle, Taken, Lost, Sent, Replied, Exchange

\* The FETs that are told to switch do so, if they are there; one that opens
\* starts to rest, and the others rest on.
LEMMA Switched ==
    ASSUME TypeOK
    PROVE  \A fs \in SUBSET Fets, level \in Level :
              Switch(fs, level) =>
                 /\ fet' \in [Fets -> Level]
                 /\ rest' \in [Fets -> 0..Forever]
                 /\ \A f \in Fets :
                       /\ f \in fs /\ f \in Installed => fet'[f] = level
                       /\ ~(f \in fs /\ f \in Installed) => fet'[f] = fet[f]
                       /\ fet[f] = "off" => rest'[f] = rest[f]
                       /\ rest'[f] = rest[f] \/ (rest'[f] = 0 /\ fet'[f] = "off")
BY Ages DEF Switch, TypeOK

\* What nbp notes of the FETs it controls, and what becomes of them.
LEMMA Controlled ==
    ASSUME Inv, phase # "down",
           NEW fs \in SUBSET Fets, NEW level \in Level, Control(fs, level)
    PROVE  /\ fet' \in [Fets -> Level] /\ rest' \in [Fets -> 0..Forever]
           /\ asserted' \in [Fets -> Tristate] /\ age' \in [Fets -> 0..Forever]
           /\ told' \in [Fets -> Tristate]
           /\ \A f \in Fets :
                 /\ f \in fs => /\ asserted'[f] = level
                                /\ f \in Installed => fet'[f] = level
                 /\ f \notin fs => asserted'[f] = asserted[f] /\ fet'[f] = fet[f]
                 /\ f \notin Installed => fet'[f] = fet[f]
                 /\ asserted'[f] # "on" => age'[f] <= rest'[f]
                 /\ told'[f] = "unknown" \/ told'[f] = asserted'[f]
                 /\ sub # "none" /\ told[f] = asserted[f]
                       => told'[f] = asserted'[f]
<1> USE Levels, Ages
<1>t. /\ fet \in [Fets -> Level] /\ rest \in [Fets -> 0..Forever]
      /\ asserted \in [Fets -> Tristate] /\ age \in [Fets -> 0..Forever]
      /\ told \in [Fets -> Tristate]
  BY DEF Inv, TypeOK
<1>1. Switch(fs, level)
  BY DEF Control
<1>2. /\ asserted' = [f \in Fets |-> IF f \in fs THEN level ELSE asserted[f]]
      /\ age' = [f \in Fets |->
                   IF f \in fs /\ level = "off" /\ asserted[f] # "off"
                   THEN 0 ELSE age[f]]
      /\ told' = [f \in Fets |->
                    IF f \in fs /\ sub # "none" THEN level ELSE told[f]]
  BY DEF Control, Publish, RestFromNow
<1>3. /\ fet' \in [Fets -> Level] /\ rest' \in [Fets -> 0..Forever]
      /\ \A f \in Fets :
            /\ f \in fs /\ f \in Installed => fet'[f] = level
            /\ ~(f \in fs /\ f \in Installed) => fet'[f] = fet[f]
            /\ fet[f] = "off" => rest'[f] = rest[f]
            /\ rest'[f] = rest[f] \/ (rest'[f] = 0 /\ fet'[f] = "off")
  BY <1>1, Switched DEF Inv
<1>4. /\ asserted' \in [Fets -> Tristate] /\ age' \in [Fets -> 0..Forever]
      /\ told' \in [Fets -> Tristate]
  BY <1>2, <1>t
<1>5. ASSUME NEW f \in Fets, asserted'[f] # "on"
      PROVE  age'[f] <= rest'[f]
  <2>1. CASE f \in fs /\ level = "off" /\ asserted[f] # "off"
    BY <1>2, <1>3, <2>1
  <2>2. CASE ~(f \in fs /\ level = "off" /\ asserted[f] # "off")
    <3>1. asserted[f] # "on" /\ age'[f] = age[f]
      BY <1>2, <1>5, <2>2
    <3>2. fet[f] = "off"
      BY <3>1, <1>t DEF Inv, Believed, BeliefMatchesBackplate
    <3>3. rest'[f] = rest[f] /\ age[f] <= rest[f]
      BY <1>3, <3>1, <3>2 DEF Inv, Rested
    <3> QED
      BY <3>1, <3>3
  <2> QED
    BY <2>1, <2>2
<1>6. ASSUME NEW f \in Fets
      PROVE  /\ told'[f] = "unknown" \/ told'[f] = asserted'[f]
             /\ sub # "none" /\ told[f] = asserted[f]
                   => told'[f] = asserted'[f]
  <2>1. told[f] = "unknown" \/ told[f] = asserted[f]
    BY DEF Inv, ToldOfAsserted
  <2> QED
    BY <1>2, <2>1, <1>t DEF Inv, ToldOfAsserted
<1>7. ASSUME NEW f \in Fets
      PROVE  /\ f \in fs => /\ asserted'[f] = level
                            /\ f \in Installed => fet'[f] = level
             /\ f \notin fs => asserted'[f] = asserted[f] /\ fet'[f] = fet[f]
             /\ f \notin Installed => fet'[f] = fet[f]
  BY <1>2, <1>3
<1> QED
  BY <1>3, <1>4, <1>5, <1>6, <1>7

\* What one command does: Control on its FET, or nothing but a refusal.
LEMMA Commanded ==
    ASSUME Inv, NEW cmd \in Command, ControlFet(cmd)
    PROVE  /\ \/ /\ cmd.wire \in Fets /\ ~Refused(cmd)
                 /\ Control({cmd.wire}, cmd.connect)
                 /\ unsent' = unsent \ {cmd.wire}
              \/ UNCHANGED <<fet, rest, asserted, age, unsent, told>>
           /\ \E ok \in BOOLEAN : done' = Append(done, ok)
BY DEF ControlFet, NotSent, Refused

\* A process that is down, in front of any backplate.
LEMMA Initially == Init => Inv
<1> SUFFICES ASSUME Init PROVE Inv
  OBVIOUS
<1> USE NbpAssumption, Levels, Ages, Exchanges DEF Init
<1>1. TypeOK
  BY DEF TypeOK, None
<1>2. Believed
  BY DEF Believed, BeliefMatchesBackplate
<1> QED
  BY <1>1, <1>2 DEF Inv, Rested, ToldOfAsserted, SubscriberKnowsFets

\* Every action keeps the invariant.
LEMMA InvStep == Inv /\ [Next]_nbpVars => Inv'
<1> SUFFICES ASSUME Inv, [Next]_nbpVars PROVE Inv'
  OBVIOUS
<1> USE Levels, Ages, Exchanges DEF Inv
<1>a. Fets \subseteq Wires /\ Installed \subseteq Fets /\ MaxReports \in Nat
      /\ None \notin Clients /\ Batches \subseteq Seq(Command)
  BY NbpAssumption DEF None
<1>1. CASE BackplateReset
  <2>1. /\ fet' \in [Fets -> Level] /\ rest' \in [Fets -> 0..Forever]
        /\ \A f \in Fets :
              /\ f \in Installed => fet'[f] = "off"
              /\ f \notin Installed => fet'[f] = fet[f]
              /\ fet[f] = "off" => rest'[f] = rest[f]
    BY <1>1, Switched DEF BackplateReset
  <2>2. reports' > 0 /\ reports' \in 0..MaxReports
        /\ UNCHANGED <<asserted, present, age, unsent, phase, batch, done,
                       serving, ctl, sub, told>>
    BY <1>1, <1>a DEF BackplateReset, TypeOK
  <2>3. TypeOK'
    BY <2>1, <2>2 DEF TypeOK
  <2>4. Believed'
    BY <1>a, <2>1, <2>2 DEF Believed, BeliefMatchesBackplate, TypeOK
  <2>5. Rested'
    <3> SUFFICES ASSUME phase # "down", NEW f \in Fets, asserted[f] # "on"
                 PROVE  age'[f] <= rest'[f]
      BY <2>2 DEF Rested
    <3>1. fet[f] = "off"
      BY <1>a DEF Believed, BeliefMatchesBackplate, TypeOK, Level
    <3> QED
      BY <2>1, <2>2, <3>1 DEF Rested
  <2>6. ToldOfAsserted'
    BY <2>2 DEF ToldOfAsserted, SubscriberKnowsFets
  <2> QED
    BY <2>3, <2>4, <2>5, <2>6
<1>2. CASE Open
  <2>1. /\ fet' \in [Fets -> Level] /\ rest' \in [Fets -> 0..Forever]
        /\ \A f \in Fets :
              /\ f \in Installed => fet'[f] = "off"
              /\ f \notin Installed => fet'[f] = fet[f]
    BY <1>2, Switched DEF Open
  <2>2. /\ phase = "down" /\ phase' = "resetting" /\ unsent' = {}
        /\ reports' \in 1..MaxReports
        /\ asserted' = [f \in Fets |-> "unknown"]
        /\ present' = [f \in Fets |-> "unknown"]
        /\ age' = [f \in Fets |-> 0]
        /\ UNCHANGED <<batch, done, serving, ctl, sub, told>>
    BY <1>2 DEF Open, RestFromNow
  <2>3. TypeOK'
    BY <1>a, <2>1, <2>2 DEF TypeOK
  <2>4. Believed'
    BY <1>a, <2>1, <2>2 DEF Believed, BeliefMatchesBackplate
  <2>5. Rested'
    BY <2>1, <2>2 DEF Rested
  <2>6. ToldOfAsserted'
    BY <2>2 DEF ToldOfAsserted, SubscriberKnowsFets
  <2> QED
    BY <2>3, <2>4, <2>5, <2>6
<1>3. CASE FetPresence
  <2>1. PICK written \in SUBSET Suspect :
            Control(written, "off") /\ unsent' = Suspect \ written
    BY <1>3 DEF FetPresence
  <2>2. /\ phase # "down" /\ phase' = "up"
        /\ reports > 0 /\ reports' = reports - 1
        /\ present' = [f \in Fets |-> IF f \in Installed THEN "on" ELSE "off"]
        /\ UNCHANGED <<batch, done, serving, ctl, sub>>
    BY <1>3 DEF FetPresence, Polling
  <2>3. written \in SUBSET Fets /\ unsent' \subseteq Fets
    BY <2>1 DEF Suspect
  <2>c. /\ fet' \in [Fets -> Level] /\ rest' \in [Fets -> 0..Forever]
        /\ asserted' \in [Fets -> Tristate] /\ age' \in [Fets -> 0..Forever]
        /\ told' \in [Fets -> Tristate]
        /\ \A f \in Fets :
              /\ f \in written => /\ asserted'[f] = "off"
                                  /\ f \in Installed => fet'[f] = "off"
              /\ f \notin written => /\ asserted'[f] = asserted[f]
                                     /\ fet'[f] = fet[f]
              /\ f \notin Installed => fet'[f] = fet[f]
              /\ asserted'[f] # "on" => age'[f] <= rest'[f]
              /\ told'[f] = "unknown" \/ told'[f] = asserted'[f]
              /\ sub # "none" /\ told[f] = asserted[f]
                    => told'[f] = asserted'[f]
    BY <2>1, <2>2, <2>3, Controlled
  <2>4. TypeOK'
    BY <1>a, <2>2, <2>3, <2>c, SMTT(30) DEF TypeOK
  <2>5. Believed'
    <3>1. \A f \in Installed : asserted'[f] = "on" => f \in unsent'
      BY <1>a, <2>1, <2>c DEF Suspect, Believed
    <3> QED
      BY <1>a, <2>2, <2>c, <3>1 DEF Believed, BeliefMatchesBackplate
  <2>6. Rested'
    BY <2>c DEF Rested
  <2>7. ToldOfAsserted'
    <3>1. sub = "none" => \A f \in Fets : told'[f] = "unknown"
      BY <2>1 DEF Control, Publish, ToldOfAsserted
    <3>2. sub = "served" => told' = asserted'
      BY <2>c DEF ToldOfAsserted, SubscriberKnowsFets
    <3> QED
      BY <2>2, <2>c, <3>1, <3>2 DEF ToldOfAsserted, SubscriberKnowsFets
  <2> QED
    BY <2>4, <2>5, <2>6, <2>7
<1>4. ASSUME NEW c \in Clients, HandleReq(c) PROVE Inv'
  <2>1. /\ phase # "down" /\ serving' = c /\ done' = <<>>
        /\ batch' = ctl[c].cmds /\ ctl' = [ctl EXCEPT ![c] = Taken]
        /\ UNCHANGED <<fet, rest, reports, asserted, present, age, unsent,
                       phase, sub, told>>
    BY <1>4 DEF HandleReq, Polling, backplateVars
  <2>2. batch' \in Seq(Command) /\ done' \in Seq(BOOLEAN)
        /\ Len(done') <= Len(batch') /\ ctl' \in [Clients -> Exchange]
    <3>1. ctl[c] \in Exchange
      BY DEF TypeOK
    <3>2. batch' \in Seq(Command)
      BY <2>1, <3>1 DEF Exchange
    <3>3. done' \in Seq(BOOLEAN) /\ Len(done') = 0
      BY <2>1
    <3> QED
      BY <2>1, <3>2, <3>3 DEF TypeOK
  <2>3. TypeOK'
    BY <2>1, <2>2 DEF TypeOK
  <2> QED
    BY <2>1, <2>3 DEF Believed, BeliefMatchesBackplate, Rested,
                      ToldOfAsserted, SubscriberKnowsFets
<1>5. CASE ControlWire
  <2> DEFINE cmd == batch[Len(done) + 1]
  <2>1. /\ serving # None /\ Len(done) < Len(batch) /\ ControlFet(cmd)
        /\ UNCHANGED <<reports, present, phase, batch, serving, ctl, sub>>
    BY <1>5 DEF ControlWire
  <2>2. cmd \in Command /\ phase # "down"
    BY <2>1 DEF TypeOK, ToldOfAsserted
  <2> HIDE DEF cmd
  <2>3. done' \in Seq(BOOLEAN) /\ Len(done') <= Len(batch')
    <3>1. PICK ok \in BOOLEAN : done' = Append(done, ok)
      BY <2>1, <2>2, Commanded
    <3>2. done \in Seq(BOOLEAN) /\ Len(done) \in Nat /\ Len(batch) \in Nat
      BY DEF TypeOK
    <3> QED
      BY <2>1, <3>1, <3>2
  <2>4. CASE UNCHANGED <<fet, rest, asserted, age, unsent, told>>
    <3>1. TypeOK'
      BY <2>1, <2>3, <2>4 DEF TypeOK
    <3> QED
      BY <2>1, <2>4, <3>1 DEF Believed, BeliefMatchesBackplate, Rested,
                              ToldOfAsserted, SubscriberKnowsFets
  <2>5. CASE /\ cmd.wire \in Fets /\ Control({cmd.wire}, cmd.connect)
             /\ unsent' = unsent \ {cmd.wire}
    <3> DEFINE fs == {cmd.wire}
               level == cmd.connect
    <3>1. fs \in SUBSET Fets /\ level \in Level /\ Control(fs, level)
          /\ unsent' = unsent \ fs
      BY <2>2, <2>5 DEF Command
    <3> HIDE DEF fs, level
    <3>c. /\ fet' \in [Fets -> Level] /\ rest' \in [Fets -> 0..Forever]
          /\ asserted' \in [Fets -> Tristate] /\ age' \in [Fets -> 0..Forever]
          /\ told' \in [Fets -> Tristate]
          /\ \A f \in Fets :
                /\ f \in fs => /\ asserted'[f] = level
                               /\ f \in Installed => fet'[f] = level
                /\ f \notin fs => /\ asserted'[f] = asserted[f]
                                  /\ fet'[f] = fet[f]
                /\ f \notin Installed => fet'[f] = fet[f]
                /\ asserted'[f] # "on" => age'[f] <= rest'[f]
                /\ told'[f] = "unknown" \/ told'[f] = asserted'[f]
                /\ sub # "none" /\ told[f] = asserted[f]
                      => told'[f] = asserted'[f]
      BY <2>2, <3>1, Controlled
    <3>2. TypeOK'
      BY <2>1, <2>3, <3>1, <3>c DEF TypeOK
    <3>3. Believed'
      <4>1. ASSUME NEW f \in Installed
            PROVE  /\ fet'[f] = "on" => asserted'[f] = "on"
                   /\ asserted'[f] = "on" /\ fet'[f] = "off"
                         => reports' > 0 \/ f \in unsent'
        <5>1. CASE f \in fs
          BY <1>a, <3>c, <5>1
        <5>2. CASE f \notin fs
          BY <1>a, <2>1, <2>2, <3>1, <3>c, <5>2
             DEF Believed, BeliefMatchesBackplate
        <5> QED
          BY <5>1, <5>2
      <4> QED
        BY <1>a, <2>1, <3>c, <4>1 DEF Believed, BeliefMatchesBackplate
    <3>4. Rested'
      BY <3>c DEF Rested
    <3>5. ToldOfAsserted'
      <4>1. sub = "none" => \A f \in Fets : told'[f] = "unknown"
        BY <3>1 DEF Control, Publish, ToldOfAsserted
      <4>2. sub = "served" => told' = asserted'
        BY <3>c DEF ToldOfAsserted, SubscriberKnowsFets
      <4> QED
        BY <2>1, <3>c, <4>1, <4>2 DEF ToldOfAsserted, SubscriberKnowsFets
    <3> QED
      BY <3>2, <3>3, <3>4, <3>5
  <2> QED
    BY <2>1, <2>2, <2>4, <2>5, Commanded
<1>6. CASE SendReply
  <2>1. /\ serving # None /\ serving' = None /\ batch' = <<>> /\ done' = <<>>
        /\ ctl' = [ctl EXCEPT ![serving] =
                     IF @.st = "taken" THEN Replied(done) ELSE @]
        /\ UNCHANGED <<fet, rest, reports, asserted, present, age, unsent,
                       phase, sub, told>>
    BY <1>6 DEF SendReply, EndBatch, backplateVars
  <2>2. ctl' \in [Clients -> Exchange]
    BY <2>1 DEF TypeOK
  <2>3. TypeOK'
    BY <2>1, <2>2, SMTT(30) DEF TypeOK
  <2> QED
    BY <2>1, <2>3 DEF Believed, BeliefMatchesBackplate, Rested,
                      ToldOfAsserted, SubscriberKnowsFets
<1>7. CASE GotNewSubscriber
  <2>1. /\ phase # "down" /\ sub = "pending" /\ sub' = "served"
        /\ told' = [f \in Fets |->
                      IF asserted[f] = "unknown" THEN told[f] ELSE asserted[f]]
        /\ UNCHANGED <<fet, rest, reports, asserted, present, age, unsent,
                       phase, batch, done, serving, ctl>>
    BY <1>7 DEF GotNewSubscriber, Polling, backplateVars
  <2>2. told' = asserted
    <3>1. \A f \in Fets : told'[f] = asserted[f]
      BY <2>1 DEF ToldOfAsserted
    <3> QED
      BY <2>1, <3>1 DEF TypeOK
  <2>3. TypeOK'
    BY <2>1, <2>2 DEF TypeOK
  <2> QED
    BY <2>1, <2>2, <2>3 DEF Believed, BeliefMatchesBackplate, Rested,
                            ToldOfAsserted, SubscriberKnowsFets
<1>8. CASE Crash
  <2>1. /\ phase' = "down" /\ sub' = "none"
        /\ serving' = None /\ batch' = <<>> /\ done' = <<>> /\ unsent' = {}
        /\ told' = [f \in Fets |-> "unknown"]
        /\ asserted' = [f \in Fets |-> "unknown"]
        /\ present' = [f \in Fets |-> "unknown"]
        /\ age' = [f \in Fets |-> 0]
        /\ UNCHANGED <<fet, rest, reports>>
    BY <1>8 DEF Crash, backplateVars
  <2>2. ctl' \in [Clients -> Exchange]
    BY <1>8 DEF Crash, TypeOK
  <2>3. TypeOK'
    BY <2>1, <2>2 DEF TypeOK
  <2> QED
    BY <1>a, <2>1, <2>3 DEF Believed, BeliefMatchesBackplate, Rested,
                            ToldOfAsserted, SubscriberKnowsFets
<1>9. ASSUME NEW c \in Clients, Client(c) PROVE Inv'
  <2>1. UNCHANGED <<fet, rest, reports, asserted, present, age, unsent, phase,
                    batch, done, serving, sub, told>>
    BY <1>9 DEF Client, backplateVars
  <2>2. ctl' \in [Clients -> Exchange]
    <3>1. \A e \in Exchange : [ctl EXCEPT ![c] = e] \in [Clients -> Exchange]
      BY DEF TypeOK
    <3>2. CASE \E cmds \in Batches : ctl' = [ctl EXCEPT ![c] = Sent(cmds)]
      BY <1>a, <3>1, <3>2
    <3>3. CASE ctl' = [ctl EXCEPT ![c] = Idle]
      BY <3>1, <3>3
    <3> QED
      BY <1>9, <3>2, <3>3 DEF Client
  <2>3. TypeOK'
    BY <2>1, <2>2 DEF TypeOK
  <2> QED
    BY <2>1, <2>3 DEF Believed, BeliefMatchesBackplate, Rested,
                      ToldOfAsserted, SubscriberKnowsFets
<1>10. CASE Subscribe
  BY <1>10 DEF Subscribe, backplateVars, TypeOK, Believed,
               BeliefMatchesBackplate, Rested, ToldOfAsserted,
               SubscriberKnowsFets
<1>11. CASE Tick
  <2>1. /\ rest' = [f \in Fets |-> Older(rest[f])]
        /\ age' = [f \in Fets |-> Older(age[f])]
        /\ UNCHANGED <<fet, reports, asserted, present, unsent, phase,
                       batch, done, serving, ctl, sub, told>>
    BY <1>11 DEF Tick
  <2>2. TypeOK'
    BY <2>1 DEF TypeOK
  <2>3. Rested'
    BY <2>1 DEF Rested, TypeOK
  <2> QED
    BY <2>1, <2>2, <2>3 DEF Believed, BeliefMatchesBackplate,
                            ToldOfAsserted, SubscriberKnowsFets
<1>12. CASE UNCHANGED nbpVars
  BY <1>12 DEF nbpVars, TypeOK, Believed, BeliefMatchesBackplate, Rested,
               ToldOfAsserted, SubscriberKnowsFets
<1> QED
  BY <1>1, <1>2, <1>3, <1>4, <1>5, <1>6, <1>7, <1>8, <1>9, <1>10, <1>11,
     <1>12 DEF Next

\* The invariant, which the theorems below are parts of, holds.
THEOREM InvHolds == Spec => []Inv
BY Initially, InvStep, PTL DEF Spec
----------------------------------------------------------------------------
\* Every variable of nbp and of its backplate has its type.
THEOREM NbpTypes == Spec => []TypeOK
<1>1. Inv => TypeOK
  BY DEF Inv
<1> QED
  BY <1>1, InvHolds, PTL

\* A FET that nbp does not hold to be on does not conduct, and one it holds to be
\* on does, but while a report of a reset is on its way or a disconnection could
\* not be written (nest.c:153-160, 260-266).
THEOREM BeliefSafety == Spec => []BeliefMatchesBackplate
<1>1. Inv => BeliefMatchesBackplate
  BY DEF Inv, Believed
<1> QED
  BY <1>1, InvHolds, PTL

\* A subscriber that has its snapshot knows every FET as nbp does (main.c).
THEOREM SubscriberSafety == Spec => []SubscriberKnowsFets
<1>1. Inv => SubscriberKnowsFets
  BY DEF Inv, ToldOfAsserted
<1> QED
  BY <1>1, InvHolds, PTL

\* Only a command turns a FET on, and only one that nbp counts as rested: so no
\* FET turns on before it has rested, whoever turned it off, except one that is
\* held to be on although the backplate has opened it in a reset, the report of
\* which is unread or whose disconnection was not written (nest.c:90-96, 276-285).
THEOREM RestSafety == Spec => RestBeforeConnect
<1>1. Inv /\ [Next]_nbpVars =>
        [\A f \in Fets :
            fet[f] = "off" /\ fet'[f] = "on"
                => rest[f] >= ShutoffDelay \/ OpenUnknown(f)]_nbpVars
  <2> SUFFICES ASSUME Inv, Next, NEW f \in Fets,
                      fet[f] = "off", fet'[f] = "on", ~OpenUnknown(f)
               PROVE  rest[f] >= ShutoffDelay
    OBVIOUS
  <2>t. TypeOK
    BY DEF Inv
  <2>1. CASE ControlWire
    <3> DEFINE cmd == batch[Len(done) + 1]
    <3>1. ControlFet(cmd) /\ cmd \in Command /\ phase # "down"
      BY <2>1 DEF ControlWire, Inv, TypeOK, ToldOfAsserted
    <3> HIDE DEF cmd
    <3>2. cmd.wire \in Fets /\ ~Refused(cmd) /\ Switch({cmd.wire}, cmd.connect)
      BY <3>1, Commanded DEF Control
    <3>3. cmd.wire = f /\ cmd.connect = "on"
      <4>1. fet'[f] = IF f = cmd.wire /\ f \in Installed THEN cmd.connect
                                                       ELSE fet[f]
        BY <3>2 DEF Switch
      <4> QED
        BY <4>1
    <3>4. age[f] >= ShutoffDelay
      BY <3>2, <3>3, Ages DEF Refused, LockedOut, Inv, TypeOK
    <3>5. asserted[f] # "on"
      <4>1. f \in Installed
        BY <3>2 DEF Switch
      <4> QED
        BY <3>1, <4>1 DEF Inv, Believed, BeliefMatchesBackplate, OpenUnknown
    <3>6. age[f] <= rest[f]
      BY <3>1, <3>5 DEF Inv, Rested
    <3> QED
      BY <3>4, <3>6, Ages DEF Inv, TypeOK
  <2>2. CASE BackplateReset \/ Open \/ FetPresence
    <3>1. PICK fs \in SUBSET Fets : Switch(fs, "off")
      BY <2>2 DEF BackplateReset, Open, FetPresence, Control, Suspect
    <3>2. fet'[f] = "off" \/ fet'[f] = fet[f]
      BY <3>1 DEF Switch
    <3> QED
      BY <3>2
  <2>3. CASE UNCHANGED fet
    BY <2>3
  <2> QED
    BY <2>1, <2>2, <2>3
       DEF Next, HandleReq, SendReply, GotNewSubscriber, Crash, Client,
           Subscribe, Tick, backplateVars
<1> QED
  BY <1>1, InvHolds, PTL DEF Spec, RestBeforeConnect
----------------------------------------------------------------------------
(* The serial line.                                                        *)


\* The bytes of `s' from `m' to `n' are those of `t' from `p' to `q'.
SamePieces(s, m, n, t, p, q) ==
    /\ 1 <= m /\ m <= n + 1 /\ n <= Len(s)
    /\ 1 <= p /\ q <= Len(t)
    /\ n - m = q - p
    /\ \A i \in 0..n - m : s[m + i] = t[p + i]

\* The `n' bytes of `s' after the first `k' are those of `t' after the first `l'.
SameBytes(s, k, t, l, n) ==
    /\ k + n <= Len(s) /\ l + n <= Len(t)
    /\ \A i \in 1..n : s[k + i] = t[l + i]

\* No frame begins at `k', whatever may still come in.
NoFrameAt(s, k) ==
    \/ s[k + 1] # Header[1]
    \/ /\ Len(s) >= k + Overhead
       /\ HasHeader(s, k) => Len(s) >= k + FrameSize(s, k) /\ ~Checks(s, k)

\* The byte at `k' lies within a frame that was found.
Covered(k) ==
    \E j \in DOMAIN got :
        got[j].at <= k /\ k < got[j].at + Overhead + Len(got[j].data)

\* The types, and room that is none or has been made.
FrameTypes ==
    /\ sent \in Seq(Messages) /\ faults \in Nat
    /\ wire \in Seq(Octet) /\ rdbuf \in Seq(Octet) /\ received \in Seq(Octet)
    /\ pc \in {"poll", "parse"}
    /\ alloc \in Nat /\ (alloc = 0 \/ alloc >= 16)
    /\ pos \in 0..Len(received)
    /\ got \in Seq([at : Nat, type : Word16, data : Seq(Octet)])

\* The buffer is what has been read and not been dealt with, and there is room
\* for it.
Buffered ==
    /\ Len(received) = pos + Len(rdbuf)
    /\ SameBytes(rdbuf, 0, received, pos, Len(rdbuf))
    /\ Len(rdbuf) <= alloc

\* What is left when the loop has ended is less than a frame.
Waiting ==
    pc = "poll" => \/ Len(rdbuf) < Overhead
                   \/ HasHeader(rdbuf, 0) /\ Len(rdbuf) < FrameSize(rdbuf, 0)

\* What has been dealt with lies within frames that were found, or is none.
Passed == \A k \in 0..pos - 1 : Covered(k) \/ NoFrameAt(received, k)

\* On a line without faults what has been read and what is on its way is one frame
\* after the other, and nbp is at the beginning of one of them.
FrameAt(s, k, m) == SameBytes(Encoded(m), 0, s, k, Overhead + Len(m.data))

InFrames(start) ==
    /\ start \in [1..Len(sent) + 1 -> Nat]
    /\ \A j, k \in 1..Len(sent) + 1 : j < k => start[j] + Overhead <= start[k]
    /\ \A k \in 1..Len(sent) :
          /\ start[k + 1] = start[k] + Overhead + Len(sent[k].data)
          /\ FrameAt(received \o wire, start[k], sent[k])
    /\ start[Len(sent) + 1] = Len(received) + Len(wire)
    /\ start[Len(got) + 1] = pos

\* What was found is what was sent, from the beginning.
InStep ==
    faults = 0 =>
        /\ Len(got) <= Len(sent)
        /\ \A k \in DOMAIN got : sent[k] = [type |-> got[k].type, data |-> got[k].data]
        /\ \E start \in [1..Len(sent) + 1 -> Nat] : InFrames(start)

\* The inductive invariant of the line.
FrameInv == FrameTypes /\ Buffered /\ Waiting /\ Passed /\ InStep
----------------------------------------------------------------------------
\* The numbers of the frame.
LEMMA Sizes ==
    /\ Overhead = 9 /\ ReadSize = 16
    /\ Header \in Seq(Octet) /\ Len(Header) = 3
    /\ Header[1] = 213 /\ Header[2] = 170 /\ Header[3] = 150
<1>1. 2^8 = 256
  OBVIOUS
<1> QED
  BY <1>1 DEF Overhead, ReadSize, Header, Octet

\* The two bytes of a number.
LEMMA Words ==
    /\ \A n \in Octet : n \in Nat
    /\ \A n \in Word16 : n \in Nat /\ n < 2^16
    /\ \A a, b \in Octet : a + 256 * b \in Word16
    /\ \A n \in Nat : Low(n) \in Octet /\ High(n) \in Octet
    /\ \A n \in Word16 : Low(n) + 256 * High(n) = n
<1>1. 2^8 = 256 /\ 2^16 = 65536
  OBVIOUS
<1>2. \A n \in Octet : n \in Nat /\ n < 256
  BY <1>1, SMT DEF Octet
<1>3. \A n \in Word16 : n \in Nat /\ n < 65536
  BY <1>1, SMT DEF Word16
<1>4. \A a, b \in Octet : a + 256 * b \in Word16
  BY <1>1, SMT DEF Octet, Word16
<1>5. \A n \in Nat : Low(n) \in Octet /\ High(n) \in Octet
  BY <1>1, SMT DEF Octet, Low, High
<1>6. \A n \in Word16 : Low(n) + 256 * High(n) = n
  BY <1>3, SMT DEF Low, High
<1> QED
  BY <1>1, <1>2, <1>3, <1>4, <1>5, <1>6, SMT

\* The order of the natural numbers.
Less == {ss \in Nat \X Nat : ss[1] < ss[2]}

\* A set of numbers has a least one.
LEMMA Least ==
    ASSUME NEW S \in SUBSET Nat, S # {}
    PROVE  /\ (CHOOSE k \in S : \A j \in S : k <= j) \in S
           /\ \A j \in S : (CHOOSE k \in S : \A i \in S : k <= i) <= j
<1>1. IsWellFoundedOn(Less, Nat)
  BY NatLessThanWellFounded DEF OpToRel, Less
<1>2. PICK k \in S : \A j \in S : <<j, k>> \notin Less
  BY <1>1, WFMin
<1>3. \A j \in S : k <= j
  <2> SUFFICES ASSUME NEW j \in S
               PROVE  k <= j
    OBVIOUS
  <2>1. j \in Nat /\ k \in Nat /\ <<j, k>> \notin Less
    BY <1>2
  <2>2. j < k => <<j, k>> \in Less
    BY <2>1 DEF Less
  <2> QED
    BY <2>1, <2>2
<1> QED
  BY <1>3

\* Powers of two, by name.
LEMMA Powers ==
    \A k \in 1..16 : 2^k \in Nat /\ 2^k >= 2
<1>1. /\ 2^1 \in Nat /\ 2^1 >= 2 /\ 2^2 \in Nat /\ 2^2 >= 2 /\ 2^3 \in Nat /\ 2^3 >= 2
      /\ 2^4 \in Nat /\ 2^4 >= 2 /\ 2^5 \in Nat /\ 2^5 >= 2 /\ 2^6 \in Nat /\ 2^6 >= 2
      /\ 2^7 \in Nat /\ 2^7 >= 2 /\ 2^8 \in Nat /\ 2^8 >= 2 /\ 2^9 \in Nat /\ 2^9 >= 2
      /\ 2^10 \in Nat /\ 2^10 >= 2 /\ 2^11 \in Nat /\ 2^11 >= 2 /\ 2^12 \in Nat /\ 2^12 >= 2
      /\ 2^13 \in Nat /\ 2^13 >= 2 /\ 2^14 \in Nat /\ 2^14 >= 2 /\ 2^15 \in Nat /\ 2^15 >= 2
      /\ 2^16 \in Nat /\ 2^16 >= 2
  BY SMT
<1> SUFFICES ASSUME NEW k \in 1..16
             PROVE  2^k \in Nat /\ 2^k >= 2
  OBVIOUS
<1>2. \/ k = 1 \/ k = 2 \/ k = 3 \/ k = 4 \/ k = 5 \/ k = 6 \/ k = 7 \/ k = 8
      \/ k = 9 \/ k = 10 \/ k = 11 \/ k = 12 \/ k = 13 \/ k = 14 \/ k = 15 \/ k = 16
  OBVIOUS
<1> QED
  BY <1>1, <1>2, Zenon

\* Room for a whole frame and another read is made by the doublings that are
\* modelled.
LEMMA RoomIsMade ==
    ASSUME NEW a \in Nat, a = 0 \/ a >= 16, NEW need \in Nat, need <= 2^16 + 32
    PROVE  /\ Extended(a, need) \in Nat
           /\ Extended(a, need) = 0 \/ Extended(a, need) >= 16
           /\ Extended(a, need) >= need
<1> DEFINE base == IF a = 0 THEN 16 ELSE a
           enough == { k \in 1..16 : need <= base * 2^k }
           least == CHOOSE k \in enough : \A j \in enough : k <= j
<1>1. CASE need <= a
  BY <1>1 DEF Extended
<1>2. CASE need > a
  <2>1. base \in Nat /\ base >= 16
    OBVIOUS
  <2>2. 16 \in enough
    <3>1. 2^16 = 65536
      OBVIOUS
    <3>2. need <= base * 2^16
      BY <2>1, <3>1, SMT
    <3> QED
      BY <3>2
  <2>3. least \in enough
    <3> HIDE DEF enough
    <3>1. enough \in SUBSET Nat
      BY DEF enough
    <3> QED
      BY <2>2, <3>1, Least
  <2>4. Extended(a, need) = base * 2^least
    BY <1>2 DEF Extended
  <2> HIDE DEF least, base
  <2>5. PICK p \in Nat : p = 2^least /\ p >= 2
    BY <2>3, Powers DEF enough
  <2>6. base * p \in Nat /\ base * p >= base
    BY <2>1, <2>5
  <2> QED
    BY <2>1, <2>3, <2>4, <2>5, <2>6
<1> QED
  BY <1>1, <1>2

\* Pieces of two sequences are the same if their bytes are.
LEMMA PiecesAreSame ==
    ASSUME NEW s \in Seq(Octet), NEW t \in Seq(Octet),
           NEW m \in Nat, NEW n \in Nat, NEW p \in Nat, NEW q \in Nat,
           SamePieces(s, m, n, t, p, q)
    PROVE  /\ SubSeq(s, m, n) = SubSeq(t, p, q)
           /\ SubSeq(s, m, n) \in Seq(Octet)
           /\ Len(SubSeq(s, m, n)) = n - m + 1
<1> USE DEF SamePieces
<1>1. /\ SubSeq(s, m, n) \in Seq(Octet)
      /\ Len(SubSeq(s, m, n)) = n - m + 1
      /\ \A i \in 1..n - m + 1 : SubSeq(s, m, n)[i] = s[m + i - 1]
  <2>1. \A i \in m..n : s[i] \in Octet
    BY ElementOfSeq
  <2> QED
    BY <2>1, SubSeqProperties
<1>2. /\ SubSeq(t, p, q) \in Seq(Octet)
      /\ Len(SubSeq(t, p, q)) = n - m + 1
      /\ \A i \in 1..n - m + 1 : SubSeq(t, p, q)[i] = t[p + i - 1]
  <2>1. \A i \in p..q : t[i] \in Octet
    BY ElementOfSeq
  <2> QED
    BY <2>1, SubSeqProperties
<1>3. \A i \in 1..n - m + 1 : s[m + i - 1] = t[p + i - 1]
  <2> SUFFICES ASSUME NEW i \in 1..n - m + 1
               PROVE  s[m + i - 1] = t[p + i - 1]
    OBVIOUS
  <2>1. i - 1 \in 0..n - m
    OBVIOUS
  <2>2. s[m + (i - 1)] = t[p + (i - 1)]
    BY <2>1
  <2>3. m + (i - 1) = m + i - 1 /\ p + (i - 1) = p + i - 1
    OBVIOUS
  <2> QED
    BY <2>2, <2>3
<1> DEFINE u == SubSeq(s, m, n)
           v == SubSeq(t, p, q)
<1> HIDE DEF u, v
<1>4. u = v
  <2>1. /\ u \in Seq(Octet) /\ v \in Seq(Octet) /\ Len(u) = n - m + 1 /\ Len(v) = n - m + 1
        /\ \A i \in 1..n - m + 1 : u[i] = v[i]
    BY <1>1, <1>2, <1>3 DEF u, v
  <2> QED
    BY <2>1, SeqEqual
<1> QED
  BY <1>1, <1>4 DEF u, v

\* What a frame is depends on its bytes, not on where they are.
LEMMA SameFrame ==
    ASSUME NEW s \in Seq(Octet), NEW t \in Seq(Octet),
           NEW k \in Nat, NEW l \in Nat, NEW n \in Nat,
           9 <= n, SameBytes(s, k, t, l, n)
    PROVE  /\ HasHeader(s, k) <=> HasHeader(t, l)
           /\ DataSize(s, k) \in Word16
           /\ DataSize(s, k) = DataSize(t, l)
           /\ FrameSize(s, k) = 9 + DataSize(s, k)
           /\ FrameSize(s, k) = FrameSize(t, l)
           /\ FrameSize(s, k) <= n =>
                 /\ Checks(s, k) <=> Checks(t, l)
                 /\ DataAt(s, k) = DataAt(t, l)
                 /\ DataAt(s, k) \in Seq(Octet)
                 /\ Len(DataAt(s, k)) = DataSize(s, k)
<1>1. ASSUME NEW j \in Nat, j < n
      PROVE  /\ Byte(s, k + j) = Byte(t, l + j)
             /\ Byte(s, k + j) \in Octet
  <2>1. /\ j + 1 \in 1..n /\ k + (j + 1) \in 1..Len(s)
        /\ (k + j) + 1 = k + (j + 1) /\ (l + j) + 1 = l + (j + 1)
    BY <1>1 DEF SameBytes
  <2>2. s[k + (j + 1)] = t[l + (j + 1)] /\ s[k + (j + 1)] \in Octet
    BY <2>1, ElementOfSeq DEF SameBytes
  <2> QED
    BY <2>1, <2>2 DEF Byte
<1>2. HasHeader(s, k) <=> HasHeader(t, l)
  <2>1. ASSUME NEW j \in 1..3
        PROVE  Byte(s, k + j - 1) = Byte(t, l + j - 1)
    <3>1. j \in Int /\ j >= 1 /\ j <= 3
      OBVIOUS
    <3>2. k + j - 1 = k + (j - 1) /\ l + j - 1 = l + (j - 1)
      BY <3>1
    <3>3. j - 1 \in Nat /\ j - 1 < n
      BY <3>1
    <3>4. Byte(s, k + (j - 1)) = Byte(t, l + (j - 1))
      BY <1>1, <3>3
    <3> QED
      BY <3>2, <3>4
  <2> QED
    BY <2>1 DEF HasHeader
<1>3. DataSize(s, k) \in Word16 /\ DataSize(s, k) = DataSize(t, l)
  <2>1. /\ Byte(s, k + 5) = Byte(t, l + 5) /\ Byte(s, k + 5) \in Octet
        /\ Byte(s, k + 6) = Byte(t, l + 6) /\ Byte(s, k + 6) \in Octet
    BY <1>1
  <2>2. (k + 5) + 1 = k + 6 /\ (l + 5) + 1 = l + 6
    OBVIOUS
  <2>3. /\ DataSize(s, k) = Byte(s, k + 5) + 256 * Byte(s, k + 6)
        /\ DataSize(t, l) = Byte(t, l + 5) + 256 * Byte(t, l + 6)
    BY <2>2 DEF DataSize, Word
  <2> QED
    BY <2>1, <2>3, Words
<1> DEFINE d == DataSize(s, k)
<1>4. FrameSize(s, k) = 9 + d /\ FrameSize(t, l) = 9 + d
  BY <1>3, Sizes DEF FrameSize
<1>5. ASSUME 9 + d <= n
      PROVE  /\ Checks(s, k) <=> Checks(t, l)
             /\ DataAt(s, k) = DataAt(t, l)
             /\ DataAt(s, k) \in Seq(Octet)
             /\ Len(DataAt(s, k)) = DataSize(s, k)
  <2> HIDE DEF d
  <2>0. d \in Nat
    BY <1>3, Words DEF d
  <2>1. ASSUME NEW a \in {4, 8}
        PROVE  /\ SubSeq(s, k + a, k + 7 + d) = SubSeq(t, l + a, l + 7 + d)
               /\ SubSeq(s, k + a, k + 7 + d) \in Seq(Octet)
               /\ Len(SubSeq(s, k + a, k + 7 + d)) = 8 + d - a
    <3>1. SamePieces(s, k + a, k + 7 + d, t, l + a, l + 7 + d)
      <4>0. /\ k + n <= Len(s) /\ l + n <= Len(t) /\ Len(s) \in Nat /\ Len(t) \in Nat
            /\ k \in Nat /\ l \in Nat /\ n \in Nat /\ a \in {4, 8}
        BY LenProperties DEF SameBytes
      <4>1. /\ 1 <= k + a /\ k + a <= k + 7 + d + 1 /\ k + 7 + d <= Len(s)
            /\ 1 <= l + a /\ l + 7 + d <= Len(t)
            /\ (k + 7 + d) - (k + a) = 7 + d - a
            /\ (l + 7 + d) - (l + a) = 7 + d - a
        BY ONLY <1>5, <2>0, <4>0
      <4>2. ASSUME NEW i \in 0..7 + d - a
            PROVE  s[k + a + i] = t[l + a + i]
        <5>1. a + i \in 1..n /\ k + a + i = k + (a + i) /\ l + a + i = l + (a + i)
          BY <1>5, <2>0
        <5>2. s[k + (a + i)] = t[l + (a + i)]
          BY <5>1 DEF SameBytes
        <5> QED
          BY <5>1, <5>2
      <4> QED
        BY <4>1, <4>2 DEF SamePieces
    <3>2. /\ k + a \in Nat /\ k + 7 + d \in Nat /\ l + a \in Nat /\ l + 7 + d \in Nat
          /\ (k + 7 + d) - (k + a) + 1 = 8 + d - a
      BY <2>0
    <3> DEFINE m == k + a
               x == k + 7 + d
               p == l + a
               y == l + 7 + d
    <3>3. /\ m \in Nat /\ x \in Nat /\ p \in Nat /\ y \in Nat
          /\ SamePieces(s, m, x, t, p, y)
      BY <3>1, <3>2
    <3> HIDE DEF m, x, p, y
    <3>4. /\ SubSeq(s, m, x) = SubSeq(t, p, y)
          /\ SubSeq(s, m, x) \in Seq(Octet)
          /\ Len(SubSeq(s, m, x)) = x - m + 1
      BY <3>3, PiecesAreSame, SMTT(40)
    <3> QED
      BY <3>2, <3>4 DEF m, x, p, y
  <2>2. Word(s, k + 7 + d) = Word(t, l + 7 + d)
    <3>1. /\ k + 7 + d = k + (7 + d) /\ l + 7 + d = l + (7 + d)
          /\ (k + (7 + d)) + 1 = k + (8 + d) /\ (l + (7 + d)) + 1 = l + (8 + d)
          /\ 7 + d \in Nat /\ 7 + d < n /\ 8 + d \in Nat /\ 8 + d < n
      BY <1>5, <2>0
    <3>2. /\ Byte(s, k + (7 + d)) = Byte(t, l + (7 + d))
          /\ Byte(s, k + (8 + d)) = Byte(t, l + (8 + d))
      BY <1>1, <3>1
    <3> QED
      BY <3>1, <3>2 DEF Word
  <2>3. /\ SubSeq(s, k + 4, k + 7 + d) = SubSeq(t, l + 4, l + 7 + d)
        /\ SubSeq(s, k + 8, k + 7 + d) = SubSeq(t, l + 8, l + 7 + d)
        /\ SubSeq(s, k + 8, k + 7 + d) \in Seq(Octet)
        /\ Len(SubSeq(s, k + 8, k + 7 + d)) = 8 + d - 8
    BY <2>1
  <2>4. Checks(s, k) <=> Checks(t, l)
    BY <1>3, <2>2, <2>3 DEF Checks, d
  <2>5. /\ DataAt(s, k) = SubSeq(s, k + 8, k + 7 + d)
        /\ DataAt(t, l) = SubSeq(t, l + 8, l + 7 + d)
    BY <1>3 DEF DataAt, d
  <2>6. 8 + d - 8 = d
    BY <2>0
  <2> QED
    BY <2>3, <2>4, <2>5, <2>6 DEF d
<1> QED
  BY <1>2, <1>3, <1>4, <1>5

\* Where no frame is, none will be when more comes in, wherever the bytes are.
LEMMA NoFrameMoves ==
    ASSUME NEW s \in Seq(Octet), NEW t \in Seq(Octet),
           NEW k \in Nat, NEW l \in Nat, NEW n \in Nat,
           n >= 1, n = Len(s) - k, SameBytes(s, k, t, l, n), NoFrameAt(s, k)
    PROVE  NoFrameAt(t, l)
<1>0. k + n = Len(s) /\ l + n <= Len(t)
  BY DEF SameBytes
<1>1. CASE s[k + 1] # Header[1]
  <2>1. s[k + 1] = t[l + 1]
    BY DEF SameBytes
  <2> QED
    BY <1>1, <2>1 DEF NoFrameAt
<1>2. CASE /\ Len(s) >= k + Overhead
           /\ HasHeader(s, k) => Len(s) >= k + FrameSize(s, k) /\ ~Checks(s, k)
  <2>1. 9 <= n /\ k + n <= Len(s) /\ Len(t) >= l + 9 /\ Overhead = 9
    BY <1>0, <1>2, Sizes
  <2>2. /\ HasHeader(s, k) <=> HasHeader(t, l)
        /\ DataSize(s, k) \in Word16
        /\ FrameSize(s, k) = 9 + DataSize(s, k)
        /\ FrameSize(s, k) = FrameSize(t, l)
        /\ FrameSize(s, k) <= n => (Checks(s, k) <=> Checks(t, l))
    BY <1>0, <2>1, SameFrame
  <2>3. FrameSize(s, k) \in Nat
    <3>1. DataSize(s, k) \in Nat
      BY <2>2, Words
    <3> QED
      BY <2>2, <3>1
  <2>4. ASSUME HasHeader(t, l)
        PROVE  Len(t) >= l + FrameSize(t, l) /\ ~Checks(t, l)
    <3>1. Len(s) >= k + FrameSize(s, k) /\ ~Checks(s, k)
      BY <1>2, <2>2, <2>4
    <3>2. FrameSize(s, k) <= n
      BY <1>0, <2>3, <3>1
    <3>3. Len(t) >= l + FrameSize(s, k)
      BY <1>0, <2>3, <3>2
    <3> QED
      BY <2>2, <3>1, <3>2, <3>3
  <2> QED
    BY <2>1, <2>4 DEF NoFrameAt
<1> QED
  BY <1>1, <1>2 DEF NoFrameAt
----------------------------------------------------------------------------
\* What is added at the end leaves the bytes before it.
LEMMA Prefix ==
    ASSUME NEW s \in Seq(Octet), NEW w \in Seq(Octet), NEW k \in Nat, k <= Len(s)
    PROVE  SameBytes(s, k, s \o w, k, Len(s) - k)
BY DEF SameBytes

\* The bytes of two sequences, one after the other.
LEMMA Joined ==
    ASSUME NEW s \in Seq(Octet), NEW w \in Seq(Octet)
    PROVE  /\ s \o w \in Seq(Octet)
           /\ Len(s \o w) = Len(s) + Len(w)
           /\ \A i \in 1..Len(s) : (s \o w)[i] = s[i]
           /\ \A i \in 1..Len(w) : (s \o w)[Len(s) + i] = w[i]
<1>1. Len(s) \in Nat /\ Len(w) \in Nat
  OBVIOUS
<1>2. ASSUME NEW i \in 1..Len(w)
      PROVE  (s \o w)[Len(s) + i] = w[i]
  <2>1. /\ Len(s) + i \in 1..Len(s) + Len(w) /\ ~(Len(s) + i <= Len(s))
        /\ (Len(s) + i) - Len(s) = i
    BY <1>1
  <2>2. \A j \in 1..Len(s) + Len(w) :
            (s \o w)[j] = IF j <= Len(s) THEN s[j] ELSE w[j - Len(s)]
    BY ConcatProperties
  <2> QED
    BY <2>1, <2>2
<1> QED
  BY <1>2

\* What follows a piece of a sequence is the piece's rest.
LEMMA Rest ==
    ASSUME NEW s \in Seq(Octet), NEW c \in Nat, c <= Len(s)
    PROVE  /\ SubSeq(s, c + 1, Len(s)) \in Seq(Octet)
           /\ Len(SubSeq(s, c + 1, Len(s))) = Len(s) - c
           /\ \A i \in 1..Len(s) - c : SubSeq(s, c + 1, Len(s))[i] = s[c + i]
<1>1. c + 1 \in Int /\ Len(s) \in Int /\ \A i \in c + 1..Len(s) : s[i] \in Octet
  BY ElementOfSeq
<1>2. /\ SubSeq(s, c + 1, Len(s)) \in Seq(Octet)
      /\ Len(SubSeq(s, c + 1, Len(s))) =
            IF c + 1 <= Len(s) THEN Len(s) - (c + 1) + 1 ELSE 0
      /\ \A i \in 1..Len(s) - (c + 1) + 1 :
            SubSeq(s, c + 1, Len(s))[i] = s[c + 1 + i - 1]
  BY ONLY <1>1, SubSeqProperties
<1> DEFINE v == SubSeq(s, c + 1, Len(s))
           n == Len(s)
<1> HIDE DEF v, n
<1>3. /\ c \in Nat /\ n \in Nat /\ c <= n
      /\ v \in Seq(Octet) /\ Len(v) = IF c + 1 <= n THEN n - (c + 1) + 1 ELSE 0
      /\ \A i \in 1..n - (c + 1) + 1 : v[i] = s[c + 1 + i - 1]
  BY <1>1, <1>2 DEF v, n
<1>4. Len(v) = n - c
  BY ONLY <1>3
<1>5. ASSUME NEW i \in 1..n - c
      PROVE  v[i] = s[c + i]
  <2>1. i \in 1..n - (c + 1) + 1 /\ c + 1 + i - 1 = c + i
    BY ONLY <1>3
  <2>2. v[i] = s[c + 1 + i - 1]
    BY ONLY <1>3, <2>1
  <2> QED
    BY ONLY <2>1, <2>2
<1> QED
  BY <1>3, <1>4, <1>5 DEF v, n

\* A piece from the front and its rest are the sequence.
LEMMA Start ==
    ASSUME NEW s \in Seq(Octet), NEW c \in Nat, c <= Len(s)
    PROVE  /\ SubSeq(s, 1, c) \in Seq(Octet)
           /\ Len(SubSeq(s, 1, c)) = c
           /\ SubSeq(s, 1, c) \o SubSeq(s, c + 1, Len(s)) = s
<1> DEFINE u == SubSeq(s, 1, c)
           v == SubSeq(s, c + 1, Len(s))
<1>1. u \in Seq(Octet) /\ Len(u) = c /\ \A i \in 1..c : u[i] = s[i]
  OBVIOUS
<1>2. /\ v \in Seq(Octet) /\ Len(v) = Len(s) - c
      /\ \A i \in 1..Len(s) - c : v[i] = s[c + i]
  BY Rest
<1> HIDE DEF u, v
<1>3. u \o v = s
  <2>1. /\ u \o v \in Seq(Octet) /\ Len(u \o v) = Len(s)
        /\ \A i \in 1..Len(s) : (u \o v)[i] = IF i <= c THEN u[i] ELSE v[i - c]
    BY <1>1, <1>2
  <2>2. ASSUME NEW i \in 1..Len(s)
        PROVE  (u \o v)[i] = s[i]
    <3>1. CASE i <= c
      BY <1>1, <2>1, <3>1
    <3>2. CASE i > c
      <4>1. i - c \in 1..Len(s) - c /\ c + (i - c) = i
        BY <3>2
      <4> QED
        BY <1>2, <2>1, <3>2, <4>1
    <3>3. i <= c \/ i > c
      OBVIOUS
    <3> QED
      BY ONLY <3>1, <3>2, <3>3
  <2> QED
    BY <2>1, <2>2, SeqEqual
<1> QED
  BY <1>1, <1>3 DEF u, v

\* What the backplate sends is a frame, and says what it was made from.
LEMMA EncodedFrame ==
    ASSUME NEW m \in Messages
    PROVE  /\ Len(m.data) \in Nat /\ m.data \in Seq(Octet) /\ m.type \in Word16
           /\ Encoded(m) \in Seq(Octet) /\ Len(Encoded(m)) = 9 + Len(m.data)
           /\ HasHeader(Encoded(m), 0)
           /\ DataSize(Encoded(m), 0) = Len(m.data)
           /\ DataAt(Encoded(m), 0) = m.data
           /\ Word(Encoded(m), 3) = m.type
           /\ Checks(Encoded(m), 0)
<1> DEFINE d == Len(m.data)
           b == Body(m)
           e == Encoded(m)
           c == Crc(Body(m))
           w == <<Low(m.type), High(m.type), Low(d), High(d)>>
           x == <<Low(c), High(c)>>
<1>1. /\ m.data \in Seq(Octet) /\ m.type \in Word16 /\ d \in Word16 /\ c \in Word16
      /\ m.type \in Nat /\ d \in Nat /\ c \in Nat
  BY FrameAssumption, Words
<1>2. /\ Low(m.type) \in Octet /\ High(m.type) \in Octet
      /\ Low(d) \in Octet /\ High(d) \in Octet /\ Low(c) \in Octet /\ High(c) \in Octet
      /\ Low(m.type) + 256 * High(m.type) = m.type
      /\ Low(d) + 256 * High(d) = d /\ Low(c) + 256 * High(c) = c
  BY ONLY <1>1, Words, ZenonT(30)
<1>3. /\ w \in Seq(Octet) /\ Len(w) = 4
      /\ w[1] = Low(m.type) /\ w[2] = High(m.type) /\ w[3] = Low(d) /\ w[4] = High(d)
      /\ x \in Seq(Octet) /\ Len(x) = 2 /\ x[1] = Low(c) /\ x[2] = High(c)
  BY <1>2
<1>4. b = w \o m.data /\ e = Header \o b \o x
  BY DEF Body, Encoded
<1> HIDE DEF d, b, e, c, w, x
<1>5. /\ b \in Seq(Octet) /\ Len(b) = 4 + d
      /\ \A i \in 1..4 : b[i] = w[i]
      /\ \A i \in 1..d : b[4 + i] = m.data[i]
  <2>1. Len(m.data) = d
    BY DEF d
  <2>2. /\ w \o m.data \in Seq(Octet) /\ Len(w \o m.data) = Len(w) + Len(m.data)
        /\ \A i \in 1..Len(w) : (w \o m.data)[i] = w[i]
        /\ \A i \in 1..Len(m.data) : (w \o m.data)[Len(w) + i] = m.data[i]
    BY <1>1, <1>3, Joined, Zenon
  <2> QED
    BY <1>3, <1>4, <2>1, <2>2
<1>6. /\ e \in Seq(Octet) /\ Len(e) = 9 + d
      /\ \A i \in 1..3 : e[i] = Header[i]
      /\ \A i \in 1..4 + d : e[3 + i] = b[i]
      /\ e[8 + d] = x[1] /\ e[9 + d] = x[2]
  <2> DEFINE g == Header \o b
  <2> HIDE DEF g
  <2>1. /\ g \in Seq(Octet) /\ Len(g) = Len(Header) + Len(b)
        /\ \A i \in 1..Len(Header) : g[i] = Header[i]
        /\ \A i \in 1..Len(b) : g[Len(Header) + i] = b[i]
    <3>1. Header \in Seq(Octet) /\ b \in Seq(Octet)
      BY <1>5, Sizes
    <3>2. /\ Header \o b \in Seq(Octet) /\ Len(Header \o b) = Len(Header) + Len(b)
          /\ \A i \in 1..Len(Header) : (Header \o b)[i] = Header[i]
          /\ \A i \in 1..Len(b) : (Header \o b)[Len(Header) + i] = b[i]
      BY ONLY <3>1, Joined, ZenonT(30)
    <3> QED
      BY <3>2 DEF g
  <2>2. /\ g \o x \in Seq(Octet) /\ Len(g \o x) = Len(g) + Len(x)
        /\ \A i \in 1..Len(g) : (g \o x)[i] = g[i]
        /\ \A i \in 1..Len(x) : (g \o x)[Len(g) + i] = x[i]
    BY <1>3, <2>1, Joined, ZenonT(40)
  <2>3. Len(g) = 7 + d /\ Len(x) = 2 /\ Len(b) = 4 + d /\ Len(Header) = 3 /\ d \in Nat
    BY <1>1, <1>3, <1>5, <2>1, Sizes
  <2>4. e = g \o x
    BY <1>4 DEF g
  <2>5. e \in Seq(Octet) /\ Len(e) = 9 + d
    BY <2>2, <2>3, <2>4
  <2>6. \A i \in 1..3 : e[i] = Header[i]
    BY <2>1, <2>2, <2>3, <2>4
  <2>7. \A i \in 1..4 + d : e[3 + i] = b[i]
    <3>1. \A i \in 1..4 + d : 3 + i \in 1..7 + d
      BY <2>3
    <3>2. \A i \in 1..7 + d : e[i] = g[i]
      BY <2>2, <2>3, <2>4
    <3>3. \A i \in 1..4 + d : g[3 + i] = b[i]
      BY <2>1, <2>3
    <3> QED
      BY ONLY <3>1, <3>2, <3>3
  <2>8. e[8 + d] = x[1] /\ e[9 + d] = x[2]
    <3>1. 7 + d + 1 = 8 + d /\ 7 + d + 2 = 9 + d
      BY <2>3
    <3>2. e[7 + d + 1] = x[1] /\ e[7 + d + 2] = x[2]
      BY <2>2, <2>3, <2>4
    <3> QED
      BY <3>1, <3>2
  <2> QED
    BY <2>5, <2>6, <2>7, <2>8
<1>7. HasHeader(e, 0)
  <2>1. \A j \in 1..3 : 0 + j - 1 + 1 = j
    OBVIOUS
  <2> QED
    BY <1>6, <2>1 DEF HasHeader, Byte
<1>8. Word(e, 3) = m.type /\ Word(e, 5) = d
  <2>1. e[4] = w[1] /\ e[5] = w[2] /\ e[6] = w[3] /\ e[7] = w[4]
    <3>1. /\ e[3 + 1] = b[1] /\ e[3 + 2] = b[2] /\ e[3 + 3] = b[3] /\ e[3 + 4] = b[4]
      BY <1>1, <1>6
    <3> QED
      BY <1>5, <3>1
  <2> QED
    BY <1>2, <1>3, <2>1 DEF Word, Byte
<1>9. DataSize(e, 0) = d
  BY <1>8 DEF DataSize
<1>10. DataAt(e, 0) = m.data
  <2>1. SamePieces(e, 8, 7 + d, m.data, 1, d)
    <3>1. ASSUME NEW i \in 0..7 + d - 8
          PROVE  e[8 + i] = m.data[1 + i]
      <4>1. /\ 4 + (1 + i) \in 1..4 + d /\ 1 + i \in 1..d /\ 8 + i = 3 + (4 + (1 + i))
        BY ONLY <1>1
      <4>2. e[3 + (4 + (1 + i))] = b[4 + (1 + i)]
        BY ONLY <1>6, <4>1, Zenon
      <4>3. b[4 + (1 + i)] = m.data[1 + i]
        BY ONLY <1>5, <4>1, Zenon
      <4> QED
        BY ONLY <4>1, <4>2, <4>3
    <3>2. d = Len(m.data)
      BY DEF d
    <3> QED
      BY <1>1, <1>6, <3>1, <3>2 DEF SamePieces
  <2>2. SubSeq(e, 8, 7 + d) = SubSeq(m.data, 1, d)
    <3> DEFINE from == 8
               to == 7 + d
               first == 1
    <3>1. /\ from \in Nat /\ to \in Nat /\ first \in Nat /\ d \in Nat
          /\ e \in Seq(Octet) /\ m.data \in Seq(Octet)
          /\ SamePieces(e, from, to, m.data, first, d)
      BY <1>1, <1>6, <2>1
    <3> HIDE DEF from, to, first
    <3>2. SubSeq(e, from, to) = SubSeq(m.data, first, d)
      BY ONLY <3>1, PiecesAreSame, SMTT(40)
    <3> QED
      BY <3>2 DEF from, to, first
  <2>3. SubSeq(m.data, 1, d) = m.data
    BY <1>1, SubSeqFull DEF d
  <2> QED
    BY <1>1, <1>9, <2>2, <2>3 DEF DataAt
<1>11. Checks(e, 0)
  <2>1. SubSeq(e, 4, 7 + d) = b
    <3>1. SamePieces(e, 4, 7 + d, b, 1, 4 + d)
      <4>1. ASSUME NEW i \in 0..7 + d - 4
            PROVE  e[4 + i] = b[1 + i]
        <5>1. 1 + i \in 1..4 + d /\ 4 + i = 3 + (1 + i)
          BY <1>1
        <5> QED
          BY <1>6, <5>1
      <4> QED
        BY <1>1, <1>5, <1>6, <4>1 DEF SamePieces
    <3>2. SubSeq(e, 4, 7 + d) = SubSeq(b, 1, 4 + d)
      <4> DEFINE from == 4
                 to == 7 + d
                 first == 1
                 last == 4 + d
      <4>1. /\ from \in Nat /\ to \in Nat /\ first \in Nat /\ last \in Nat
            /\ e \in Seq(Octet) /\ b \in Seq(Octet)
            /\ SamePieces(e, from, to, b, first, last)
        BY <1>1, <1>5, <1>6, <3>1
      <4> HIDE DEF from, to, first, last
      <4>2. SubSeq(e, from, to) = SubSeq(b, first, last)
        BY ONLY <4>1, PiecesAreSame, SMTT(40)
      <4> QED
        BY <4>2 DEF from, to, first, last
    <3>3. SubSeq(b, 1, 4 + d) = b
      BY <1>5, SubSeqFull
    <3> QED
      BY <3>2, <3>3
  <2>2. Word(e, 7 + d) = c
    <3>1. (7 + d) + 1 = 8 + d /\ (7 + d) + 1 + 1 = 9 + d
      BY <1>1
    <3> QED
      BY <1>2, <1>3, <1>6, <3>1 DEF Word, Byte
  <2>3. 0 + 4 = 4 /\ 0 + 7 + d = 7 + d /\ c = Crc(b)
    BY <1>1 DEF c, b
  <2> QED
    BY <1>9, <2>1, <2>2, <2>3 DEF Checks
<1> QED
  BY <1>1, <1>6, <1>7, <1>8, <1>9, <1>10, <1>11 DEF d, e

\* Where its bytes are, in whole or in part, it is read as what was sent.
LEMMA CleanFrame ==
    ASSUME NEW m \in Messages, NEW s \in Seq(Octet), NEW k \in Nat, NEW n \in Nat,
           9 <= n, n <= 9 + Len(m.data), SameBytes(Encoded(m), 0, s, k, n)
    PROVE  /\ HasHeader(s, k)
           /\ FrameSize(s, k) = 9 + Len(m.data)
           /\ n = 9 + Len(m.data) =>
                 /\ Checks(s, k)
                 /\ DataAt(s, k) = m.data
                 /\ Word(s, k + 3) = m.type
<1> DEFINE e == Encoded(m)
<1>1. /\ Len(m.data) \in Nat /\ e \in Seq(Octet)
      /\ HasHeader(e, 0) /\ DataSize(e, 0) = Len(m.data) /\ DataAt(e, 0) = m.data
      /\ Word(e, 3) = m.type /\ Checks(e, 0)
  BY EncodedFrame
<1> HIDE DEF e
<1>2. SameBytes(e, 0, s, k, n)
  BY DEF e
<1>3. /\ HasHeader(e, 0) <=> HasHeader(s, k)
      /\ FrameSize(e, 0) = 9 + DataSize(e, 0)
      /\ FrameSize(e, 0) = FrameSize(s, k)
      /\ FrameSize(e, 0) <= n =>
            /\ Checks(e, 0) <=> Checks(s, k)
            /\ DataAt(e, 0) = DataAt(s, k)
  BY <1>1, <1>2, SameFrame, SMTT(20)
<1>4. Word(s, k + 3) = m.type
  <2>1. /\ e[0 + 4] = s[k + 4] /\ e[0 + 5] = s[k + 5]
    <3>1. 4 \in 1..n /\ 5 \in 1..n
      OBVIOUS
    <3> QED
      BY ONLY <1>2, <3>1 DEF SameBytes
  <2>2. k + 3 + 1 = k + 4 /\ k + 3 + 1 + 1 = k + 5
    OBVIOUS
  <2> QED
    BY <1>1, <2>1, <2>2 DEF Word, Byte
<1> QED
  BY <1>1, <1>3, <1>4
----------------------------------------------------------------------------
\* What is dealt with goes from the front of the buffer.
LEMMA Shifted ==
    ASSUME FrameTypes, Buffered, NEW c \in Nat, c <= Len(rdbuf), Shift(c),
           UNCHANGED <<received, alloc>>
    PROVE  /\ rdbuf' \in Seq(Octet) /\ pos' = pos + c /\ pos' \in 0..Len(received')
           /\ Len(rdbuf') = Len(rdbuf) - c
           /\ Buffered'
<1>1. /\ rdbuf \in Seq(Octet) /\ received \in Seq(Octet) /\ pos \in Nat /\ alloc \in Nat
      /\ Len(received) = pos + Len(rdbuf) /\ Len(rdbuf) <= alloc
      /\ \A i \in 1..Len(rdbuf) : rdbuf[0 + i] = received[pos + i]
      /\ Len(rdbuf) \in Nat
  BY DEF FrameTypes, Buffered, SameBytes
<1>2. /\ pos' = pos + c /\ received' = received /\ alloc' = alloc
      /\ rdbuf' \in Seq(Octet) /\ Len(rdbuf') = Len(rdbuf) - c
      /\ \A i \in 1..Len(rdbuf) - c : rdbuf'[i] = rdbuf[c + i]
  BY <1>1, Rest DEF Shift
<1>3. ASSUME NEW i \in 1..Len(rdbuf')
      PROVE  rdbuf'[0 + i] = received'[pos' + i]
  <2>1. /\ i \in 1..Len(rdbuf) - c /\ c + i \in 1..Len(rdbuf)
        /\ pos + (c + i) = pos' + i /\ 0 + i = i /\ 0 + (c + i) = c + i
    BY <1>1, <1>2
  <2> QED
    BY <1>1, <1>2, <2>1
<1>4. /\ Len(received') = pos' + Len(rdbuf') /\ Len(rdbuf') <= alloc'
      /\ 0 + Len(rdbuf') <= Len(rdbuf') /\ pos' + Len(rdbuf') <= Len(received')
      /\ pos' \in 0..Len(received')
  BY <1>1, <1>2
<1> QED
  BY <1>2, <1>3, <1>4 DEF Buffered, SameBytes

\* And nothing is passed over that may be a frame, if there is none at the bytes that
\* go.
LEMMA PassedOver ==
    ASSUME FrameTypes, FrameTypes', Buffered, Passed, NEW c \in Nat, c <= Len(rdbuf),
           pos' = pos + c, UNCHANGED <<received, got>>,
           \A i \in 0..c - 1 : NoFrameAt(rdbuf, i)
    PROVE  Passed'
<1> SUFFICES ASSUME NEW k \in 0..pos' - 1
             PROVE  Covered(k)' \/ NoFrameAt(received', k)
  BY DEF Passed
<1>0. pos \in Nat /\ received \in Seq(Octet) /\ rdbuf \in Seq(Octet)
  BY DEF FrameTypes
<1>1. CASE k < pos
  <2>1. k \in 0..pos - 1
    BY <1>0, <1>1
  <2> QED
    BY <2>1 DEF Passed, Covered
<1>2. CASE k >= pos
  <2> DEFINE i == k - pos
             n == Len(rdbuf) - i
  <2>1. i \in 0..c - 1 /\ i \in Nat /\ k = pos + i /\ n \in Nat /\ n >= 1 /\ i + n = Len(rdbuf)
    BY <1>0, <1>2
  <2>2. NoFrameAt(rdbuf, i)
    BY <2>1
  <2>3. SameBytes(rdbuf, i, received, k, n)
    <3>1. ASSUME NEW j \in 1..n
          PROVE  rdbuf[i + j] = received[k + j]
      <4>1. /\ i + j \in 1..Len(rdbuf) /\ 0 + (i + j) = i + j /\ pos + (i + j) = k + j
        BY <1>0, <2>1
      <4> QED
        BY <4>1 DEF Buffered, SameBytes
    <3>2. i + n <= Len(rdbuf) /\ k + n <= Len(received)
      BY <1>0, <2>1 DEF Buffered
    <3> QED
      BY <3>1, <3>2 DEF SameBytes
  <2> HIDE DEF i, n
  <2>4. n = Len(rdbuf) - i /\ k \in Nat
    BY <1>0, <2>1 DEF n
  <2>5. NoFrameAt(received, k)
    BY <1>0, <2>1, <2>2, <2>3, <2>4, NoFrameMoves, SMTT(20)
  <2> QED
    BY <2>5
<1> QED
  BY <1>0, <1>1, <1>2
----------------------------------------------------------------------------
\* What the front of the buffer says of its frame.
LEMMA Measured ==
    ASSUME NEW s \in Seq(Octet), 9 <= Len(s)
    PROVE  /\ DataSize(s, 0) \in Nat
           /\ FrameSize(s, 0) = 9 + DataSize(s, 0)
           /\ FrameSize(s, 0) < 2^16 + 9
           /\ FrameSize(s, 0) <= Len(s) =>
                 DataAt(s, 0) \in Seq(Octet) /\ Len(DataAt(s, 0)) = DataSize(s, 0)
           /\ Word(s, 3) \in Word16
<1> DEFINE n == Len(s)
           z == 0
<1>1. n \in Nat /\ z \in Nat /\ 9 <= n /\ SameBytes(s, z, s, z, n)
  BY DEF SameBytes
<1> HIDE DEF n, z
<1>2. /\ DataSize(s, z) \in Word16
      /\ FrameSize(s, z) = 9 + DataSize(s, z)
      /\ FrameSize(s, z) <= n =>
            DataAt(s, z) \in Seq(Octet) /\ Len(DataAt(s, z)) = DataSize(s, z)
  BY <1>1, SameFrame, SMTT(20)
<1>3. DataSize(s, z) \in Nat /\ DataSize(s, z) < 2^16
  BY <1>2, Words
<1>4. 2^16 = 65536
  BY SMT
<1>5. FrameSize(s, z) < 2^16 + 9
  BY <1>2, <1>3, <1>4, SMT
<1>6. Word(s, 3) \in Word16
  <2>1. s[4] \in Octet /\ s[5] \in Octet
    BY ElementOfSeq
  <2> QED
    <3>1. Word(s, 3) = s[4] + 256 * s[5]
      BY DEF Word, Byte
    <3>2. PICK p \in Octet, q \in Octet : p = s[4] /\ q = s[5]
      BY <2>1
    <3>3. p + 256 * q \in Word16
      BY Words
    <3> QED
      BY <3>1, <3>2, <3>3, Zenon
<1> QED
  BY <1>2, <1>3, <1>5, <1>6 DEF n, z

----------------------------------------------------------------------------
\* The invariant holds when nothing was sent.
LEMMA FramesBegin == FramesInit => FrameInv
<1> SUFFICES ASSUME FramesInit
             PROVE  FrameInv
  OBVIOUS
<1> USE DEF FramesInit
<1>1. FrameTypes
  BY DEF FrameTypes
<1>2. Buffered /\ Waiting /\ Passed
  BY Sizes DEF Buffered, SameBytes, Waiting, Passed
<1>3. InStep
  <2>1. InFrames([k \in 1..1 |-> 0])
    BY DEF InFrames
  <2>2. \E start \in [1..Len(sent) + 1 -> Nat] : InFrames(start)
    BY <2>1
  <2> QED
    BY <2>2 DEF InStep
<1> QED
  BY <1>1, <1>2, <1>3 DEF FrameInv

\* A pass that waits for more keeps the invariant.
LEMMA NeedMoreKeeps ==
    ASSUME FrameInv, NeedMore
    PROVE  FrameInv'
<1> USE DEF FrameInv, NeedMore, lineVars
<1>1. FrameTypes' /\ Buffered' /\ Passed'
  BY DEF FrameTypes, Buffered, SameBytes, Passed, Covered
<1>2. Waiting'
  <2>1. rdbuf \in Seq(Octet) /\ rdbuf' = rdbuf
    BY DEF FrameTypes
  <2>2. ASSUME Len(rdbuf) >= 9
        PROVE  HasHeader(rdbuf, 0) /\ Len(rdbuf) < FrameSize(rdbuf, 0)
    <3>1. HasHeader(rdbuf, 0) /\ ~(Len(rdbuf) >= FrameSize(rdbuf, 0))
      BY <2>2, Sizes DEF Enough, Whole
    <3>2. FrameSize(rdbuf, 0) \in Nat /\ Len(rdbuf) \in Nat
      BY <2>1, <2>2, Measured
    <3> QED
      BY <3>1, <3>2
  <2>3. Len(rdbuf) \in Nat
    BY <2>1
  <2> QED
    BY <2>1, <2>2, <2>3, Sizes DEF Waiting
<1>3. InStep'
  BY DEF InStep, InFrames, FrameAt, SameBytes
<1> QED
  BY <1>1, <1>2, <1>3

\* On a line without faults nbp looks at a frame that was sent.
LEMMA AtAFrame ==
    ASSUME FrameInv, faults = 0, Len(rdbuf) >= 9
    PROVE  /\ Len(got) < Len(sent)
           /\ sent[Len(got) + 1] \in Messages
           /\ HasHeader(rdbuf, 0)
           /\ FrameSize(rdbuf, 0) = 9 + Len(sent[Len(got) + 1].data)
           /\ Len(rdbuf) >= FrameSize(rdbuf, 0) =>
                 /\ Checks(rdbuf, 0)
                 /\ DataAt(rdbuf, 0) = sent[Len(got) + 1].data
                 /\ Word(rdbuf, 3) = sent[Len(got) + 1].type
<1> USE DEF FrameInv
<1>1. /\ sent \in Seq(Messages) /\ pos \in Nat /\ Len(got) \in Nat
      /\ rdbuf \in Seq(Octet) /\ received \in Seq(Octet) /\ wire \in Seq(Octet)
      /\ Len(got) <= Len(sent)
      /\ Len(received) = pos + Len(rdbuf)
  BY DEF FrameTypes, InStep, Buffered
<1>2. PICK start \in [1..Len(sent) + 1 -> Nat] : InFrames(start)
  BY DEF InStep
<1>3. start[Len(got) + 1] = pos /\ start[Len(sent) + 1] = Len(received) + Len(wire)
  BY <1>2 DEF InFrames
<1>4. Len(got) < Len(sent)
  BY <1>1, <1>3
<1> DEFINE k == Len(got) + 1
           m == sent[k]
           d == Len(m.data)
           n == IF Len(rdbuf) >= 9 + d THEN 9 + d ELSE Len(rdbuf)
<1>5. k \in 1..Len(sent) /\ m \in Messages
  BY <1>1, <1>4, ElementOfSeq
<1>6. d \in Nat
  BY <1>5, EncodedFrame
<1>7. SameBytes(Encoded(m), 0, received \o wire, pos, 9 + d)
  <2>1. FrameAt(received \o wire, start[k], m) /\ start[k] = pos /\ Overhead = 9
    BY <1>2, <1>3, <1>5, Sizes, Zenon DEF InFrames
  <2> QED
    BY ONLY <2>1 DEF FrameAt
<1>8. n \in Nat /\ 9 <= n /\ n <= 9 + d /\ n <= Len(rdbuf)
      /\ (Len(rdbuf) >= 9 + d => n = 9 + d)
  <2>1. Len(rdbuf) \in Nat /\ Len(rdbuf) >= 9
    BY <1>1
  <2> HIDE DEF d
  <2> QED
    BY ONLY <1>6, <2>1
<1> HIDE DEF m, n, d
<1>9. SameBytes(Encoded(m), 0, rdbuf, 0, n)
  <2>1. ASSUME NEW i \in 1..n
        PROVE  Encoded(m)[0 + i] = rdbuf[0 + i]
    <3>1. i \in 1..9 + d /\ i \in 1..Len(rdbuf) /\ pos + i \in 1..Len(received)
      BY <1>1, <1>6, <1>8
    <3>2. Encoded(m)[0 + i] = (received \o wire)[pos + i]
      BY <1>7, <3>1 DEF SameBytes
    <3>3. (received \o wire)[pos + i] = received[pos + i]
      BY <1>1, <3>1
    <3>4. rdbuf[0 + i] = received[pos + i]
      BY <3>1 DEF Buffered, SameBytes
    <3> QED
      BY ONLY <3>2, <3>3, <3>4
  <2>2. 0 + n <= Len(Encoded(m)) /\ 0 + n <= Len(rdbuf)
    <3>1. Len(Encoded(m)) = 9 + d
      BY <1>5, EncodedFrame DEF d
    <3>2. Len(rdbuf) \in Nat
      BY <1>1
    <3> QED
      BY ONLY <1>6, <1>8, <3>1, <3>2
  <2> QED
    BY <2>1, <2>2 DEF SameBytes
<1> DEFINE z == 0
<1>10. z \in Nat /\ SameBytes(Encoded(m), 0, rdbuf, z, n) /\ n <= 9 + Len(m.data)
  BY <1>8, <1>9 DEF d
<1> HIDE DEF z
<1>11. /\ HasHeader(rdbuf, z)
       /\ FrameSize(rdbuf, z) = 9 + Len(m.data)
       /\ n = 9 + Len(m.data) =>
             /\ Checks(rdbuf, z)
             /\ DataAt(rdbuf, z) = m.data
             /\ Word(rdbuf, z + 3) = m.type
  BY <1>1, <1>5, <1>8, <1>10, CleanFrame, SMTT(20)
<1>12. z = 0 /\ z + 3 = 3
  BY DEF z
<1> QED
  BY <1>4, <1>5, <1>8, <1>11, <1>12 DEF m, d
----------------------------------------------------------------------------
\* A pass that rejects a byte goes on to the next that may begin a frame: at the
\* bytes between none begins.
LEMMA InvalidKeeps ==
    ASSUME FrameInv, Invalid
    PROVE  FrameInv'
<1> USE DEF FrameInv
<1>1. /\ Len(rdbuf) >= 9
      /\ HasHeader(rdbuf, 0) =>
            Len(rdbuf) >= FrameSize(rdbuf, 0) /\ ~Checks(rdbuf, 0)
      /\ UNCHANGED <<sent, faults, wire, alloc, received, got>> /\ Resync
  BY Sizes DEF Invalid, Enough, Whole, Valid, lineVars
<1>2. rdbuf \in Seq(Octet) /\ Len(rdbuf) \in Nat
  BY DEF FrameTypes
<1>3. NoFrameAt(rdbuf, 0)
  <2>1. HasHeader(rdbuf, 0) => 0 + FrameSize(rdbuf, 0) = FrameSize(rdbuf, 0)
    BY <1>1, <1>2, Measured
  <2> QED
    BY <1>1, <2>1, Sizes DEF NoFrameAt
<1>4. ASSUME NEW i \in 1..Len(rdbuf) - 1, i \notin Found
      PROVE  NoFrameAt(rdbuf, i)
  BY <1>4 DEF Found, Byte, NoFrameAt
<1>5. \E c \in 0..Len(rdbuf) :
         /\ Shift(c)
         /\ \A i \in 0..c - 1 : NoFrameAt(rdbuf, i)
         /\ pc' = pc \/ (c = Len(rdbuf) /\ pc' = "poll")
  <2>1. CASE Found # {} /\ Shift(CHOOSE k \in Found : \A j \in Found : k <= j)
             /\ UNCHANGED pc
    <3> DEFINE c == CHOOSE k \in Found : \A j \in Found : k <= j
    <3>1. Found \in SUBSET Nat
      BY <1>2 DEF Found
    <3>2. c \in Found /\ \A j \in Found : c <= j
      BY <2>1, <3>1, Least
    <3>3. Shift(c)
      BY <2>1
    <3> HIDE DEF c
    <3>4. c \in 0..Len(rdbuf)
      BY <1>2, <3>2 DEF Found
    <3>5. ASSUME NEW i \in 0..c - 1
          PROVE  NoFrameAt(rdbuf, i)
      <4>1. CASE i = 0
        BY <1>3, <4>1
      <4>2. CASE i # 0
        <5>1. i \in 1..Len(rdbuf) - 1
          BY <1>2, <3>2, <4>2 DEF Found
        <5>2. i \notin Found
          BY <1>2, <3>2, <3>4
        <5> QED
          BY <1>4, <5>1, <5>2
      <4> QED
        BY <4>1, <4>2
    <3> QED
      BY <2>1, <3>3, <3>4, <3>5
  <2>2. CASE Found = {} /\ Shift(Len(rdbuf)) /\ pc' = "poll"
    <3>1. ASSUME NEW i \in 0..Len(rdbuf) - 1
          PROVE  NoFrameAt(rdbuf, i)
      <4>1. CASE i = 0
        BY <1>3, <4>1
      <4>2. CASE i # 0
        BY <1>2, <1>4, <2>2, <4>2
      <4> QED
        BY <4>1, <4>2
    <3>2. Len(rdbuf) \in 0..Len(rdbuf)
      BY <1>2
    <3> QED
      BY <2>2, <3>1, <3>2
  <2> QED
    BY <1>1, <2>1, <2>2 DEF Resync
<1>6. PICK c \in 0..Len(rdbuf) :
         /\ Shift(c)
         /\ \A i \in 0..c - 1 : NoFrameAt(rdbuf, i)
         /\ pc' = pc \/ (c = Len(rdbuf) /\ pc' = "poll")
  BY <1>5
<1>7. /\ c \in Nat /\ c <= Len(rdbuf)
      /\ rdbuf' \in Seq(Octet) /\ pos' = pos + c /\ pos' \in 0..Len(received')
      /\ Len(rdbuf') = Len(rdbuf) - c
      /\ Buffered'
  BY <1>1, <1>2, <1>6, Shifted
<1>8. FrameTypes'
  BY <1>1, <1>6, <1>7 DEF FrameTypes
<1>9. Passed'
  BY <1>1, <1>6, <1>7, <1>8, PassedOver
<1>10. Waiting'
  <2>1. pc = "parse"
    BY DEF Invalid
  <2>2. c = Len(rdbuf) => Len(rdbuf') < Overhead
    BY <1>2, <1>7, Sizes
  <2> QED
    BY <1>6, <2>1, <2>2 DEF Waiting
<1>11. InStep'
  <2>1. faults # 0
    <3> SUFFICES ASSUME faults = 0
                 PROVE  FALSE
      OBVIOUS
    <3> QED
      BY <1>1, AtAFrame
  <2> QED
    BY <1>1, <2>1 DEF InStep
<1> QED
  BY <1>7, <1>8, <1>9, <1>10, <1>11

\* A pass that finds a frame covers its bytes.
LEMMA GotMessageKeeps ==
    ASSUME FrameInv, GotMessage
    PROVE  FrameInv'
<1> USE DEF FrameInv
<1> DEFINE c == FrameSize(rdbuf, 0)
           new == [at |-> pos, type |-> Word(rdbuf, 3), data |-> DataAt(rdbuf, 0)]
<1>1. /\ Len(rdbuf) >= 9 /\ pc = "parse"
      /\ HasHeader(rdbuf, 0) /\ Len(rdbuf) >= c /\ Checks(rdbuf, 0)
      /\ got' = Append(got, new) /\ Shift(c)
      /\ UNCHANGED <<sent, faults, wire, pc, alloc, received>>
  BY Sizes DEF GotMessage, Enough, Whole, Valid, lineVars
<1>2. /\ rdbuf \in Seq(Octet) /\ Len(rdbuf) \in Nat /\ pos \in Nat
      /\ got \in Seq([at : Nat, type : Word16, data : Seq(Octet)])
  BY DEF FrameTypes
<1>3. /\ c \in Nat /\ c <= Len(rdbuf)
      /\ DataAt(rdbuf, 0) \in Seq(Octet) /\ c = 9 + Len(DataAt(rdbuf, 0))
      /\ Word(rdbuf, 3) \in Word16
  BY <1>1, <1>2, Measured
<1> HIDE DEF c
<1>4. /\ rdbuf' \in Seq(Octet) /\ pos' = pos + c /\ pos' \in 0..Len(received')
      /\ Len(rdbuf') = Len(rdbuf) - c
      /\ Buffered'
  BY <1>1, <1>3, Shifted
<1>5. new \in [at : Nat, type : Word16, data : Seq(Octet)]
  BY <1>2, <1>3
<1>6. /\ got' \in Seq([at : Nat, type : Word16, data : Seq(Octet)])
      /\ Len(got') = Len(got) + 1 /\ got'[Len(got) + 1] = new
      /\ \A j \in DOMAIN got : j \in DOMAIN got' /\ got'[j] = got[j]
      /\ Len(got) + 1 \in DOMAIN got'
      /\ DOMAIN got' = 1..Len(got) + 1 /\ DOMAIN got = 1..Len(got) /\ Len(got) \in Nat
  <2> HIDE DEF new
  <2> QED
    BY <1>1, <1>2, <1>5, SMTT(20)
<1>7. FrameTypes'
  BY <1>1, <1>4, <1>6 DEF FrameTypes
<1>8. Waiting'
  BY <1>1 DEF Waiting
<1>9. Passed'
  <2> SUFFICES ASSUME NEW k \in 0..pos' - 1
               PROVE  Covered(k)' \/ NoFrameAt(received', k)
    BY DEF Passed
  <2>1. CASE k < pos
    <3>1. Covered(k) \/ NoFrameAt(received, k)
      BY <1>2, <2>1 DEF Passed
    <3>2. Covered(k) => Covered(k)'
      BY <1>6 DEF Covered
    <3> QED
      BY <1>1, <3>1, <3>2
  <2>2. CASE k >= pos
    <3>1. /\ new.at = pos /\ new.data = DataAt(rdbuf, 0)
          /\ pos <= k /\ k < pos + 9 + Len(DataAt(rdbuf, 0))
      BY <1>2, <1>3, <1>4, <2>2
    <3>2. /\ got'[Len(got) + 1].at <= k
          /\ k < got'[Len(got) + 1].at + Overhead + Len(got'[Len(got) + 1].data)
      BY <1>6, <3>1, Sizes
    <3>3. \E j \in DOMAIN got' :
              got'[j].at <= k /\ k < got'[j].at + Overhead + Len(got'[j].data)
      BY <1>6, <3>2
    <3> QED
      BY <3>3 DEF Covered
  <2> QED
    BY <1>2, <2>1, <2>2
<1>10. InStep'
  <2> SUFFICES ASSUME faults' = 0
               PROVE  /\ Len(got') <= Len(sent')
                      /\ \A k \in DOMAIN got' :
                            sent'[k] = [type |-> got'[k].type, data |-> got'[k].data]
                      /\ \E start \in [1..Len(sent') + 1 -> Nat] : InFrames(start)'
    BY DEF InStep
  <2> DEFINE m == sent[Len(got) + 1]
  <2>1. /\ Len(got) < Len(sent) /\ m \in Messages
        /\ c = 9 + Len(m.data)
        /\ DataAt(rdbuf, 0) = m.data /\ Word(rdbuf, 3) = m.type
    BY <1>1, AtAFrame DEF c
  <2> HIDE DEF m
  <2>2. m = [type |-> m.type, data |-> m.data]
    BY <2>1, FrameAssumption
  <2>3. ASSUME NEW k \in DOMAIN got'
        PROVE  sent'[k] = [type |-> got'[k].type, data |-> got'[k].data]
    <3>1. CASE k \in DOMAIN got
      BY <1>1, <1>6, <3>1 DEF InStep
    <3>2. CASE k = Len(got) + 1
      BY <1>1, <1>6, <2>1, <2>2, <3>2 DEF m
    <3> QED
      BY <1>6, <3>1, <3>2
  <2>4. PICK start \in [1..Len(sent) + 1 -> Nat] : InFrames(start)
    BY <1>1 DEF InStep
  <2>5. start[Len(got') + 1] = pos'
    <3>1. Len(got) + 1 \in 1..Len(sent)
      BY <1>6, <2>1 DEF FrameTypes
    <3>2. start[Len(got) + 1] = pos
      BY <2>4 DEF InFrames
    <3>3. start[Len(got) + 1 + 1] = start[Len(got) + 1] + Overhead + Len(m.data)
      BY <2>4, <3>1 DEF InFrames, m
    <3> QED
      <4>1. Len(got') + 1 = Len(got) + 1 + 1 /\ Len(m.data) \in Nat
        BY <1>6, <2>1, EncodedFrame
      <4>2. start[Len(got') + 1] = pos + 9 + Len(m.data)
        BY <3>2, <3>3, <4>1, Sizes
      <4> QED
        <5>1. /\ pos \in Nat /\ Len(m.data) \in Nat /\ c = 9 + Len(m.data)
              /\ pos' = pos + c
          BY <1>2, <1>4, <2>1, <4>1
        <5>2. pos' = pos + 9 + Len(m.data)
          <6>1. ASSUME NEW p \in Nat, NEW l \in Nat
                PROVE  p + (9 + l) = p + 9 + l
            OBVIOUS
          <6> QED
            BY ONLY <5>1, <6>1
        <5> QED
          BY <4>2, <5>2
  <2>6. InFrames(start)'
    BY <1>1, <2>4, <2>5 DEF InFrames, FrameAt, SameBytes
  <2>7. Len(got') <= Len(sent')
    BY <1>1, <1>6, <2>1 DEF FrameTypes
  <2> QED
    BY <1>1, <2>3, <2>4, <2>6, <2>7
<1> QED
  BY <1>4, <1>7, <1>8, <1>9, <1>10
----------------------------------------------------------------------------
\* A fault leaves bytes.
LEMMA FaultyBytes ==
    ASSUME NEW s \in Seq(Octet), NEW u \in Faulty(s)
    PROVE  u \in Seq(Octet)
<1>1. Noise \subseteq Octet
  BY FrameAssumption
<1>2. CASE \E k \in DOMAIN s : u = RemoveAt(s, k)
  <2>1. PICK k \in 1..Len(s) : u = RemoveAt(s, k)
    BY <1>2
  <2>2. SubSeq(s, 1, k - 1) \in Seq(Octet) /\ SubSeq(s, k + 1, Len(s)) \in Seq(Octet)
    <3>1. k - 1 \in Nat /\ k - 1 <= Len(s) /\ k \in Nat /\ k <= Len(s)
      OBVIOUS
    <3> QED
      BY <3>1, Start, Rest
  <2> QED
    BY <2>1, <2>2 DEF RemoveAt
<1>3. CASE \E k \in DOMAIN s, b \in Noise : u = ReplaceAt(s, k, b)
  <2>1. PICK k \in 1..Len(s), b \in Octet : u = ReplaceAt(s, k, b)
    BY <1>1, <1>3
  <2> QED
    BY <2>1, ExceptSeq DEF ReplaceAt
<1>4. CASE \E b \in Noise : u = <<b>> \o s
  <2>1. PICK b \in Octet : u = <<b>> \o s
    BY <1>1, <1>4
  <2>2. <<b>> \in Seq(Octet)
    OBVIOUS
  <2> QED
    BY <2>1, <2>2, Joined
<1> DEFINE lost == { RemoveAt(s, k) : k \in DOMAIN s }
           changed == { ReplaceAt(s, k, b) : k \in DOMAIN s, b \in Noise }
           added == { <<b>> \o s : b \in Noise }
<1>5. Faulty(s) = lost \cup changed \cup added
  BY DEF Faulty
<1>6. ASSUME u \in lost
      PROVE  \E k \in DOMAIN s : u = RemoveAt(s, k)
  BY <1>6, SMT
<1>7. ASSUME u \in changed
      PROVE  \E k \in DOMAIN s, b \in Noise : u = ReplaceAt(s, k, b)
  BY <1>7, SMT
<1>8. ASSUME u \in added
      PROVE  \E b \in Noise : u = <<b>> \o s
  BY <1>8, Zenon
<1> HIDE DEF lost, changed, added
<1>9. u \in lost \/ u \in changed \/ u \in added
  BY <1>5
<1> QED
  BY <1>2, <1>3, <1>4, <1>6, <1>7, <1>8, <1>9

\* A frame sent comes after those on their way.
LEMMA SendKeeps ==
    ASSUME FrameInv, Send
    PROVE  FrameInv'
<1> USE DEF FrameInv
<1>1. PICK m \in Messages :
         /\ sent' = Append(sent, m)
         /\ \/ wire' = wire \o Encoded(m) /\ UNCHANGED faults
            \/ /\ faults < MaxFaults
               /\ faults' = faults + 1
               /\ \E s \in Faulty(Encoded(m)) : wire' = wire \o s
  BY DEF Send
<1>2. UNCHANGED <<pc, rdbuf, alloc, received, pos, got>>
  BY DEF Send
<1>3. /\ sent \in Seq(Messages) /\ faults \in Nat /\ received \in Seq(Octet)
      /\ wire \in Seq(Octet) /\ pos \in Nat /\ Len(got) \in Nat
      /\ DOMAIN got = 1..Len(got)
  BY DEF FrameTypes
<1>4. Encoded(m) \in Seq(Octet) /\ Len(Encoded(m)) = 9 + Len(m.data) /\ Len(m.data) \in Nat
  BY EncodedFrame
<1>5. faults' \in Nat /\ (faults' = 0 => faults = 0 /\ wire' = wire \o Encoded(m))
  BY <1>1, <1>3
<1>6. wire' \in Seq(Octet)
  <2>1. \E s \in Seq(Octet) : wire' = wire \o s
    BY <1>1, <1>4, FaultyBytes
  <2> QED
    BY <1>3, <2>1, Joined
<1>7. /\ sent' \in Seq(Messages) /\ Len(sent') = Len(sent) + 1
      /\ sent'[Len(sent) + 1] = m
      /\ \A k \in 1..Len(sent) : sent'[k] = sent[k]
      /\ Len(sent) \in Nat
  BY <1>1, <1>3
<1>8. FrameTypes'
  BY <1>2, <1>5, <1>6, <1>7 DEF FrameTypes
<1>9. Buffered' /\ Waiting' /\ Passed'
  BY <1>2 DEF Buffered, SameBytes, Waiting, Passed, Covered
<1>10. InStep'
  <2> SUFFICES ASSUME faults' = 0
               PROVE  /\ Len(got') <= Len(sent')
                      /\ \A k \in DOMAIN got' :
                            sent'[k] = [type |-> got'[k].type, data |-> got'[k].data]
                      /\ \E start \in [1..Len(sent') + 1 -> Nat] : InFrames(start)'
    BY DEF InStep
  <2>1. faults = 0 /\ wire' = wire \o Encoded(m)
    BY <1>5
  <2>2. PICK start \in [1..Len(sent) + 1 -> Nat] : InFrames(start)
    BY <2>1 DEF InStep
  <2>3. Len(got) <= Len(sent)
    BY <2>1 DEF InStep
  <2> DEFINE e == Encoded(m)
             n == Len(sent)
             d == Len(m.data)
             old == received \o wire
             all == received' \o wire'
             more == [k \in 1..n + 2 |-> IF k = n + 2 THEN start[n + 1] + 9 + d
                                                      ELSE start[k]]
  <2>4. /\ old \in Seq(Octet) /\ Len(old) = Len(received) + Len(wire)
        /\ all = old \o e /\ Len(all) = Len(old) + 9 + d
        /\ Len(received') + Len(wire') = Len(old) + 9 + d
        /\ Len(old) \in Nat
        /\ \A i \in 1..Len(old) : all[i] = old[i]
        /\ \A i \in 1..9 + d : all[Len(old) + i] = e[i]
    <3>1. old \in Seq(Octet) /\ Len(old) = Len(received) + Len(wire) /\ Len(old) \in Nat
      BY <1>3
    <3>2. all = old \o e
      <4>1. received' \o wire' = received \o (wire \o Encoded(m))
        BY <1>2, <2>1
      <4>2. (received \o wire) \o Encoded(m) = received \o (wire \o Encoded(m))
        <5>1. /\ received \in Seq(Octet) /\ wire \in Seq(Octet)
              /\ Encoded(m) \in Seq(Octet)
          BY <1>3, <1>4
        <5> QED
          BY ONLY <5>1, ConcatAssociative, SMTT(30)
      <4> QED
        BY <4>1, <4>2
    <3>3. /\ Len(old \o e) = Len(old) + Len(e)
          /\ \A i \in 1..Len(old) : (old \o e)[i] = old[i]
          /\ \A i \in 1..Len(e) : (old \o e)[Len(old) + i] = e[i]
      BY <1>4, <3>1, Joined, Zenon
    <3>4. Len(wire') = Len(wire) + 9 + d
      <4>1. Len(wire \o Encoded(m)) = Len(wire) + Len(Encoded(m))
        BY <1>3, <1>4, Joined, Zenon
      <4>2. Len(wire) \in Nat /\ d \in Nat /\ Len(Encoded(m)) = 9 + d
        BY <1>3, <1>4
      <4>3. Len(wire') = Len(wire) + (9 + d)
        BY <2>1, <4>1, <4>2
      <4> HIDE DEF d
      <4> QED
        BY ONLY <4>2, <4>3
    <3>5. Len(received) \in Nat /\ Len(wire) \in Nat
      BY <1>3
    <3>6. Len(e) = 9 + d /\ d \in Nat /\ Len(received') = Len(received)
      BY <1>2, <1>4
    <3> HIDE DEF old, all, e, d
    <3>7. /\ Len(all) = Len(old) + 9 + d
          /\ Len(received') + Len(wire') = Len(old) + 9 + d
      BY ONLY <3>1, <3>2, <3>3, <3>4, <3>5, <3>6
    <3>8. \A i \in 1..9 + d : all[Len(old) + i] = e[i]
      BY ONLY <3>2, <3>3, <3>6
    <3> QED
      BY ONLY <3>1, <3>2, <3>3, <3>7, <3>8
  <2>5. /\ start \in [1..n + 1 -> Nat] /\ n \in Nat /\ d \in Nat
        /\ \A j, k \in 1..n + 1 : j < k => start[j] + 9 <= start[k]
        /\ start[n + 1] = Len(old)
        /\ start[Len(got) + 1] = pos
        /\ \A k \in 1..n : start[k + 1] = start[k] + 9 + Len(sent[k].data)
    <3>1. Overhead = 9
      BY Sizes
    <3> QED
      BY <1>4, <1>7, <2>2, <2>4, <3>1, Zenon DEF InFrames
  <2>6. ASSUME NEW k \in 1..n
        PROVE  SameBytes(Encoded(sent[k]), 0, old, start[k], 9 + Len(sent[k].data))
    BY <2>2, Sizes DEF InFrames, FrameAt
  <2> HIDE DEF old, all, e, n, d
  <2>7. /\ more \in [1..n + 2 -> Nat]
        /\ \A k \in 1..n + 1 : more[k] = start[k]
        /\ more[n + 2] = start[n + 1] + 9 + d
    BY <2>5
  <2> HIDE DEF more
  <2>8. ASSUME NEW j \in 1..n + 2, NEW k \in 1..n + 2, j < k
        PROVE  more[j] + 9 <= more[k]
    <3>1. j \in 1..n + 1 /\ start[j] \in Nat /\ start[n + 1] \in Nat
      BY <2>5, <2>8
    <3>2. CASE k = n + 2
      <4>1. j = n + 1 \/ j < n + 1
        BY <2>5, <3>1
      <4>2. start[j] <= start[n + 1]
        <5>1. CASE j = n + 1
          BY ONLY <3>1, <5>1
        <5>2. CASE j < n + 1
          <6>1. n + 1 \in 1..n + 1
            BY ONLY <2>5
          <6>2. start[j] + 9 <= start[n + 1]
            BY ONLY <2>5, <3>1, <5>2, <6>1, Zenon
          <6> QED
            BY ONLY <3>1, <6>2
        <5> QED
          BY ONLY <4>1, <5>1, <5>2
      <4> QED
        BY <2>5, <2>7, <3>1, <3>2, <4>2, SMTT(20)
    <3>3. CASE k # n + 2
      <4>1. k \in 1..n + 1
        BY <2>5, <3>3
      <4> QED
        <5>1. start[j] + 9 <= start[k]
          BY ONLY <2>5, <2>8, <3>1, <4>1, Zenon
        <5>2. more[j] = start[j] /\ more[k] = start[k]
          BY ONLY <2>7, <3>1, <4>1
        <5> QED
          BY ONLY <5>1, <5>2
    <3> QED
      BY <3>2, <3>3
  <2>9. ASSUME NEW k \in 1..n + 1
        PROVE  /\ more[k + 1] = more[k] + 9 + Len(sent'[k].data)
               /\ SameBytes(Encoded(sent'[k]), 0, all, more[k], 9 + Len(sent'[k].data))
    <3>1. CASE k \in 1..n
      <4>1. sent'[k] = sent[k] /\ k + 1 \in 1..n + 1
        BY <1>7, <2>5, <3>1 DEF n
      <4>2. more[k + 1] = more[k] + 9 + Len(sent'[k].data)
        BY <2>5, <2>7, <3>1, <4>1
      <4>3. SameBytes(Encoded(sent[k]), 0, old, start[k], 9 + Len(sent[k].data))
        BY <2>6, <3>1
      <4>4. SameBytes(Encoded(sent[k]), 0, all, start[k], 9 + Len(sent[k].data))
        <5>1. /\ start[k] \in Nat /\ Len(sent[k].data) \in Nat
              /\ start[k] + (9 + Len(sent[k].data)) <= Len(old)
              /\ Len(old) <= Len(all)
          <6>1. sent[k] \in Messages
            BY <1>3, <3>1, ElementOfSeq DEF n
          <6>2. Len(sent[k].data) \in Nat
            BY <6>1, EncodedFrame
          <6>3. start[k] \in Nat
            BY ONLY <2>5, <3>1
          <6>4. start[k] + (9 + Len(sent[k].data)) <= Len(old)
            BY ONLY <4>3 DEF SameBytes
          <6>5. Len(old) <= Len(all)
            BY ONLY <2>4, <2>5
          <6> QED
            BY ONLY <6>2, <6>3, <6>4, <6>5
        <5>2. ASSUME NEW i \in 1..9 + Len(sent[k].data)
              PROVE  all[start[k] + i] = old[start[k] + i]
          <6> DEFINE a == start[k]
                     l == Len(sent[k].data)
                     x == Len(old)
          <6>1. a \in Nat /\ l \in Nat /\ a + (9 + l) <= x /\ i \in 1..9 + l /\ x \in Nat
            BY <2>4, <5>1
          <6> HIDE DEF a, l, x
          <6>2. a + i \in 1..x
            BY ONLY <6>1
          <6> QED
            BY ONLY <2>4, <6>2 DEF a, x
        <5> DEFINE a == start[k]
                   l == 9 + Len(sent[k].data)
                   v == Encoded(sent[k])
        <5>3. /\ SameBytes(v, 0, old, a, l)
              /\ a \in Nat /\ l \in Nat /\ a + l <= Len(old)
              /\ Len(old) <= Len(all) /\ Len(old) \in Nat /\ Len(all) \in Nat
              /\ \A i \in 1..l : all[a + i] = old[a + i]
          <6>1. SameBytes(v, 0, old, a, l) /\ \A i \in 1..l : all[a + i] = old[a + i]
            BY ONLY <4>3, <5>2
          <6>2. a \in Nat /\ l \in Nat /\ a + l <= Len(old) /\ Len(old) <= Len(all)
            BY ONLY <5>1
          <6>3. Len(old) \in Nat /\ Len(all) \in Nat
            BY ONLY <2>4, <2>5
          <6> QED
            BY ONLY <6>1, <6>2, <6>3
        <5> HIDE DEF a, l, v
        <5>4. SameBytes(v, 0, all, a, l)
          <6>1. a + l <= Len(all)
            BY ONLY <5>3
          <6>2. 0 + l <= Len(v)
            BY ONLY <5>3 DEF SameBytes
          <6>3. ASSUME NEW i \in 1..l
                PROVE  v[0 + i] = all[a + i]
            BY ONLY <5>3 DEF SameBytes
          <6> QED
            BY ONLY <6>1, <6>2, <6>3 DEF SameBytes
        <5> QED
          BY <5>4 DEF a, l, v
      <4> QED
        BY <2>7, <4>1, <4>2, <4>4
    <3>2. CASE k = n + 1
      <4>1. sent'[k] = m /\ k + 1 = n + 2 /\ more[k] = Len(old) /\ k \in 1..n + 1
        BY <1>7, <2>5, <2>7, <3>2, SMTT(20) DEF n
      <4>2. more[k + 1] = more[k] + 9 + Len(sent'[k].data)
        BY <2>5, <2>7, <3>2, <4>1 DEF d
      <4>3. SameBytes(e, 0, all, Len(old), 9 + d)
        <5>1. Len(old) + (9 + d) <= Len(all) /\ 0 + (9 + d) <= Len(e)
          <6>1. Len(e) = 9 + d
            BY <1>4 DEF e, d
          <6> QED
            BY ONLY <2>4, <2>5, <6>1
        <5>2. ASSUME NEW i \in 1..9 + d
              PROVE  e[0 + i] = all[Len(old) + i]
          <6>1. 0 + i = i
            BY <2>5
          <6> QED
            BY <2>4, <6>1
        <5> QED
          BY <5>1, <5>2 DEF SameBytes
      <4> QED
        BY <4>1, <4>2, <4>3 DEF e, d
    <3> QED
      BY <2>5, <3>1, <3>2
  <2>10. more[Len(sent') + 1] = Len(received') + Len(wire')
    BY <1>7, <2>4, <2>5, <2>7 DEF n
  <2>11. more[Len(got') + 1] = pos'
    <3>1. Len(got) + 1 \in 1..n + 1
      BY <1>3, <1>7, <2>3 DEF n
    <3> QED
      BY <1>2, <2>5, <2>7, <3>1
  <2>12. Len(sent') = n + 1 /\ Len(sent') + 1 = n + 2
    BY <1>7 DEF n
  <2>17. PICK begin : begin = more
    OBVIOUS
  <2>13. InFrames(begin)'
    <3>1. more \in [1..Len(sent') + 1 -> Nat]
      BY ONLY <2>7, <2>12
    <3>2. ASSUME NEW j \in 1..Len(sent') + 1, NEW k \in 1..Len(sent') + 1, j < k
          PROVE  more[j] + Overhead <= more[k]
      <4>1. j \in 1..n + 2 /\ k \in 1..n + 2 /\ Overhead = 9
        BY <2>12, Sizes
      <4>2. more[j] + 9 <= more[k]
        BY ONLY <2>8, <3>2, <4>1
      <4> QED
        BY ONLY <4>1, <4>2
    <3>3. ASSUME NEW k \in 1..Len(sent')
          PROVE  /\ more[k + 1] = more[k] + Overhead + Len(sent'[k].data)
                 /\ SameBytes(Encoded(sent'[k]), 0, received' \o wire', more[k],
                              Overhead + Len(sent'[k].data))
      <4>1. k \in 1..n + 1 /\ Overhead = 9
        BY <2>12, Sizes
      <4>2. /\ more[k + 1] = more[k] + 9 + Len(sent'[k].data)
            /\ SameBytes(Encoded(sent'[k]), 0, all, more[k], 9 + Len(sent'[k].data))
        BY ONLY <2>9, <4>1
      <4> QED
        BY ONLY <4>1, <4>2 DEF all
    <3> QED
      BY ONLY <2>10, <2>11, <2>17, <3>1, <3>2, <3>3 DEF InFrames, FrameAt
  <2>14. ASSUME NEW k \in DOMAIN got'
         PROVE  sent'[k] = [type |-> got'[k].type, data |-> got'[k].data]
    <3>1. k \in DOMAIN got /\ k \in 1..Len(sent)
      BY <1>2, <1>3, <1>7, <2>3
    <3> QED
      BY <1>2, <1>7, <2>1, <3>1 DEF InStep
  <2>15. Len(got') <= Len(sent')
    BY <1>2, <1>3, <1>7, <2>3
  <2>16. more \in [1..Len(sent') + 1 -> Nat]
    BY <2>7, <2>12
  <2> QED
    BY ONLY <2>13, <2>14, <2>15, <2>16, <2>17
<1> QED
  BY <1>8, <1>9, <1>10
----------------------------------------------------------------------------
\* A piece read goes from the line to the buffer, for which there is room.
LEMMA ReadKeeps ==
    ASSUME FrameInv, Read
    PROVE  FrameInv'
<1> USE DEF FrameInv
<1>1. PICK n \in 0..ReadSize :
         /\ n <= Len(wire)
         /\ rdbuf' = rdbuf \o SubSeq(wire, 1, n)
         /\ received' = received \o SubSeq(wire, 1, n)
         /\ wire' = SubSeq(wire, n + 1, Len(wire))
         /\ pc' = IF n = 0 THEN "poll" ELSE "parse"
  BY DEF Read
<1>2. /\ pc = "poll" /\ alloc' = Extended(alloc, Len(rdbuf) + 16)
      /\ UNCHANGED <<sent, faults, pos, got>>
  BY Sizes DEF Read
<1>3. /\ rdbuf \in Seq(Octet) /\ received \in Seq(Octet) /\ wire \in Seq(Octet)
      /\ pos \in 0..Len(received) /\ pos \in Nat
      /\ alloc \in Nat /\ (alloc = 0 \/ alloc >= 16)
      /\ Len(rdbuf) \in Nat /\ Len(received) \in Nat /\ Len(wire) \in Nat
      /\ Len(received) = pos + Len(rdbuf)
      /\ n \in Nat /\ n <= 16
  BY Sizes DEF FrameTypes, Buffered
<1> DEFINE w == SubSeq(wire, 1, n)
           behind == SubSeq(wire, n + 1, Len(wire))
<1>4. /\ w \in Seq(Octet) /\ Len(w) = n /\ w \o behind = wire
      /\ behind \in Seq(Octet) /\ Len(behind) = Len(wire) - n
  <2>1. w \in Seq(Octet) /\ Len(w) = n /\ w \o behind = wire
    BY <1>1, <1>3, Start
  <2>2. behind \in Seq(Octet) /\ Len(behind) = Len(wire) - n
    BY <1>1, <1>3, Rest
  <2> QED
    BY <2>1, <2>2
<1>5. rdbuf' = rdbuf \o w /\ received' = received \o w /\ wire' = behind
  BY <1>1
<1> HIDE DEF w, behind
<1>6. /\ rdbuf' \in Seq(Octet) /\ Len(rdbuf') = Len(rdbuf) + n
      /\ \A i \in 1..Len(rdbuf) : rdbuf'[i] = rdbuf[i]
      /\ \A i \in 1..n : rdbuf'[Len(rdbuf) + i] = w[i]
  <2>1. /\ rdbuf \o w \in Seq(Octet) /\ Len(rdbuf \o w) = Len(rdbuf) + Len(w)
        /\ \A i \in 1..Len(rdbuf) : (rdbuf \o w)[i] = rdbuf[i]
        /\ \A i \in 1..Len(w) : (rdbuf \o w)[Len(rdbuf) + i] = w[i]
    BY <1>3, <1>4, Joined, Zenon
  <2> QED
    BY ONLY <1>4, <1>5, <2>1, Zenon
<1>7. /\ received' \in Seq(Octet) /\ Len(received') = Len(received) + n
      /\ \A i \in 1..Len(received) : received'[i] = received[i]
      /\ \A i \in 1..n : received'[Len(received) + i] = w[i]
  <2>1. /\ received \o w \in Seq(Octet) /\ Len(received \o w) = Len(received) + Len(w)
        /\ \A i \in 1..Len(received) : (received \o w)[i] = received[i]
        /\ \A i \in 1..Len(w) : (received \o w)[Len(received) + i] = w[i]
    BY <1>3, <1>4, Joined, Zenon
  <2> QED
    BY ONLY <1>4, <1>5, <2>1, Zenon
<1>8. /\ alloc' \in Nat /\ (alloc' = 0 \/ alloc' >= 16)
      /\ alloc' >= Len(rdbuf) + 16
  <2>1. Len(rdbuf) < 2^16 + 9
    <3>1. 2^16 = 65536
      BY SMT
    <3>2. CASE Len(rdbuf) < 9
      BY ONLY <1>3, <3>1, <3>2, SMT
    <3>3. CASE Len(rdbuf) >= 9
      <4>1. /\ FrameSize(rdbuf, 0) = 9 + DataSize(rdbuf, 0) /\ DataSize(rdbuf, 0) \in Nat
            /\ FrameSize(rdbuf, 0) < 2^16 + 9
        BY <1>3, <3>3, Measured
      <4>2. Len(rdbuf) < FrameSize(rdbuf, 0)
        BY <1>2, <1>3, <3>3, Sizes DEF Waiting
      <4> QED
        BY ONLY <1>3, <3>1, <4>1, <4>2, SMT
    <3> QED
      BY ONLY <1>3, <3>2, <3>3
  <2> DEFINE need == Len(rdbuf) + 16
  <2>2. need \in Nat /\ need <= 2^16 + 32
    <3>1. 2^16 = 65536
      BY SMT
    <3> QED
      BY ONLY <1>3, <2>1, <3>1, SMT
  <2> HIDE DEF need
  <2>3. /\ Extended(alloc, need) \in Nat
        /\ Extended(alloc, need) = 0 \/ Extended(alloc, need) >= 16
        /\ Extended(alloc, need) >= need
    BY ONLY <1>3, <2>2, RoomIsMade, SMTT(20)
  <2> QED
    BY <1>2, <2>3 DEF need
<1>9. FrameTypes'
  <2>1. pos' \in 0..Len(received') /\ faults' = faults /\ sent' = sent /\ got' = got
    BY <1>2, <1>3, <1>7
  <2>2. pc' \in {"poll", "parse"} /\ wire' \in Seq(Octet)
    BY <1>1, <1>4, <1>5
  <2> QED
    BY <1>6, <1>7, <1>8, <2>1, <2>2 DEF FrameTypes
<1>10. Buffered'
  <2>1. ASSUME NEW i \in 1..Len(rdbuf')
        PROVE  rdbuf'[0 + i] = received'[pos' + i]
    <3>1. i \in Int /\ 0 + i = i /\ pos' = pos
      BY <1>2
    <3>2. CASE i <= Len(rdbuf)
      <4>1. i \in 1..Len(rdbuf) /\ pos + i \in 1..Len(received)
        BY <1>3, <3>2
      <4>2. rdbuf[0 + i] = received[pos + i]
        BY <4>1 DEF Buffered, SameBytes
      <4> QED
        BY ONLY <1>6, <1>7, <3>1, <4>1, <4>2
    <3>3. CASE i > Len(rdbuf)
      <4> DEFINE j == i - Len(rdbuf)
      <4>1. /\ j \in 1..n /\ i = Len(rdbuf) + j /\ pos + i = Len(received) + j
        BY ONLY <1>3, <1>6, <3>1, <3>3
      <4> HIDE DEF j
      <4>2. rdbuf'[Len(rdbuf) + j] = w[j] /\ received'[Len(received) + j] = w[j]
        BY ONLY <1>6, <1>7, <4>1
      <4> QED
        BY ONLY <3>1, <4>1, <4>2
    <3> QED
      BY ONLY <1>3, <3>1, <3>2, <3>3
  <2>2. /\ Len(received') = pos' + Len(rdbuf') /\ Len(rdbuf') <= alloc'
        /\ 0 + Len(rdbuf') <= Len(rdbuf') /\ pos' + Len(rdbuf') <= Len(received')
    BY <1>2, <1>3, <1>6, <1>7, <1>8, SMTT(20)
  <2> QED
    BY <2>1, <2>2 DEF Buffered, SameBytes
<1>11. Waiting'
  <2>1. CASE n = 0
    <3>1. w = <<>>
      BY <1>4, <2>1
    <3>2. rdbuf' = rdbuf
      BY <1>3, <1>5, <3>1
    <3> QED
      BY <1>2, <3>2 DEF Waiting
  <2>2. CASE n # 0
    BY <1>1, <2>2 DEF Waiting
  <2> QED
    BY <2>1, <2>2
<1>12. Passed'
  <2> SUFFICES ASSUME NEW k \in 0..pos' - 1
               PROVE  Covered(k)' \/ NoFrameAt(received', k)
    BY DEF Passed
  <2>1. k \in Nat /\ k \in 0..pos - 1 /\ k <= Len(received)
    BY <1>2, <1>3
  <2>2. Covered(k) => Covered(k)'
    BY <1>2 DEF Covered
  <2> DEFINE l == Len(received) - k
  <2>3. l \in Nat /\ l >= 1
    BY <1>3, <2>1
  <2>4. l = Len(received) - k /\ SameBytes(received, k, received', k, l)
    BY <1>3, <1>4, <1>5, <2>1, Prefix
  <2> HIDE DEF l
  <2>5. NoFrameAt(received, k) => NoFrameAt(received', k)
    BY <1>3, <1>7, <2>1, <2>3, <2>4, NoFrameMoves, SMTT(20)
  <2>6. Covered(k) \/ NoFrameAt(received, k)
    BY <2>1 DEF Passed
  <2> QED
    BY <2>2, <2>5, <2>6
<1>13. InStep'
  <2>1. received' \o wire' = received \o wire
    <3>1. (received \o w) \o behind = received \o (w \o behind)
      <4>1. received \in Seq(Octet) /\ w \in Seq(Octet) /\ behind \in Seq(Octet)
        BY <1>3, <1>4
      <4> QED
        BY ONLY <4>1, ConcatAssociative, SMTT(30)
    <3> QED
      BY <1>4, <1>5, <3>1
  <2>2. Len(received') + Len(wire') = Len(received) + Len(wire)
    <3>1. Len(received') = Len(received) + n /\ Len(wire') = Len(wire) - n
      BY <1>4, <1>5, <1>7
    <3> QED
      BY ONLY <1>3, <3>1
  <2> QED
    BY <1>2, <2>1, <2>2 DEF InStep, InFrames, FrameAt
<1> QED
  BY <1>9, <1>10, <1>11, <1>12, <1>13
----------------------------------------------------------------------------
\* The invariant holds.
LEMMA FramesInvHolds == FramesSpec => []FrameInv
<1>1. FramesInit => FrameInv
  BY FramesBegin
<1>2. FrameInv /\ [FramesNext]_frameVars => FrameInv'
  <2> SUFFICES ASSUME FrameInv, [FramesNext]_frameVars
               PROVE  FrameInv'
    OBVIOUS
  <2>1. CASE Send
    BY <2>1, SendKeeps
  <2>2. CASE Read
    BY <2>2, ReadKeeps
  <2>3. CASE NeedMore
    BY <2>3, NeedMoreKeeps
  <2>4. CASE Invalid
    BY <2>4, InvalidKeeps
  <2>5. CASE GotMessage
    BY <2>5, GotMessageKeeps
  <2>6. CASE UNCHANGED frameVars
    BY <2>6 DEF frameVars, lineVars, FrameInv, FrameTypes, Buffered, SameBytes, Waiting,
                Passed, Covered, InStep, InFrames, FrameAt
  <2> QED
    BY <2>1, <2>2, <2>3, <2>4, <2>5, <2>6 DEF FramesNext, Loop
<1> QED
  BY <1>1, <1>2, PTL DEF FramesSpec

\* A pass that does not end the loop takes something from the front of the buffer: a
\* byte that was rejected is never looked at again, and a frame has a header.
LEMMA PassShortens ==
    ASSUME FrameInv, Loop
    PROVE  pc' = "poll" \/ (pc' = "parse" /\ Len(rdbuf') < Len(rdbuf))
<1>1. rdbuf \in Seq(Octet) /\ Len(rdbuf) \in Nat
  BY DEF FrameInv, FrameTypes
<1>2. ASSUME NEW c \in Nat, 1 <= c, c <= Len(rdbuf), Shift(c)
      PROVE  Len(rdbuf') < Len(rdbuf)
  <2>1. Len(SubSeq(rdbuf, c + 1, Len(rdbuf))) = Len(rdbuf) - c
    BY <1>1, <1>2, Rest
  <2> QED
    BY <1>1, <1>2, <2>1 DEF Shift
<1>3. CASE NeedMore
  BY <1>3 DEF NeedMore
<1>4. CASE Invalid
  <2>1. CASE Found = {} /\ pc' = "poll"
    BY <2>1
  <2>2. CASE Found # {} /\ Shift(CHOOSE k \in Found : \A j \in Found : k <= j)
             /\ UNCHANGED pc
    <3> DEFINE c == CHOOSE k \in Found : \A j \in Found : k <= j
    <3>1. Found \in SUBSET Nat
      BY <1>1 DEF Found
    <3>2. c \in Found
      BY <2>2, <3>1, Least
    <3>3. Shift(c)
      BY <2>2
    <3> HIDE DEF c
    <3>4. c \in Nat /\ 1 <= c /\ c <= Len(rdbuf)
      BY <1>1, <3>2 DEF Found
    <3>5. Len(rdbuf') < Len(rdbuf)
      BY <1>2, <3>3, <3>4
    <3> QED
      BY <1>4, <2>2, <3>5 DEF Invalid
  <2> QED
    BY <1>4, <2>1, <2>2 DEF Invalid, Resync
<1>5. CASE GotMessage
  <2> DEFINE c == FrameSize(rdbuf, 0)
  <2>1. /\ 9 <= Len(rdbuf) /\ c <= Len(rdbuf) /\ Shift(c)
        /\ pc = "parse" /\ pc' = pc
    BY <1>1, <1>5, Sizes DEF GotMessage, Enough, Whole
  <2>2. c = 9 + DataSize(rdbuf, 0) /\ DataSize(rdbuf, 0) \in Nat
    BY <1>1, <2>1, Measured
  <2> HIDE DEF c
  <2>3. c \in Nat /\ 1 <= c
    BY <2>2
  <2> QED
    BY <1>2, <2>1, <2>3
<1> QED
  BY <1>3, <1>4, <1>5 DEF Loop

\* nbp_read does not spin: every pass of its loop ends it or leaves less in the buffer,
\* so that it comes to its end whatever the bytes, a header with a wrong length and a
\* checksum that is wrong included (nest.c:214-248; that the passes are taken is
\* LoopEnds, which is checked).
THEOREM PassesComeToAnEnd ==
    FramesSpec => [][Loop => \/ pc' = "poll"
                             \/ pc' = "parse" /\ Len(rdbuf') < Len(rdbuf)]_frameVars
<1>1. FrameInv /\ [FramesNext]_frameVars
        => [Loop => \/ pc' = "poll"
                    \/ pc' = "parse" /\ Len(rdbuf') < Len(rdbuf)]_frameVars
  BY PassShortens
<1> QED
  BY <1>1, FramesInvHolds, PTL DEF FramesSpec

\* No whole frame among the bytes read is passed over: nbp_read finds it, or it
\* lies within one that nbp_read found, or it is still in its buffer, for which
\* there is room, whatever the line does and however the bytes are cut into pieces
\* (nest.c:214-247, bytes.h:56-84).
THEOREM FramesAreFound == FramesSpec => []NoFrameLost
<1>1. FrameInv => NoFrameLost
  <2> SUFFICES ASSUME FrameInv
               PROVE  NoFrameLost
    OBVIOUS
  <2> USE DEF FrameInv
  <2>1. /\ rdbuf \in Seq(Octet) /\ received \in Seq(Octet) /\ pos \in Nat
        /\ Len(rdbuf) \in Nat /\ Len(received) \in Nat /\ pos <= Len(received)
        /\ Len(received) = pos + Len(rdbuf) /\ Len(rdbuf) <= alloc
        /\ \A i \in 1..Len(rdbuf) : rdbuf[0 + i] = received[pos + i]
    BY SMTT(20) DEF FrameTypes, Buffered, SameBytes
  <2>2. rdbuf = SubSeq(received, pos + 1, Len(received))
    <3> DEFINE v == SubSeq(received, pos + 1, Len(received))
    <3>1. /\ v \in Seq(Octet) /\ Len(v) = Len(received) - pos
          /\ \A i \in 1..Len(received) - pos : v[i] = received[pos + i]
      BY <2>1, Rest
    <3> HIDE DEF v
    <3>2. Len(v) = Len(rdbuf) /\ Len(received) - pos = Len(rdbuf)
      BY <2>1, <3>1
    <3>3. ASSUME NEW i \in 1..Len(rdbuf)
          PROVE  rdbuf[i] = v[i]
      <4>1. 0 + i = i
        OBVIOUS
      <4>2. v[i] = received[pos + i]
        BY ONLY <3>1, <3>2
      <4>3. rdbuf[0 + i] = received[pos + i]
        BY ONLY <2>1
      <4> QED
        BY ONLY <4>1, <4>2, <4>3
    <3>4. rdbuf = v
      BY <2>1, <3>1, <3>2, <3>3, SeqEqual
    <3> QED
      BY <3>4 DEF v
  <2>3. ASSUME NEW k \in 0..pos - 1, IntactAt(k)
        PROVE  Covered(k)
    <3>1. Covered(k) \/ NoFrameAt(received, k)
      BY DEF Passed
    <3>2. ~NoFrameAt(received, k)
      <4>1. received[k + 1] = Header[1]
        <5>1. Byte(received, k + 1 - 1) = Header[1]
          BY <2>3 DEF IntactAt, IntactIn, HasHeader
        <5>2. k + 1 - 1 + 1 = k + 1
          BY <2>1
        <5> QED
          BY <5>1, <5>2 DEF Byte
      <4> QED
        BY <2>3, <4>1 DEF NoFrameAt, IntactAt, IntactIn
    <3> QED
      BY <3>1, <3>2
  <2> QED
    BY <2>1, <2>2, <2>3 DEF NoFrameLost, Covered
<1> QED
  BY <1>1, FramesInvHolds, PTL

\* On a line without faults nbp_read has found what was sent, in order and nothing
\* else, as soon as the last byte has been read (nest.c:66-90, 216-247).
THEOREM FramesArrive == FramesSpec => []CleanLineDelivers
<1>1. FrameInv => CleanLineDelivers
  <2> SUFFICES ASSUME FrameInv, faults = 0, wire = <<>>, pc = "poll"
               PROVE  /\ rdbuf = <<>>
                      /\ sent = [k \in DOMAIN got |-> [type |-> got[k].type,
                                                       data |-> got[k].data]]
    BY DEF CleanLineDelivers
  <2> USE DEF FrameInv
  <2>1. /\ rdbuf \in Seq(Octet) /\ received \in Seq(Octet) /\ pos \in Nat
        /\ Len(rdbuf) \in Nat /\ Len(received) = pos + Len(rdbuf)
        /\ sent \in Seq(Messages) /\ Len(sent) \in Nat /\ Len(got) \in Nat
        /\ got \in Seq([at : Nat, type : Word16, data : Seq(Octet)])
        /\ Len(got) <= Len(sent) /\ DOMAIN got = 1..Len(got)
    BY DEF FrameTypes, Buffered, InStep
  <2>2. PICK start \in [1..Len(sent) + 1 -> Nat] : InFrames(start)
    BY DEF InStep
  <2>3. start[Len(got) + 1] = pos /\ start[Len(sent) + 1] = pos + Len(rdbuf)
    <3>1. Len(wire) = 0
      OBVIOUS
    <3>2. start[Len(sent) + 1] = Len(received) + Len(wire) /\ start[Len(got) + 1] = pos
      BY <2>2 DEF InFrames
    <3> QED
      BY <2>1, <3>1, <3>2
  <2>4. Len(got) = Len(sent)
    <3> SUFFICES ASSUME Len(got) < Len(sent)
                 PROVE  FALSE
      BY <2>1
    <3> DEFINE k == Len(got) + 1
               m == sent[k]
               d == Len(m.data)
    <3>1. k \in 1..Len(sent) /\ k + 1 \in 1..Len(sent) + 1 /\ m \in Messages /\ d \in Nat
      <4>1. k \in 1..Len(sent) /\ k + 1 \in 1..Len(sent) + 1
        BY <2>1
      <4>2. m \in Messages
        BY <2>1, <4>1, ElementOfSeq
      <4> QED
        BY <4>1, <4>2, EncodedFrame
    <3>2. start[k + 1] = pos + 9 + d
      BY <2>2, <2>3, <3>1, Sizes, SMTT(20) DEF InFrames
    <3>3. start[k + 1] <= start[Len(sent) + 1]
      <4>1. k + 1 = Len(sent) + 1 \/ k + 1 < Len(sent) + 1
        BY <2>1
      <4>2. CASE k + 1 < Len(sent) + 1
        <5>1. Len(sent) + 1 \in 1..Len(sent) + 1 /\ Overhead = 9
          BY <2>1, Sizes
        <5>2. start[k + 1] + Overhead <= start[Len(sent) + 1]
          BY <2>2, <3>1, <4>2, <5>1, Zenon DEF InFrames
        <5>3. start[k + 1] \in Nat /\ start[Len(sent) + 1] \in Nat
          BY <3>1, <5>1
        <5> QED
          BY <5>1, <5>2, <5>3
      <4>3. start[k + 1] \in Nat
        BY <3>1
      <4> QED
        BY <4>1, <4>2, <4>3
    <3> HIDE DEF k, m, d
    <3>4. Len(rdbuf) >= 9 + d
      BY <2>1, <2>3, <3>1, <3>2, <3>3
    <3>5. Len(rdbuf) >= 9
      BY <2>1, <3>1, <3>4
    <3>6. FrameSize(rdbuf, 0) = 9 + d
      BY <3>5, AtAFrame DEF k, m, d
    <3>7. Len(rdbuf) < 9 + d
      BY <2>1, <3>5, <3>6, Sizes DEF Waiting
    <3> QED
      BY <2>1, <3>1, <3>4, <3>7
  <2>5. rdbuf = <<>>
    <3>1. Len(rdbuf) = 0
      BY <2>1, <2>3, <2>4
    <3> QED
      BY <2>1, <3>1
  <2>6. sent = [k \in DOMAIN got |-> [type |-> got[k].type, data |-> got[k].data]]
    <3>1. DOMAIN sent = DOMAIN got
      BY <2>1, <2>4
    <3>2. \A k \in DOMAIN got : sent[k] = [type |-> got[k].type, data |-> got[k].data]
      BY DEF InStep
    <3>3. sent = [k \in DOMAIN sent |-> sent[k]]
      BY <2>1
    <3> QED
      BY <3>1, <3>2, <3>3
  <2> QED
    BY <2>5, <2>6
<1> QED
  BY <1>1, FramesInvHolds, PTL
----------------------------------------------------------------------------
(* The checksum.                                                           *)

\* The exclusive or of numbers below n is below n, and each of the two can be told from
\* it and the other.
LEMMA OneBit ==
    /\ \A a, b \in 0..1 : Xor1(a, b) \in 0..1
    /\ \A a, b, c \in 0..1 : Xor1(a, b) = Xor1(a, c) => b = c
    /\ \A a, b, c \in 0..1 : Xor1(a, b) = Xor1(c, b) => a = c
    /\ \A b \in 0..1 : Xor1(0, b) = b
  BY SMT DEF Xor1

LEMMA TwoBits ==
    /\ \A a, b \in 0..3 : Xor2(a, b) \in 0..3
    /\ \A a, b, c \in 0..3 : Xor2(a, b) = Xor2(a, c) => b = c
    /\ \A a, b, c \in 0..3 : Xor2(a, b) = Xor2(c, b) => a = c
    /\ \A b \in 0..3 : Xor2(0, b) = b
<1> DEFINE Up(a) == a \div 2
           Down(a) == a % 2
           Both(x, u) == 2 * x + u
           Part == 0..1
           All == 0..3
<1>1. \A a \in All : Up(a) \in Part /\ Down(a) \in Part /\ a = Both(Up(a), Down(a))
  BY SMT
<1>2. Up(0) = 0 /\ Down(0) = 0 /\ 0 \in Part /\ 0 \in All
  BY SMT
<1>3. \A x, y, u, v \in Part : /\ Both(x, u) \in All
                               /\ Both(x, u) = Both(y, v) => x = y /\ u = v
  BY SMT
<1>4. \A a, b : Xor2(a, b) = Both(Xor1(Up(a), Up(b)), Xor1(Down(a), Down(b)))
  BY DEF Xor2
<1>5. /\ \A a, b \in Part : Xor1(a, b) \in Part
      /\ \A a, b, c \in Part : Xor1(a, b) = Xor1(a, c) => b = c
      /\ \A a, b, c \in Part : Xor1(a, b) = Xor1(c, b) => a = c
      /\ \A b \in Part : Xor1(0, b) = b
  BY <1>2, OneBit
<1> HIDE DEF Up, Down, Both, Part, All
<1>6. \A a, b \in All : Xor2(a, b) \in All
  BY <1>1, <1>3, <1>4, <1>5
<1>7. ASSUME NEW a \in All, NEW b \in All, NEW c \in All, Xor2(a, b) = Xor2(a, c)
      PROVE  b = c
  <2>1. /\ Up(a) \in Part /\ Up(b) \in Part /\ Up(c) \in Part
        /\ Down(a) \in Part /\ Down(b) \in Part /\ Down(c) \in Part
    BY <1>1
  <2>2. /\ Xor1(Up(a), Up(b)) = Xor1(Up(a), Up(c))
        /\ Xor1(Down(a), Down(b)) = Xor1(Down(a), Down(c))
    BY <1>3, <1>4, <1>5, <1>7, <2>1
  <2>3. Up(b) = Up(c) /\ Down(b) = Down(c)
    BY <1>5, <2>1, <2>2
  <2> QED
    BY <1>1, <2>3
<1>8. ASSUME NEW a \in All, NEW b \in All, NEW c \in All, Xor2(a, b) = Xor2(c, b)
      PROVE  a = c
  <2>1. /\ Up(a) \in Part /\ Up(b) \in Part /\ Up(c) \in Part
        /\ Down(a) \in Part /\ Down(b) \in Part /\ Down(c) \in Part
    BY <1>1
  <2>2. /\ Xor1(Up(a), Up(b)) = Xor1(Up(c), Up(b))
        /\ Xor1(Down(a), Down(b)) = Xor1(Down(c), Down(b))
    BY <1>3, <1>4, <1>5, <1>8, <2>1
  <2>3. Up(a) = Up(c) /\ Down(a) = Down(c)
    BY <1>5, <2>1, <2>2
  <2> QED
    BY <1>1, <2>3
<1>9. \A b \in All : Xor2(0, b) = b
  BY <1>1, <1>2, <1>4, <1>5
<1> QED
  BY <1>6, <1>7, <1>8, <1>9 DEF All

LEMMA FourBits ==
    /\ \A a, b \in 0..15 : Xor4(a, b) \in 0..15
    /\ \A a, b, c \in 0..15 : Xor4(a, b) = Xor4(a, c) => b = c
    /\ \A a, b, c \in 0..15 : Xor4(a, b) = Xor4(c, b) => a = c
    /\ \A b \in 0..15 : Xor4(0, b) = b
<1> DEFINE Up(a) == a \div 4
           Down(a) == a % 4
           Both(x, u) == 4 * x + u
           Part == 0..3
           All == 0..15
<1>1. \A a \in All : Up(a) \in Part /\ Down(a) \in Part /\ a = Both(Up(a), Down(a))
  BY SMT
<1>2. Up(0) = 0 /\ Down(0) = 0 /\ 0 \in Part /\ 0 \in All
  BY SMT
<1>3. \A x, y, u, v \in Part : /\ Both(x, u) \in All
                               /\ Both(x, u) = Both(y, v) => x = y /\ u = v
  BY SMT
<1>4. \A a, b : Xor4(a, b) = Both(Xor2(Up(a), Up(b)), Xor2(Down(a), Down(b)))
  BY DEF Xor4
<1>5. /\ \A a, b \in Part : Xor2(a, b) \in Part
      /\ \A a, b, c \in Part : Xor2(a, b) = Xor2(a, c) => b = c
      /\ \A a, b, c \in Part : Xor2(a, b) = Xor2(c, b) => a = c
      /\ \A b \in Part : Xor2(0, b) = b
  BY <1>2, TwoBits
<1> HIDE DEF Up, Down, Both, Part, All
<1>6. \A a, b \in All : Xor4(a, b) \in All
  BY <1>1, <1>3, <1>4, <1>5
<1>7. ASSUME NEW a \in All, NEW b \in All, NEW c \in All, Xor4(a, b) = Xor4(a, c)
      PROVE  b = c
  <2>1. /\ Up(a) \in Part /\ Up(b) \in Part /\ Up(c) \in Part
        /\ Down(a) \in Part /\ Down(b) \in Part /\ Down(c) \in Part
    BY <1>1
  <2>2. /\ Xor2(Up(a), Up(b)) = Xor2(Up(a), Up(c))
        /\ Xor2(Down(a), Down(b)) = Xor2(Down(a), Down(c))
    BY <1>3, <1>4, <1>5, <1>7, <2>1
  <2>3. Up(b) = Up(c) /\ Down(b) = Down(c)
    BY <1>5, <2>1, <2>2
  <2> QED
    BY <1>1, <2>3
<1>8. ASSUME NEW a \in All, NEW b \in All, NEW c \in All, Xor4(a, b) = Xor4(c, b)
      PROVE  a = c
  <2>1. /\ Up(a) \in Part /\ Up(b) \in Part /\ Up(c) \in Part
        /\ Down(a) \in Part /\ Down(b) \in Part /\ Down(c) \in Part
    BY <1>1
  <2>2. /\ Xor2(Up(a), Up(b)) = Xor2(Up(c), Up(b))
        /\ Xor2(Down(a), Down(b)) = Xor2(Down(c), Down(b))
    BY <1>3, <1>4, <1>5, <1>8, <2>1
  <2>3. Up(a) = Up(c) /\ Down(a) = Down(c)
    BY <1>5, <2>1, <2>2
  <2> QED
    BY <1>1, <2>3
<1>9. \A b \in All : Xor4(0, b) = b
  BY <1>1, <1>2, <1>4, <1>5
<1> QED
  BY <1>6, <1>7, <1>8, <1>9 DEF All

LEMMA EightBits ==
    /\ \A a, b \in Octet : Xor8(a, b) \in Octet
    /\ \A a, b, c \in Octet : Xor8(a, b) = Xor8(a, c) => b = c
    /\ \A a, b, c \in Octet : Xor8(a, b) = Xor8(c, b) => a = c
    /\ \A b \in Octet : Xor8(0, b) = b
<1> DEFINE Up(a) == a \div 16
           Down(a) == a % 16
           Both(x, u) == 16 * x + u
           Part == 0..15
           All == Octet
<1>0. Octet = 0..255
  BY SMT DEF Octet
<1>1. \A a \in All : Up(a) \in Part /\ Down(a) \in Part /\ a = Both(Up(a), Down(a))
  BY <1>0, SMT
<1>2. Up(0) = 0 /\ Down(0) = 0 /\ 0 \in Part /\ 0 \in All
  BY <1>0, SMT
<1>3. \A x, y, u, v \in Part : /\ Both(x, u) \in All
                               /\ Both(x, u) = Both(y, v) => x = y /\ u = v
  BY <1>0, SMT
<1>4. \A a, b : Xor8(a, b) = Both(Xor4(Up(a), Up(b)), Xor4(Down(a), Down(b)))
  BY DEF Xor8
<1>5. /\ \A a, b \in Part : Xor4(a, b) \in Part
      /\ \A a, b, c \in Part : Xor4(a, b) = Xor4(a, c) => b = c
      /\ \A a, b, c \in Part : Xor4(a, b) = Xor4(c, b) => a = c
      /\ \A b \in Part : Xor4(0, b) = b
  BY <1>2, FourBits
<1> HIDE DEF Up, Down, Both, Part, All
<1>6. \A a, b \in All : Xor8(a, b) \in All
  BY <1>1, <1>3, <1>4, <1>5
<1>7. ASSUME NEW a \in All, NEW b \in All, NEW c \in All, Xor8(a, b) = Xor8(a, c)
      PROVE  b = c
  <2>1. /\ Up(a) \in Part /\ Up(b) \in Part /\ Up(c) \in Part
        /\ Down(a) \in Part /\ Down(b) \in Part /\ Down(c) \in Part
    BY <1>1
  <2>2. /\ Xor4(Up(a), Up(b)) = Xor4(Up(a), Up(c))
        /\ Xor4(Down(a), Down(b)) = Xor4(Down(a), Down(c))
    BY <1>3, <1>4, <1>5, <1>7, <2>1
  <2>3. Up(b) = Up(c) /\ Down(b) = Down(c)
    BY <1>5, <2>1, <2>2
  <2> QED
    BY <1>1, <2>3
<1>8. ASSUME NEW a \in All, NEW b \in All, NEW c \in All, Xor8(a, b) = Xor8(c, b)
      PROVE  a = c
  <2>1. /\ Up(a) \in Part /\ Up(b) \in Part /\ Up(c) \in Part
        /\ Down(a) \in Part /\ Down(b) \in Part /\ Down(c) \in Part
    BY <1>1
  <2>2. /\ Xor4(Up(a), Up(b)) = Xor4(Up(c), Up(b))
        /\ Xor4(Down(a), Down(b)) = Xor4(Down(c), Down(b))
    BY <1>3, <1>4, <1>5, <1>8, <2>1
  <2>3. Up(a) = Up(c) /\ Down(a) = Down(c)
    BY <1>5, <2>1, <2>2
  <2> QED
    BY <1>1, <2>3
<1>9. \A b \in All : Xor8(0, b) = b
  BY <1>1, <1>2, <1>4, <1>5
<1> QED
  BY <1>6, <1>7, <1>8, <1>9 DEF All

\* The two bytes of a word.
Upper(a) == a \div 2^8
Lower(a) == a % 2^8
Joint(x, u) == 2^8 * x + u

LEMMA TwoBytes ==
    /\ \A a \in Word16 : Upper(a) \in Octet /\ Lower(a) \in Octet /\ a = Joint(Upper(a), Lower(a))
    /\ \A x, y, u, v \in Octet : /\ Joint(x, u) \in Word16
                                 /\ Joint(x, u) = Joint(y, v) => x = y /\ u = v
    /\ 0 \in Octet
<1>1. 2^8 = 256 /\ 2^16 = 65536
  BY SMT
<1>2. \A a \in Word16 : Upper(a) \in Octet /\ Lower(a) \in Octet /\ a = Joint(Upper(a), Lower(a))
  BY <1>1, SMT DEF Word16, Octet, Upper, Lower, Joint
<1>3. \A x, y, u, v \in Octet : /\ Joint(x, u) \in Word16
                                /\ Joint(x, u) = Joint(y, v) => x = y /\ u = v
  BY <1>1, SMT DEF Word16, Octet, Joint
<1>4. 0 \in Octet
  BY <1>1, SMT DEF Octet
<1> QED
  BY <1>2, <1>3, <1>4

\* A shift by a byte.
LEMMA ByteShift ==
    \A a \in Word16 : /\ Upper((a * 2^8) % 2^16) = Lower(a)
                      /\ Lower((a * 2^8) % 2^16) = 0
<1>1. 2^8 = 256 /\ 2^16 = 65536
  BY SMT
<1> QED
  BY <1>1, SMT DEF Word16, Upper, Lower

\* One byte's step can be undone: the low byte of the result tells the entry of the table,
\* and the entry the rest.
LEMMA StepTells ==
    ASSUME TableTells
    PROVE  \A c, d \in Word16, b, x \in Octet :
             /\ Next8(c, b) \in Word16
             /\ Next8(c, b) = Next8(d, b) => c = d
             /\ Next8(c, b) = Next8(c, x) => b = x
<1>1. /\ \A i \in Octet : crctab[i] \in Word16
      /\ \A i, j \in Octet : Lower(crctab[i]) = Lower(crctab[j]) => i = j
  BY Zenon DEF TableTells, Octet, Word16, Lower
<1>2. \A c \in Word16, b \in Octet :
         /\ Xor8(Upper(c), b) \in Octet
         /\ Next8(c, b) = Joint(Xor8(Lower(c), Upper(crctab[Xor8(Upper(c), b)])),
                                Lower(crctab[Xor8(Upper(c), b)]))
         /\ Xor8(Lower(c), Upper(crctab[Xor8(Upper(c), b)])) \in Octet
  <2> SUFFICES ASSUME NEW c \in Word16, NEW b \in Octet
               PROVE  /\ Xor8(Upper(c), b) \in Octet
                      /\ Next8(c, b) = Joint(Xor8(Lower(c), Upper(crctab[Xor8(Upper(c), b)])),
                                             Lower(crctab[Xor8(Upper(c), b)]))
                      /\ Xor8(Lower(c), Upper(crctab[Xor8(Upper(c), b)])) \in Octet
    BY Zenon
  <2> DEFINE i == Xor8(Upper(c), b)
             t == crctab[i]
             r == (c * 2^8) % 2^16
  <2>1. Upper(c) \in Octet /\ Lower(c) \in Octet
    BY TwoBytes, Zenon
  <2>2. i \in Octet
    BY <2>1, EightBits, Zenon
  <2>3. Next8(c, b) = Xor16(r, t)
    BY Zenon DEF Next8, Upper
  <2>4. Upper(r) = Lower(c) /\ Lower(r) = 0
    BY ByteShift, Zenon
  <2> HIDE DEF i, r
  <2>5. t \in Word16
    BY <1>1, <2>2, Zenon
  <2> HIDE DEF t
  <2>6. Upper(t) \in Octet /\ Lower(t) \in Octet
    BY <2>5, TwoBytes, Zenon
  <2>7. Xor16(r, t) = Joint(Xor8(Upper(r), Upper(t)), Xor8(Lower(r), Lower(t)))
    BY Zenon DEF Xor16, Joint, Upper, Lower
  <2>8. Xor8(Lower(r), Lower(t)) = Lower(t) /\ Xor8(Lower(c), Upper(t)) \in Octet
    BY <2>1, <2>4, <2>6, EightBits, Zenon
  <2> QED
    BY <2>2, <2>3, <2>4, <2>7, <2>8, Zenon DEF i, t
<1> HIDE DEF TableTells
<1>3. ASSUME NEW c \in Word16, NEW b \in Octet, NEW e \in Word16, NEW y \in Octet,
             Next8(c, b) = Next8(e, y)
      PROVE  /\ Xor8(Upper(c), b) = Xor8(Upper(e), y)
             /\ Lower(c) = Lower(e)
  <2> DEFINE i == Xor8(Upper(c), b)
             j == Xor8(Upper(e), y)
             t == crctab[i]
             u == crctab[j]
             p == Xor8(Lower(c), Upper(t))
             q == Xor8(Lower(e), Upper(u))
  <2>1. /\ i \in Octet /\ Next8(c, b) = Joint(p, Lower(t)) /\ p \in Octet
        /\ j \in Octet /\ Next8(e, y) = Joint(q, Lower(u)) /\ q \in Octet
    BY <1>2, Zenon
  <2>2. t \in Word16 /\ u \in Word16
    BY <1>1, <2>1, Zenon
  <2>3. /\ Lower(t) \in Octet /\ Lower(u) \in Octet /\ Upper(t) \in Octet
        /\ Lower(c) \in Octet /\ Lower(e) \in Octet
    BY <2>2, TwoBytes
  <2>4. Joint(p, Lower(t)) = Joint(q, Lower(u))
    BY <1>3, <2>1, Zenon
  <2>5. p = q /\ Lower(t) = Lower(u)
    <3> HIDE DEF p, q, t, u
    <3> QED
      BY <2>1, <2>3, <2>4, TwoBytes
  <2>6. i = j
    <3> HIDE DEF i, j
    <3> QED
      BY <1>1, <2>1, <2>5, Zenon
  <2>7. Xor8(Lower(c), Upper(t)) = Xor8(Lower(e), Upper(t))
    BY <2>5, <2>6, Zenon
  <2>8. Lower(c) = Lower(e)
    BY <2>3, <2>7, EightBits
  <2> QED
    BY <2>6, <2>8, Zenon
<1>4. ASSUME NEW c \in Word16, NEW d \in Word16, NEW b \in Octet, Next8(c, b) = Next8(d, b)
      PROVE  c = d
  <2>1. Xor8(Upper(c), b) = Xor8(Upper(d), b) /\ Lower(c) = Lower(d)
    BY <1>3, <1>4, Zenon
  <2>2. Upper(c) \in Octet /\ Upper(d) \in Octet
    BY TwoBytes
  <2>3. Upper(c) = Upper(d)
    BY <2>1, <2>2, EightBits
  <2>4. c = Joint(Upper(c), Lower(c)) /\ d = Joint(Upper(d), Lower(d))
    BY TwoBytes
  <2> QED
    BY <2>1, <2>3, <2>4, Zenon
<1>5. ASSUME NEW c \in Word16, NEW b \in Octet, NEW x \in Octet, Next8(c, b) = Next8(c, x)
      PROVE  b = x
  <2>1. Xor8(Upper(c), b) = Xor8(Upper(c), x)
    BY <1>3, <1>5, Zenon
  <2>2. Upper(c) \in Octet
    BY TwoBytes
  <2> QED
    BY <2>1, <2>2, EightBits
<1>6. ASSUME NEW c \in Word16, NEW b \in Octet
      PROVE  Next8(c, b) \in Word16
  <2>1. Xor8(Upper(c), b) \in Octet
    BY <1>2, Zenon
  <2>2. Lower(crctab[Xor8(Upper(c), b)]) \in Octet
    BY <1>1, <2>1, TwoBytes
  <2> QED
    BY <1>2, <2>2, TwoBytes
<1> QED
  BY <1>4, <1>5, <1>6, Zenon

\* What holds of 0, and of the next number with each, holds up to n.
LEMMA UpToHold ==
    ASSUME NEW n \in Nat, NEW S, 0 \in S, \A i \in 0..n - 1 : i \in S => i + 1 \in S
    PROVE  \A i \in 0..n : i \in S
<1> DEFINE Left == { i \in 0..n : i \notin S }
           k == CHOOSE i \in Left : \A j \in Left : i <= j
<1> SUFFICES ASSUME Left # {}
             PROVE  FALSE
  OBVIOUS
<1>1. Left \in SUBSET Nat
  OBVIOUS
<1>2. k \in Left /\ \A j \in Left : k <= j
  <2> HIDE DEF Left
  <2> QED
    BY <1>1, Least
<1> HIDE DEF k
<1>3. k \in 1..n /\ k - 1 \in 0..n - 1 /\ k - 1 \notin Left
  BY <1>2
<1>4. k - 1 \in S
  BY <1>3
<1>5. (k - 1) + 1 \in S
  BY <1>3, <1>4
<1> QED
  BY <1>2, <1>3, <1>5

\* The checksum after each byte.
LEMMA ByteByByte ==
    ASSUME NEW s \in Seq(Octet), TableTells
    PROVE  \E after :
             /\ after[0] = 0 /\ crc16ccitt(s) = after[Len(s)]
             /\ \A i \in 0..Len(s) : after[i] \in Word16
             /\ \A i \in 1..Len(s) : after[i] = Next8(after[i - 1], s[i])
<1> DEFINE n == Len(s)
           Step(c, i) == CHOOSE crc \in { Next8(d, b) : d \in {c}, b \in {s[i]} } : TRUE
           Until(g, k) == g = [i \in 0..k |-> IF i = 0 THEN 0 ELSE Step(g[i - 1], i)]
           There == { k \in 0..n : \E g : Until(g, k) }
<1>0. n \in Nat
  OBVIOUS
<1>1. crc16ccitt(s) = (CHOOSE g : Until(g, n))[n]
  BY DEF crc16ccitt
<1>2. \A c, i : Step(c, i) = Next8(c, s[i])
  OBVIOUS
<1> HIDE DEF Step, n
<1>3. 0 \in There
  <2> DEFINE g == [i \in 0..0 |-> 0]
  <2>1. Until(g, 0)
    OBVIOUS
  <2> HIDE DEF g
  <2> QED
    BY <1>0, <2>1
<1>4. \A k \in 0..n - 1 : k \in There => k + 1 \in There
  <2> SUFFICES ASSUME NEW k \in 0..n - 1, k \in There
               PROVE  k + 1 \in There
    OBVIOUS
  <2>1. PICK g : Until(g, k)
    OBVIOUS
  <2> DEFINE h == [i \in 0..k + 1 |-> IF i <= k THEN g[i] ELSE Step(g[k], k + 1)]
  <2>2. \A i \in 0..k + 1 : h[i] = IF i = 0 THEN 0 ELSE Step(h[i - 1], i)
    <3> SUFFICES ASSUME NEW i \in 0..k + 1
                 PROVE  h[i] = IF i = 0 THEN 0 ELSE Step(h[i - 1], i)
      OBVIOUS
    <3>1. CASE i = 0
      BY <1>0, <2>1, <3>1
    <3>2. CASE i \in 1..k
      <4>1. h[i] = g[i] /\ h[i - 1] = g[i - 1]
        BY <1>0, <3>2
      <4>2. g[i] = Step(g[i - 1], i)
        BY <1>0, <2>1, <3>2
      <4> QED
        BY <1>0, <3>2, <4>1, <4>2
    <3>3. CASE i = k + 1
      BY <1>0, <3>3
    <3> QED
      BY <1>0, <3>1, <3>2, <3>3
  <2>3. Until(h, k + 1)
    BY <2>2
  <2> HIDE DEF h
  <2> QED
    BY <1>0, <2>3
<1>5. n \in There
  <2>1. n \in 0..n
    BY <1>0
  <2> HIDE DEF There
  <2> QED
    BY <1>0, <1>3, <1>4, <2>1, UpToHold
<1>6. PICK after : Until(after, n) /\ crc16ccitt(s) = after[n]
  BY <1>1, <1>5
<1>7. /\ after[0] = 0
      /\ \A i \in 1..n : after[i] = Next8(after[i - 1], s[i])
  BY <1>0, <1>2, <1>6
<1> DEFINE Wide == { i \in 0..n : after[i] \in Word16 }
<1>8. 0 \in Wide
  <2>1. 0 \in Word16
    BY SMT DEF Word16
  <2> QED
    BY <1>0, <1>7, <2>1
<1>9. \A i \in 0..n - 1 : i \in Wide => i + 1 \in Wide
  <2> SUFFICES ASSUME NEW i \in 0..n - 1, after[i] \in Word16
               PROVE  after[i + 1] \in Word16
    BY <1>0
  <2>1. i + 1 \in 1..n /\ (i + 1) - 1 = i
    BY <1>0
  <2>2. s[i + 1] \in Octet
    BY <2>1, ElementOfSeq DEF n
  <2>3. after[i + 1] = Next8(after[i], s[i + 1])
    BY <1>7, <2>1
  <2> QED
    BY <2>2, <2>3, StepTells
<1>10. \A i \in 0..n : i \in Wide
  <2> HIDE DEF Wide
  <2> QED
    BY <1>0, <1>8, <1>9, UpToHold
<1> QED
  BY <1>6, <1>7, <1>10 DEF n

\* The checksum tells the change of any one byte.
LEMMA AByteTells ==
    ASSUME TableTells, NEW s \in Seq(Octet), NEW t \in Seq(Octet), Len(s) = Len(t),
           NEW k \in 1..Len(s), s[k] # t[k], \A i \in 1..Len(s) : i # k => s[i] = t[i]
    PROVE  crc16ccitt(s) # crc16ccitt(t)
<1> DEFINE n == Len(s)
<1>0. n \in Nat /\ n = Len(t) /\ k \in 1..n /\ k \in Nat /\ k >= 1
  OBVIOUS
<1>1. PICK f : /\ f[0] = 0 /\ crc16ccitt(s) = f[n]
               /\ \A i \in 0..n : f[i] \in Word16
               /\ \A i \in 1..n : f[i] = Next8(f[i - 1], s[i])
  BY ByteByByte
<1>2. PICK g : /\ g[0] = 0 /\ crc16ccitt(t) = g[n]
               /\ \A i \in 0..n : g[i] \in Word16
               /\ \A i \in 1..n : g[i] = Next8(g[i - 1], t[i])
  BY <1>0, ByteByByte
<1>3. \A i \in 1..n : s[i] \in Octet /\ t[i] \in Octet
  BY <1>0, ElementOfSeq
<1>4. \A i \in 1..n : i # k => s[i] = t[i]
  OBVIOUS
<1> DEFINE Right == { i \in 0..n : (i < k) <=> (f[i] = g[i]) }
<1> HIDE DEF n
<1>5. 0 \in Right
  BY <1>0, <1>1, <1>2
<1>6. \A i \in 0..n - 1 : i \in Right => i + 1 \in Right
  <2> SUFFICES ASSUME NEW i \in 0..n - 1, (i < k) <=> (f[i] = g[i])
               PROVE  (i + 1 < k) <=> (f[i + 1] = g[i + 1])
    BY <1>0
  <2>1. i \in 0..n /\ i + 1 \in 1..n /\ (i + 1) - 1 = i /\ i \in Nat
    BY <1>0
  <2>2. /\ f[i] \in Word16 /\ g[i] \in Word16
        /\ f[i + 1] = Next8(f[i], s[i + 1]) /\ g[i + 1] = Next8(g[i], t[i + 1])
        /\ s[i + 1] \in Octet /\ t[i + 1] \in Octet
    <3>1. f[i + 1] = Next8(f[(i + 1) - 1], s[i + 1]) /\ g[i + 1] = Next8(g[(i + 1) - 1], t[i + 1])
      BY <1>1, <1>2, <2>1
    <3> QED
      BY <1>1, <1>2, <1>3, <2>1, <3>1
  <2>3. CASE i + 1 < k
    <3>1. f[i] = g[i] /\ s[i + 1] = t[i + 1]
      BY <1>0, <1>4, <2>1, <2>3
    <3> QED
      BY <2>2, <2>3, <3>1
  <2>4. CASE i + 1 = k
    <3>1. f[i] = g[i] /\ s[i + 1] # t[i + 1]
      BY <1>0, <2>1, <2>4
    <3>2. f[i + 1] # g[i + 1]
      BY <2>2, <3>1, StepTells
    <3> QED
      BY <1>0, <2>4, <3>2
  <2>5. CASE i + 1 > k
    <3>1. f[i] # g[i] /\ s[i + 1] = t[i + 1]
      BY <1>0, <1>4, <2>1, <2>5
    <3>2. f[i + 1] # g[i + 1]
      BY <2>2, <3>1, StepTells
    <3> QED
      BY <1>0, <2>1, <2>5, <3>2
  <2> QED
    BY <1>0, <2>1, <2>3, <2>4, <2>5
<1>7. n \in Right
  <2>1. n \in 0..n
    BY <1>0
  <2> HIDE DEF Right
  <2> QED
    BY <1>0, <1>5, <1>6, <2>1, UpToHold
<1> QED
  BY <1>0, <1>1, <1>2, <1>7

\* A frame in which the line has changed one byte, of its header, type, data or checksum,
\* is not taken for one, wherever it stands: nbp_read throws away its first byte and looks
\* on (nest.c:219-241, crc.c:30-46).  A changed length is another matter: the frame ends
\* elsewhere.
THEOREM ChangedByteIsRejected ==
    ASSUME TableTells, \A b \in Seq(Octet) : Crc(b) = crc16ccitt(b),
           NEW m \in Messages, NEW i \in 1..Len(Encoded(m)), i \notin {6, 7},
           NEW x \in Octet, x # Encoded(m)[i],
           NEW s \in Seq(Octet), NEW k \in Nat,
           SameBytes(ReplaceAt(Encoded(m), i, x), 0, s, k, Len(Encoded(m)))
    PROVE  ~IntactIn(s, k)
<1> DEFINE e == Encoded(m)
           d == Len(m.data)
           t == ReplaceAt(e, i, x)
           n == 9 + d
           z == 0
<1>1. /\ d \in Nat /\ e \in Seq(Octet) /\ Len(e) = n
      /\ HasHeader(e, 0) /\ DataSize(e, 0) = d /\ Checks(e, 0)
  BY EncodedFrame
<1>2. x # e[i] /\ i \in 1..n /\ i \notin {6, 7} /\ i \in Nat /\ z \in Nat
  BY <1>1
<1>3. SameBytes(t, z, s, k, n)
  BY <1>1
<1> HIDE DEF e
<1>4. /\ t \in Seq(Octet) /\ Len(t) = n /\ t[i] = x
      /\ \A j \in 1..n : j # i => t[j] = e[j]
  BY <1>1, <1>2, ExceptSeq DEF ReplaceAt
<1> HIDE DEF t, z
<1>5. n \in Nat /\ 9 <= n
  BY <1>1
<1> HIDE DEF n
<1> SUFFICES ASSUME IntactIn(s, k)
             PROVE  FALSE
  OBVIOUS
<1>6. HasHeader(s, k) /\ Checks(s, k)
  BY DEF IntactIn
<1>7. /\ HasHeader(t, z) <=> HasHeader(s, k)
      /\ FrameSize(t, z) = 9 + DataSize(t, z)
      /\ FrameSize(t, z) <= n => (Checks(t, z) <=> Checks(s, k))
  <2>1. /\ t \in Seq(Octet) /\ s \in Seq(Octet) /\ z \in Nat /\ k \in Nat /\ n \in Nat
        /\ 9 <= n /\ SameBytes(t, z, s, k, n)
    BY <1>2, <1>3, <1>4, <1>5
  <2> QED
    BY ONLY <2>1, SameFrame, SMTT(20)
<1>8. i \notin 1..3
  <2> SUFFICES ASSUME i \in 1..3
               PROVE  FALSE
    OBVIOUS
  <2>1. \A j \in 1..3 : Byte(t, j - 1) = Header[j] /\ Byte(e, j - 1) = Header[j]
    <3>1. \A j \in 1..3 : 0 + j - 1 = j - 1
      OBVIOUS
    <3> QED
      BY <1>1, <1>6, <1>7, <3>1 DEF HasHeader, z
  <2>2. Byte(t, i - 1) = t[i] /\ Byte(e, i - 1) = e[i]
    <3>1. (i - 1) + 1 = i
      OBVIOUS
    <3> QED
      BY <3>1 DEF Byte
  <2> QED
    BY <1>2, <1>4, <2>1, <2>2
<1>9. DataSize(t, z) = d
  <2>1. 6 \in 1..n /\ 7 \in 1..n /\ i # 6 /\ i # 7
    BY <1>2, <1>5
  <2>2. t[6] = e[6] /\ t[7] = e[7]
    BY <1>4, <2>1
  <2>3. z + 5 + 1 = 6 /\ z + 5 + 1 + 1 = 7 /\ 0 + 5 + 1 = 6 /\ 0 + 5 + 1 + 1 = 7
    BY DEF z
  <2> QED
    BY <1>1, <2>2, <2>3 DEF DataSize, Word, Byte
<1>10. Checks(t, z)
  BY <1>6, <1>7, <1>9 DEF n
<1> DEFINE u == SubSeq(t, 4, 7 + d)
           v == SubSeq(e, 4, 7 + d)
<1>11. n = 9 + d
  BY DEF n
<1>12. /\ u \in Seq(Octet) /\ Len(u) = 4 + d /\ \A j \in 1..4 + d : u[j] = t[j + 3]
       /\ v \in Seq(Octet) /\ Len(v) = 4 + d /\ \A j \in 1..4 + d : v[j] = e[j + 3]
  <2>1. ASSUME NEW w \in Seq(Octet), Len(w) = n
        PROVE  /\ SubSeq(w, 4, 7 + d) \in Seq(Octet) /\ Len(SubSeq(w, 4, 7 + d)) = 4 + d
               /\ \A j \in 1..4 + d : SubSeq(w, 4, 7 + d)[j] = w[j + 3]
    <3> DEFINE p == 4
               q == 7 + d
    <3>1. p \in Int /\ q \in Int /\ q - p + 1 = 4 + d /\ q - p + 1 >= 0
      BY <1>1
    <3>2. \A j \in p..q : w[j] \in Octet
      BY <1>1, <1>11, <2>1, ElementOfSeq
    <3>3. \A j \in 1..4 + d : p + j - 1 = j + 3
      BY <1>1
    <3> HIDE DEF p, q
    <3>4. /\ SubSeq(w, p, q) \in Seq(Octet)
          /\ Len(SubSeq(w, p, q)) = 4 + d
          /\ \A j \in 1..4 + d : SubSeq(w, p, q)[j] = w[p + j - 1]
      BY <1>1, <3>1, <3>2, SubSeqProperties
    <3> QED
      BY <3>3, <3>4 DEF p, q
  <2> QED
    BY <1>1, <1>4, <2>1
<1> HIDE DEF u, v
<1>13. /\ Crc(u) = t[8 + d] + 256 * t[9 + d]
       /\ Crc(v) = e[8 + d] + 256 * e[9 + d]
  <2>1. /\ z + 4 = 4 /\ z + 7 + d = 7 + d /\ 0 + 4 = 4 /\ 0 + 7 + d = 7 + d
        /\ 7 + d + 1 = 8 + d /\ 7 + d + 1 + 1 = 9 + d
    BY <1>1 DEF z
  <2>2. Crc(u) = Word(t, 7 + d) /\ Crc(v) = Word(e, 7 + d)
    BY <1>1, <1>9, <1>10, <2>1, Zenon DEF Checks, u, v
  <2> QED
    BY <2>1, <2>2 DEF Word, Byte
<1>14. Crc(u) = crc16ccitt(u) /\ Crc(v) = crc16ccitt(v)
  BY <1>12
<1>15. CASE i \in 4..7 + d
  <2>1. i - 3 \in 1..4 + d /\ (i - 3) + 3 = i
    BY <1>1, <1>15
  <2>2. u[i - 3] # v[i - 3]
    BY <1>2, <1>4, <1>12, <2>1
  <2>3. \A j \in 1..4 + d : j # i - 3 => u[j] = v[j]
    <3> SUFFICES ASSUME NEW j \in 1..4 + d, j # i - 3
                 PROVE  u[j] = v[j]
      OBVIOUS
    <3>1. j + 3 \in 1..n /\ j + 3 # i
      BY <1>1, <1>2, <1>11
    <3> QED
      BY <1>4, <1>12, <3>1
  <2>4. crc16ccitt(u) # crc16ccitt(v)
    <3> DEFINE j == i - 3
    <3>1. /\ u \in Seq(Octet) /\ v \in Seq(Octet) /\ Len(u) = Len(v)
          /\ j \in 1..Len(u) /\ u[j] # v[j]
          /\ \A h \in 1..Len(u) : h # j => u[h] = v[h]
      BY <1>12, <2>1, <2>2, <2>3
    <3> HIDE DEF j
    <3> QED
      BY <3>1, AByteTells
  <2>5. t[8 + d] = e[8 + d] /\ t[9 + d] = e[9 + d]
    <3>1. 8 + d \in 1..n /\ 9 + d \in 1..n /\ i # 8 + d /\ i # 9 + d
      BY <1>1, <1>11, <1>15
    <3> QED
      BY <1>4, <3>1
  <2> QED
    BY <1>13, <1>14, <2>4, <2>5
<1>16. CASE i \in {8 + d, 9 + d}
  <2>1. \A j \in 1..4 + d : u[j] = v[j]
    <3> SUFFICES ASSUME NEW j \in 1..4 + d
                 PROVE  u[j] = v[j]
      OBVIOUS
    <3>1. j + 3 \in 1..n /\ j + 3 # i
      BY <1>1, <1>11, <1>16
    <3> QED
      BY <1>4, <1>12, <3>1
  <2>2. u = v
    BY <1>12, <2>1, SeqEqual
  <2>3. /\ 8 + d \in 1..n /\ 9 + d \in 1..n /\ 8 + d # 9 + d
    BY <1>1, <1>11
  <2>4. PICK a \in Octet, b \in Octet : a = t[8 + d] /\ b = t[9 + d]
    BY <1>4, <2>3, ElementOfSeq
  <2>5. PICK f \in Octet, g \in Octet : f = e[8 + d] /\ g = e[9 + d]
    BY <1>1, <2>3, ElementOfSeq
  <2>6. a + 256 * b = f + 256 * g
    BY <1>13, <2>2, <2>4, <2>5
  <2>7. a = f /\ b = g
    <3>1. Octet = 0..255
      BY SMT DEF Octet
    <3> QED
      BY ONLY <2>6, <3>1, SMT
  <2>8. \/ i = 8 + d /\ t[i] = e[i]
        \/ i = 9 + d /\ t[i] = e[i]
    BY <1>16, <2>4, <2>5, <2>7
  <2> QED
    BY <1>2, <1>4, <2>8
<1> QED
  <2>1. i \in 1..3 \/ i \in 4..7 + d \/ i \in {8 + d, 9 + d}
    <3>1. d \in Nat /\ i \in Nat /\ 1 <= i /\ i <= 9 + d
      BY <1>1, <1>2, <1>11
    <3> HIDE DEF d
    <3> QED
      BY ONLY <3>1
  <2> QED
    BY <1>8, <1>15, <1>16, <2>1
----------------------------------------------------------------------------
(* Nothing is made up, as far as the checksum tells.                       *)

\* What was found stands whole among the bytes read, in that order.
FoundWhole ==
    /\ \A j \in DOMAIN got :
          /\ got[j].at < pos
          /\ IntactIn(received, got[j].at)
          /\ MessageIn(received, got[j].at) = [type |-> got[j].type, data |-> got[j].data]
    /\ \A j, k \in DOMAIN got : j < k => got[j].at < got[k].at

\* What came over the line is one of the streams.
Stream == [bytes |-> received \o wire, sent |-> sent, faults |-> faults]
Carried(Streams) == Stream \in Streams

\* A whole frame is the same one wherever its bytes are.
LEMMA IntactMoves ==
    ASSUME NEW s \in Seq(Octet), NEW t \in Seq(Octet),
           NEW k \in Nat, NEW l \in Nat, NEW n \in Nat,
           n = Len(s) - k, SameBytes(s, k, t, l, n), IntactIn(s, k)
    PROVE  IntactIn(t, l) /\ MessageIn(t, l) = MessageIn(s, k)
<1>1. /\ Len(s) >= k + Overhead /\ HasHeader(s, k)
      /\ Len(s) >= k + FrameSize(s, k) /\ Checks(s, k)
  BY DEF IntactIn
<1>2. 9 <= n /\ k + n <= Len(s) /\ l + n <= Len(t) /\ Overhead = 9
  <2>1. Overhead = 9 /\ Len(s) \in Nat
    BY Sizes
  <2>2. Len(s) >= k + 9
    BY <1>1, <2>1
  <2> QED
    BY <2>1, <2>2 DEF SameBytes
<1>3. /\ HasHeader(s, k) <=> HasHeader(t, l)
      /\ DataSize(s, k) \in Word16
      /\ FrameSize(s, k) = 9 + DataSize(s, k)
      /\ FrameSize(s, k) = FrameSize(t, l)
      /\ FrameSize(s, k) <= n =>
            (Checks(s, k) <=> Checks(t, l)) /\ DataAt(s, k) = DataAt(t, l)
  BY <1>2, SameFrame
<1>4. FrameSize(s, k) \in Nat /\ Len(s) \in Nat /\ Len(t) \in Nat
  <2>1. DataSize(s, k) \in Nat
    BY <1>3, Words
  <2> QED
    BY <1>3, <2>1
<1>5. FrameSize(s, k) <= n
  BY <1>1, <1>4
<1>6. Len(t) >= l + Overhead /\ Len(t) >= l + FrameSize(t, l)
  <2>1. Len(t) >= l + 9 /\ Len(t) >= l + FrameSize(s, k)
    BY <1>2, <1>4, <1>5
  <2> QED
    BY <1>2, <1>3, <2>1
<1>7. Word(s, k + 3) = Word(t, l + 3)
  <2>1. 4 \in 1..n /\ 5 \in 1..n
    BY <1>2
  <2>2. s[k + 4] = t[l + 4] /\ s[k + 5] = t[l + 5]
    BY <2>1 DEF SameBytes
  <2>3. /\ k + 3 + 1 = k + 4 /\ k + 3 + 1 + 1 = k + 5
        /\ l + 3 + 1 = l + 4 /\ l + 3 + 1 + 1 = l + 5
    OBVIOUS
  <2> QED
    BY <2>2, <2>3 DEF Word, Byte
<1>8. IntactIn(t, l)
  BY <1>1, <1>3, <1>5, <1>6 DEF IntactIn
<1> QED
  BY <1>3, <1>5, <1>7, <1>8 DEF MessageIn

\* It stays where it is when more comes in.
LEMMA IntactStays ==
    ASSUME NEW s \in Seq(Octet), NEW w \in Seq(Octet), NEW k \in Nat, k < Len(s), IntactIn(s, k)
    PROVE  IntactIn(s \o w, k) /\ MessageIn(s \o w, k) = MessageIn(s, k)
<1> DEFINE n == Len(s) - k
           t == s \o w
<1>1. n \in Nat /\ t \in Seq(Octet) /\ n = Len(s) - k /\ SameBytes(s, k, t, k, n)
  BY Joined, Prefix
<1> HIDE DEF n, t
<1>2. IntactIn(t, k) /\ MessageIn(t, k) = MessageIn(s, k)
  BY <1>1, IntactMoves
<1> QED
  BY <1>2 DEF t

\* Where something was found is a number.
LEMMA PlacesAreNumbers ==
    ASSUME FrameInv
    PROVE  \A j \in DOMAIN got : got[j].at \in Nat
<1> SUFFICES ASSUME NEW j \in DOMAIN got
             PROVE  got[j].at \in Nat
  OBVIOUS
<1>1. got \in Seq([at : Nat, type : Word16, data : Seq(Octet)])
  BY DEF FrameInv, FrameTypes
<1>2. j \in 1..Len(got)
  BY <1>1
<1>3. got[j] \in [at : Nat, type : Word16, data : Seq(Octet)]
  BY ONLY <1>1, <1>2, ElementOfSeq
<1> QED
  BY <1>3

\* What is found stands in the buffer, and so among the bytes read.
LEMMA GotMessageFinds ==
    ASSUME FrameInv, FoundWhole, GotMessage
    PROVE  FoundWhole'
<1> DEFINE c == FrameSize(rdbuf, 0)
           new == [at |-> pos, type |-> Word(rdbuf, 3), data |-> DataAt(rdbuf, 0)]
<1>1. /\ Len(rdbuf) >= 9 /\ HasHeader(rdbuf, 0) /\ Len(rdbuf) >= c /\ Checks(rdbuf, 0)
      /\ got' = Append(got, new) /\ pos' = pos + c /\ received' = received
  BY Sizes DEF GotMessage, Enough, Whole, Valid, Shift
<1>2. /\ rdbuf \in Seq(Octet) /\ received \in Seq(Octet) /\ Len(rdbuf) \in Nat /\ pos \in Nat
      /\ got \in Seq([at : Nat, type : Word16, data : Seq(Octet)])
      /\ SameBytes(rdbuf, 0, received, pos, Len(rdbuf))
  BY DEF FrameInv, FrameTypes, Buffered
<1>3. /\ c \in Nat /\ c >= 9
      /\ DataAt(rdbuf, 0) \in Seq(Octet) /\ Word(rdbuf, 3) \in Word16
  BY <1>1, <1>2, Measured
<1>4. new \in [at : Nat, type : Word16, data : Seq(Octet)]
  BY <1>2, <1>3
<1>5. IntactIn(received, pos) /\ MessageIn(received, pos) = [type |-> new.type, data |-> new.data]
  <2> DEFINE n == Len(rdbuf)
             z == 0
  <2>1. IntactIn(rdbuf, z)
    <3>1. 0 + Overhead = 9 /\ 0 + c = c
      BY <1>3, Sizes
    <3> QED
      BY <1>1, <3>1 DEF IntactIn
  <2>2. n \in Nat /\ z \in Nat /\ n = Len(rdbuf) - z /\ SameBytes(rdbuf, z, received, pos, n)
    BY <1>2
  <2>3. MessageIn(rdbuf, z) = [type |-> new.type, data |-> new.data]
    <3>1. z + 3 = 3
      OBVIOUS
    <3> QED
      BY <3>1 DEF MessageIn
  <2> HIDE DEF n, z, new
  <2>4. IntactIn(received, pos) /\ MessageIn(received, pos) = MessageIn(rdbuf, z)
    BY <1>2, <2>1, <2>2, IntactMoves
  <2> QED
    BY <2>3, <2>4
<1>6. new.at = pos
  OBVIOUS
<1> HIDE DEF c, new
<1>7. /\ got'[Len(got) + 1] = new
      /\ \A j \in DOMAIN got : got'[j] = got[j]
      /\ DOMAIN got' = 1..Len(got) + 1 /\ DOMAIN got = 1..Len(got) /\ Len(got) \in Nat
  BY <1>1, <1>2, <1>4, SMTT(20)
<1>8. pos < pos'
  BY <1>1, <1>2, <1>3
<1>9. ASSUME NEW j \in DOMAIN got'
      PROVE  /\ got'[j].at < pos'
             /\ IntactIn(received', got'[j].at)
             /\ MessageIn(received', got'[j].at) = [type |-> got'[j].type, data |-> got'[j].data]
  <2>1. CASE j \in DOMAIN got
    <3>1. /\ got[j].at < pos
          /\ IntactIn(received, got[j].at)
          /\ MessageIn(received, got[j].at) = [type |-> got[j].type, data |-> got[j].data]
      BY <2>1 DEF FoundWhole
    <3>2. got[j].at \in Nat /\ pos' \in Nat
      BY <1>1, <1>2, <1>3, <2>1, PlacesAreNumbers
    <3>3. got[j].at < pos'
      BY <1>2, <1>8, <3>1, <3>2
    <3> QED
      BY <1>1, <1>7, <2>1, <3>1, <3>3
  <2>2. CASE j = Len(got) + 1
    BY <1>1, <1>5, <1>6, <1>7, <1>8, <2>2
  <2> QED
    BY <1>7, <2>1, <2>2
<1>10. ASSUME NEW j \in DOMAIN got', NEW k \in DOMAIN got', j < k
       PROVE  got'[j].at < got'[k].at
  <2>1. j \in DOMAIN got
    BY <1>7, <1>10
  <2>2. CASE k \in DOMAIN got
    BY <1>7, <1>10, <2>1, <2>2 DEF FoundWhole
  <2>3. CASE k = Len(got) + 1
    BY <1>6, <1>7, <2>1, <2>3 DEF FoundWhole
  <2> QED
    BY <1>7, <2>2, <2>3
<1> QED
  BY <1>9, <1>10 DEF FoundWhole

\* What was found stays found.
LEMMA FoundStays ==
    ASSUME FrameInv, FrameInv', FoundWhole, [FramesNext]_frameVars
    PROVE  FoundWhole'
<1>1. CASE GotMessage
  BY <1>1, GotMessageFinds
<1>2. CASE UNCHANGED <<received, pos, got>>
  BY <1>2 DEF FoundWhole
<1>3. CASE Invalid
  <2>1. PICK c \in Nat : pos' = pos + c
    <3>1. Len(rdbuf) \in Nat /\ Found \in SUBSET Nat
      BY DEF FrameInv, FrameTypes, Found
    <3>2. CASE Found # {}
      <4>1. (CHOOSE k \in Found : \A j \in Found : k <= j) \in Nat
        BY <3>1, <3>2, Least
      <4> QED
        BY <1>3, <3>2, <4>1 DEF Invalid, Resync, Shift
    <3>3. CASE Found = {}
      BY <1>3, <3>1, <3>3 DEF Invalid, Resync, Shift
    <3> QED
      BY <3>2, <3>3
  <2>2. pos \in Nat /\ pos <= pos' /\ pos' \in Nat
    BY <2>1 DEF FrameInv, FrameTypes
  <2>3. \A j \in DOMAIN got : got[j].at \in Nat /\ got[j].at < pos
    BY PlacesAreNumbers DEF FoundWhole
  <2>4. received' = received /\ got' = got
    BY <1>3 DEF Invalid
  <2>5. \A j \in DOMAIN got : got[j].at < pos'
    BY ONLY <2>2, <2>3
  <2> QED
    BY <2>4, <2>5 DEF FoundWhole
<1>4. CASE Read
  <2>1. PICK n \in 0..ReadSize :
           n <= Len(wire) /\ received' = received \o SubSeq(wire, 1, n)
    BY <1>4 DEF Read
  <2>2. UNCHANGED <<got, pos>>
    BY <1>4 DEF Read
  <2>3. /\ received \in Seq(Octet) /\ wire \in Seq(Octet) /\ pos \in 0..Len(received)
        /\ n \in Nat /\ Len(received) \in Nat
    <3>1. received \in Seq(Octet) /\ wire \in Seq(Octet) /\ pos \in 0..Len(received)
      BY DEF FrameInv, FrameTypes
    <3> QED
      BY <3>1, Sizes
  <2>4. SubSeq(wire, 1, n) \in Seq(Octet)
    BY <2>1, <2>3, Start
  <2>5. ASSUME NEW j \in DOMAIN got
        PROVE  /\ IntactIn(received', got[j].at)
               /\ MessageIn(received', got[j].at) = MessageIn(received, got[j].at)
    <3>1. got[j].at \in Nat
      BY PlacesAreNumbers
    <3>2. got[j].at < pos /\ IntactIn(received, got[j].at)
      BY DEF FoundWhole
    <3>3. got[j].at < Len(received)
      BY <2>3, <3>1, <3>2
    <3> QED
      BY <2>1, <2>3, <2>4, <3>1, <3>2, <3>3, IntactStays
  <2> QED
    BY <2>2, <2>5 DEF FoundWhole
<1> QED
  BY <1>1, <1>2, <1>3, <1>4
     DEF FramesNext, Loop, Send, NeedMore, frameVars, lineVars

\* What the line carries is as the hypothesis says.
LEMMA StreamIsCarried ==
    ASSUME NEW Streams, Carries(Streams), FrameInv, Carried(Streams), [FramesNext]_frameVars
    PROVE  Carried(Streams)'
<1>1. /\ sent \in Seq(Messages) /\ received \in Seq(Octet) /\ wire \in Seq(Octet)
      /\ Len(sent) \in Nat /\ faults \in Nat
  BY DEF FrameInv, FrameTypes
<1>2. CASE Send
  <2>1. PICK m \in Messages :
           /\ sent' = Append(sent, m)
           /\ \/ wire' = wire \o Encoded(m) /\ UNCHANGED faults
              \/ /\ faults < MaxFaults
                 /\ faults' = faults + 1
                 /\ \E s \in Faulty(Encoded(m)) : wire' = wire \o s
    BY <1>2 DEF Send
  <2>2. received' = received /\ Len(sent) < MaxFrames
    BY <1>2 DEF Send
  <2> DEFINE With(bytes, more) == [bytes |-> Stream.bytes \o bytes,
                                   sent |-> Append(Stream.sent, m),
                                   faults |-> Stream.faults + more]
  <2>3. /\ With(Encoded(m), 0) \in Streams
        /\ faults < MaxFaults => \A bytes \in Faulty(Encoded(m)) : With(bytes, 1) \in Streams
    <3>1. Stream \in Streams /\ Stream.sent = sent /\ Stream.faults = faults
      BY DEF Carried, Stream
    <3> QED
      BY <2>2, <3>1 DEF Carries
  <2>4. ASSUME NEW bytes \in Seq(Octet), NEW more \in Nat,
               wire' = wire \o bytes, faults' = faults + more
        PROVE  Stream' = With(bytes, more)
    <3>1. received' \o wire' = (received \o wire) \o bytes
      <4>1. (received \o wire) \o bytes = received \o (wire \o bytes)
        <5>1. received \in Seq(Octet) /\ wire \in Seq(Octet) /\ bytes \in Seq(Octet)
          BY <1>1
        <5> QED
          BY ONLY <5>1, ConcatAssociative, SMTT(30)
      <4> QED
        BY <2>2, <2>4, <4>1
    <3> QED
      BY <2>1, <2>4, <3>1 DEF Stream
  <2> HIDE DEF With
  <2>5. Encoded(m) \in Seq(Octet)
    BY EncodedFrame
  <2>6. CASE wire' = wire \o Encoded(m) /\ UNCHANGED faults
    <3>1. faults' = faults + 0
      BY <1>1, <2>6
    <3>2. Stream' = With(Encoded(m), 0)
      BY <2>4, <2>5, <2>6, <3>1
    <3> QED
      BY <2>3, <3>2 DEF Carried
  <2>7. CASE /\ faults < MaxFaults
             /\ faults' = faults + 1
             /\ \E s \in Faulty(Encoded(m)) : wire' = wire \o s
    <3>1. PICK s \in Faulty(Encoded(m)) : wire' = wire \o s
      BY <2>7
    <3>2. s \in Seq(Octet)
      BY <2>5, FaultyBytes
    <3>3. Stream' = With(s, 1)
      BY <2>4, <2>7, <3>1, <3>2
    <3> QED
      BY <2>3, <2>7, <3>3 DEF Carried
  <2> QED
    BY <2>1, <2>6, <2>7
<1>3. CASE Read
  <2>1. PICK n \in 0..ReadSize :
           /\ n <= Len(wire)
           /\ received' = received \o SubSeq(wire, 1, n)
           /\ wire' = SubSeq(wire, n + 1, Len(wire))
    BY <1>3 DEF Read
  <2> DEFINE w == SubSeq(wire, 1, n)
             behind == SubSeq(wire, n + 1, Len(wire))
  <2>2. n \in Nat /\ Len(wire) \in Nat
    BY <1>1, Sizes
  <2>3. w \in Seq(Octet) /\ w \o behind = wire /\ behind \in Seq(Octet)
    BY <1>1, <2>1, <2>2, Start, Rest
  <2>4. received' = received \o w /\ wire' = behind
    BY <2>1
  <2> HIDE DEF w, behind
  <2>5. (received \o w) \o behind = received \o (w \o behind)
    <3>1. received \in Seq(Octet) /\ w \in Seq(Octet) /\ behind \in Seq(Octet)
      BY <1>1, <2>3
    <3> QED
      BY ONLY <3>1, ConcatAssociative, SMTT(30)
  <2>6. received' \o wire' = received \o wire
    BY <2>3, <2>4, <2>5
  <2> QED
    BY <1>3, <2>6 DEF Carried, Stream, Read
<1>4. CASE UNCHANGED <<received, wire, sent, faults>>
  BY <1>4 DEF Carried, Stream
<1> QED
  BY <1>2, <1>3, <1>4
     DEF FramesNext, Loop, NeedMore, Invalid, GotMessage, frameVars, lineVars

\* One byte that goes wrong never becomes a message, nothing is found twice or out
\* of order, however the bytes are cut into pieces: nbp_read finds only what stands
\* whole in the stream, so that it is the checksum alone that this rests on, whatever
\* it is, the messages and the noise (nest.c:214-247).
THEOREM NothingIsMadeUp ==
    ASSUME NEW Streams, Carries(Streams), Tells(Streams)
    PROVE  FramesSpec => []NothingMadeUp
<1> DEFINE Made == FrameInv /\ FoundWhole /\ Carried(Streams)
<1>1. FramesInit => Made
  <2> SUFFICES ASSUME FramesInit
               PROVE  FoundWhole /\ Carried(Streams)
    BY FramesBegin
  <2>1. FoundWhole
    BY DEF FramesInit, FoundWhole
  <2>2. Stream = [bytes |-> <<>>, sent |-> <<>>, faults |-> 0]
    BY DEF FramesInit, Stream
  <2> QED
    BY <2>1, <2>2 DEF Carried, Carries
<1>2. Made /\ FrameInv' /\ [FramesNext]_frameVars => Made'
  BY FoundStays, StreamIsCarried
<1>3. Made => NothingMadeUp
  <2> SUFFICES ASSUME FrameInv, FoundWhole, Carried(Streams)
               PROVE  NothingMadeUp
    OBVIOUS
  <2> DEFINE all == received \o wire
             places == { k \in 0..Len(all) : IntactIn(all, k) }
  <2>1. PICK f \in [places -> DOMAIN sent] :
           /\ \A j, k \in places : j < k => f[j] < f[k]
           /\ \A k \in places : sent[f[k]] = MessageIn(all, k)
    <3>1. Stream \in Streams /\ Stream.bytes = all /\ Stream.sent = sent
      BY DEF Carried, Stream
    <3> QED
      BY <3>1 DEF Tells
  <2>2. /\ received \in Seq(Octet) /\ wire \in Seq(Octet) /\ pos \in 0..Len(received)
        /\ Len(received) \in Nat /\ Len(wire) \in Nat /\ Len(all) = Len(received) + Len(wire)
    BY Joined DEF FrameInv, FrameTypes
  <2>3. ASSUME NEW j \in DOMAIN got
        PROVE  /\ got[j].at \in places
               /\ MessageIn(all, got[j].at) = [type |-> got[j].type, data |-> got[j].data]
    <3>1. got[j].at \in Nat
      BY PlacesAreNumbers
    <3>2. got[j].at < Len(received)
      <4>1. got[j].at < pos
        BY DEF FoundWhole
      <4> QED
        BY ONLY <2>2, <3>1, <4>1
    <3>3. /\ IntactIn(all, got[j].at)
          /\ MessageIn(all, got[j].at) = MessageIn(received, got[j].at)
      BY <2>2, <3>1, <3>2, IntactStays DEF FoundWhole
    <3>4. got[j].at \in 0..Len(all)
      BY <2>2, <3>1, <3>2
    <3> QED
      BY <3>3, <3>4 DEF FoundWhole
  <2> HIDE DEF all, places
  <2> DEFINE F == [j \in DOMAIN got |-> f[got[j].at]]
  <2>4. F \in [DOMAIN got -> DOMAIN sent]
    BY <2>1, <2>3
  <2>5. \A j, k \in DOMAIN got : j < k => F[j] < F[k]
    BY <2>1, <2>3 DEF FoundWhole
  <2>6. \A k \in DOMAIN got : sent[F[k]] = [type |-> got[k].type, data |-> got[k].data]
    BY <2>1, <2>3
  <2> HIDE DEF F
  <2> QED
    BY <2>4, <2>5, <2>6 DEF NothingMadeUp
<1>4. FramesSpec => []FrameInv
  BY FramesInvHolds
<1> HIDE DEF Made
<1> QED
  BY <1>1, <1>2, <1>3, <1>4, PTL DEF FramesSpec
=============================================================================
