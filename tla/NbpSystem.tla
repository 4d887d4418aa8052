----------------------------- MODULE NbpSystem -----------------------------
(***************************************************************************)
(* The thermostat with a Nest backplate: tstat's blocking wire commands are*)
(* the requests nbp takes from its REP socket, and one clock runs for both.*)
(* nbp knows no fan and no valve: it holds every FET to a rest of its own, *)
(* and each command that turns one off starts that rest again.             *)
(***************************************************************************)
EXTENDS HvacWires, Integers

CONSTANTS FanBefore, FanAfter, ShutoffDelay, Retry, MaxLag, Temps, Goals,
          FanModes, MayCrash, Fets, Installed, Forever, Batches, MaxReports,
          SendFails

Me == "tstat"
Clients == {Me}

VARIABLES pc, mode, fanAlways, goal, earliest, fanOn, compOn, fanOff, timeout,
          lag, success, reqReady, acked,
          fet, rest, reports, asserted, present, age, unsent, phase, batch,
          done, serving, sub, told,
          ctl

T == INSTANCE Tstat
N == INSTANCE NbpFet

\* What House assumes of the constants: they are such as each of the two is given, and
\* the requests that are looked at are those that tstat sends.
NbpSystemAssumption ==
    /\ T!TstatAssumption /\ N!NbpAssumption
    /\ \A w \in {"Y1", "OB", "G"}, level \in Level : <<Cmd(w, level)>> \in Batches

tstatOnly == <<pc, mode, fanAlways, goal, earliest, fanOn, compOn, fanOff,
               timeout, lag, success, reqReady, acked>>
nbpOnly == <<fet, rest, reports, asserted, present, age, unsent, phase, batch,
             done, serving, sub, told>>
vars == <<tstatOnly, nbpOnly, ctl>>

Init == T!Init /\ N!Init

Tstat == T!Thread /\ UNCHANGED nbpOnly

\* A weather report arrives, or a request for the thermostat.
Message == T!PollReady /\ UNCHANGED nbpOnly

\* A report of the backplate; every pass of nbp's loop reads the serial line.
Report == N!FetPresence /\ UNCHANGED tstatOnly

Nbp ==
    /\ N!Open \/ N!HandleReq(Me) \/ N!ControlWire \/ N!SendReply
    /\ UNCHANGED tstatOnly

\* A report is read within a tick of its being sent.
Tick == reports = 0 /\ T!TstatTick /\ N!Tick

Next == Tstat \/ Message \/ Report \/ Nbp \/ Tick

Spec == Init /\ [][Next]_vars

\* The processes run, and time passes.  That messages arrive is not assumed.
FairSpec ==
    /\ Spec
    /\ WF_vars(Tstat) /\ SF_vars(Report) /\ WF_vars(Nbp) /\ WF_vars(Tick)
----------------------------------------------------------------------------
(* Properties.                                                             *)

\* "Fan wasn't turned off yet, go straight to compressor" (tstat.c:158): a
\* compressor that is to be turned on is turned on, or is not wanted any more.
\* The rest of the valve's FET ends after that of the compressor's, and the
\* commands that undo the one start that each starts either rest again.
StraightToCompressor ==
    mode = "cool" /\ compOn # T!Unset ~> (compOn = T!Unset \/ mode # "cool")
=============================================================================
