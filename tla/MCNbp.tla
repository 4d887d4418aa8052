-------------------------------- MODULE MCNbp --------------------------------
(***************************************************************************)
(* Small instances of both halves of nbp, one or the other in a behaviour. *)
(*                                                                         *)
(* Its FETs (NbpFet): two with a wire and one without, one client, a rest  *)
(* of two ticks, and two reports on their way, so that the backplate can   *)
(* reset again before the first is read.                                   *)
(*                                                                         *)
(* Its serial line (NbpFrame), with the code's checksum: a message without *)
(* data and one whose data begin like a header, the line's faults among the*)
(* bytes that matter.                                                      *)
(***************************************************************************)
EXTENDS NbpFet, NbpFrame, Crc16

CONSTANT c1

MCClients == {c1}
MCFets == {"Y1", "W2"}
MCInstalled == {"Y1"}
MCBatches == {<<Cmd(w, l)>> : w \in MCFets, l \in Level} \cup
             {<<Cmd("Y1", "off"), Cmd("Y1", "on")>>, <<Cmd("other", "on")>>}

MCMessages == {[type |-> 1, data |-> <<>>], [type |-> 2, data |-> <<213, 170>>]}
MCNoise == {1, 213}

\* What the line may carry of up to two frames.
Onward(streams) ==
    LET Bytes(m, fault) == IF fault = 0 THEN {Encoded(m)} ELSE Faulty(Encoded(m))
    IN streams \cup
       UNION { { [bytes |-> s.bytes \o bytes, sent |-> Append(s.sent, m),
                  faults |-> s.faults + fault] : bytes \in Bytes(m, fault) }
               : s \in streams, m \in MCMessages, fault \in 0..1 }
MCStreams ==
    { s \in Onward(Onward({[bytes |-> <<>>, sent |-> <<>>, faults |-> 0]})) :
        s.faults <= MaxFaults }

\* The code's table and its checksum tell, the latter of the messages and the noise
\* here.
ASSUME ChecksumTells == TableTells /\ Carries(MCStreams) /\ Tells(MCStreams)

VARIABLE half   \* "fets" or "frames"

MCInit == Init /\ FramesInit /\ half \in {"fets", "frames"}

MCNext ==
    \/ half = "fets" /\ Next /\ UNCHANGED <<half, frameVars>>
    \/ half = "frames" /\ FramesNext /\ UNCHANGED <<half, nbpVars>>

MCSpec ==
    /\ MCInit /\ [][MCNext]_<<half, nbpVars, frameVars>>
    /\ WF_frameVars(half = "frames" /\ Loop)

=============================================================================
