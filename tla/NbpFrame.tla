------------------------------ MODULE NbpFrame ------------------------------
(***************************************************************************)
(* The serial line between the Nest backplate and nbp: frames of a header, *)
(* a type, a length, data and a checksum, on a line that loses, changes and*)
(* adds bytes.  nbp reads what has come in, in pieces of any size, and its *)
(* loop looks for frames from the front of its buffer; one pass of the loop*)
(* is a step.  What becomes of a message is not here (NbpFet has the       *)
(* reports).                                                               *)
(***************************************************************************)
EXTENDS Integers, Sequences, SequencesExt

CONSTANTS Crc(_),     \* the checksum of a sequence of bytes
          Messages,   \* what the backplate sends: [type, data]
          Noise,      \* the bytes that the line puts in or changes others to
          MaxFrames,  \* bound: frames sent
          MaxFaults   \* bound: faults of the line

Header == <<213, 170, 150>>
ReadSize == 16   \* NBP_READ_BUFFER_SIZE
Overhead == 3 + 2 + 2 + 2

VARIABLES sent,     \* history: the messages sent
          faults,   \* faults so far
          wire,     \* bytes on their way
          pc,       \* "poll", or "parse" in the loop of nbp_read
          rdbuf,    \* what has been read and not been dealt with
          alloc,    \* the bytes allocated for it
          received, \* history: all bytes read
          pos,      \* history: how many of them have been dealt with
          got       \* history: the messages found, and where

lineVars == <<sent, faults, wire>>
frameVars == <<lineVars, pc, rdbuf, alloc, received, pos, got>>

Low(n) == n % 256
High(n) == (n \div 256) % 256

\* nbp_send, and what the backplate sends.
Body(m) ==
    <<Low(m.type), High(m.type), Low(Len(m.data)), High(Len(m.data))>> \o m.data

Encoded(m) == Header \o Body(m) \o <<Low(Crc(Body(m))), High(Crc(Body(m)))>>

Octet == 0..2^8 - 1
Word16 == 0..2^16 - 1

ASSUME FrameAssumption ==
    /\ Messages \subseteq [type : Word16, data : Seq(Octet)]
    /\ \A m \in Messages : Len(m.data) \in Word16 /\ Crc(Body(m)) \in Word16
    /\ Noise \subseteq Octet
    /\ MaxFrames \in Nat /\ MaxFaults \in Nat
----------------------------------------------------------------------------
(* The line.                                                               *)

\* The ways in which one byte may go wrong.
Faulty(s) ==
    LET i == DOMAIN s
    IN { RemoveAt(s, k) : k \in i }
       \cup { ReplaceAt(s, k, b) : k \in i, b \in Noise }
       \cup { <<b>> \o s : b \in Noise }

Send ==
    /\ Len(sent) < MaxFrames
    /\ \E m \in Messages :
          /\ sent' = Append(sent, m)
          /\ \/ wire' = wire \o Encoded(m) /\ UNCHANGED faults
             \/ /\ faults < MaxFaults
                /\ faults' = faults + 1
                /\ \E s \in Faulty(Encoded(m)) : wire' = wire \o s
    /\ UNCHANGED <<pc, rdbuf, alloc, received, pos, got>>
----------------------------------------------------------------------------
(* The buffer; offsets count from 0, as in the code.                       *)

Byte(s, k) == s[k + 1]
Word(s, k) == Byte(s, k) + 256 * Byte(s, k + 1)

\* bytes_extend_buf: doubled, from 16, until it is enough.
Extended(a, need) ==
    LET base == IF a = 0 THEN 16 ELSE a
        enough == { k \in 1..16 : need <= base * 2^k }
    IN IF need <= a THEN a
                    ELSE base * 2^(CHOOSE k \in enough : \A j \in enough : k <= j)

\* Mutant of Found: the search begins with the byte that was rejected.
FoundAgain == { k \in 0..Len(rdbuf) - 1 : Byte(rdbuf, k) = Header[1] }

\* Where bytes_find_next may find a header's first byte.
Found == { k \in 1..Len(rdbuf) - 1 : Byte(rdbuf, k) = Header[1] }

\* bytes_shift.
Shift(n) ==
    /\ rdbuf' = SubSeq(rdbuf, n + 1, Len(rdbuf))
    /\ pos' = pos + n
----------------------------------------------------------------------------
(* nbp_read.                                                               *)

\* A read that fails has still made room.
Read ==
    /\ pc = "poll"
    /\ wire # <<>>
    /\ alloc' = Extended(alloc, Len(rdbuf) + ReadSize)
    /\ \E n \in 0..ReadSize :
          /\ n <= Len(wire)
          /\ rdbuf' = rdbuf \o SubSeq(wire, 1, n)
          /\ received' = received \o SubSeq(wire, 1, n)
          /\ wire' = SubSeq(wire, n + 1, Len(wire))
          /\ pc' = IF n = 0 THEN "poll" ELSE "parse"
    /\ UNCHANGED <<sent, faults, pos, got>>

\* What the bytes of `s' from `k' on look like.
HasHeader(s, k) == \A j \in 1..3 : Byte(s, k + j - 1) = Header[j]

DataSize(s, k) == Word(s, k + 5)
DataAt(s, k) == SubSeq(s, k + 8, k + 7 + DataSize(s, k))

FrameSize(s, k) == Overhead + DataSize(s, k)

Checks(s, k) ==
    Crc(SubSeq(s, k + 4, k + 7 + DataSize(s, k))) = Word(s, k + 7 + DataSize(s, k))

Enough == Len(rdbuf) >= Overhead

\* Mutant of Whole: one byte more is waited for.
WholeAndMore == HasHeader(rdbuf, 0) /\ Len(rdbuf) > FrameSize(rdbuf, 0)
Whole == HasHeader(rdbuf, 0) /\ Len(rdbuf) >= FrameSize(rdbuf, 0)

\* Mutant of Valid: the checksum is not looked at.
ValidAlways == TRUE
Valid == Checks(rdbuf, 0)

NeedMore ==
    /\ pc = "parse"
    /\ Enough => HasHeader(rdbuf, 0) /\ ~Whole
    /\ pc' = "poll"
    /\ UNCHANGED <<lineVars, rdbuf, alloc, received, pos, got>>

\* Mutant of Resync: the whole of a broken frame is thrown away.
ResyncAfter ==
    IF HasHeader(rdbuf, 0) THEN Shift(FrameSize(rdbuf, 0)) /\ UNCHANGED pc
                           ELSE Shift(Len(rdbuf)) /\ pc' = "poll"

\* On to the next byte that may begin a frame.
Resync ==
    \/ /\ Found # {}
       /\ Shift(CHOOSE k \in Found : \A j \in Found : k <= j)
       /\ UNCHANGED pc
    \/ /\ Found = {}
       /\ Shift(Len(rdbuf))
       /\ pc' = "poll"

Invalid ==
    /\ pc = "parse"
    /\ Enough
    /\ HasHeader(rdbuf, 0) => Whole /\ ~Valid
    /\ Resync
    /\ UNCHANGED <<lineVars, alloc, received, got>>

GotMessage ==
    /\ pc = "parse"
    /\ Enough /\ Whole /\ Valid
    /\ got' = Append(got, [at |-> pos, type |-> Word(rdbuf, 3),
                           data |-> DataAt(rdbuf, 0)])
    /\ Shift(FrameSize(rdbuf, 0))
    /\ UNCHANGED <<lineVars, pc, alloc, received>>
----------------------------------------------------------------------------
FramesInit ==
    /\ sent = <<>> /\ faults = 0 /\ wire = <<>>
    /\ pc = "poll" /\ rdbuf = <<>> /\ alloc = 0
    /\ received = <<>> /\ pos = 0 /\ got = <<>>

Loop == NeedMore \/ Invalid \/ GotMessage

FramesNext == Send \/ Read \/ Loop

\* The loop of nbp_read goes on; nothing need be sent.
FramesSpec == FramesInit /\ [][FramesNext]_frameVars /\ WF_frameVars(Loop)
----------------------------------------------------------------------------
(* Properties.                                                             *)

\* One byte that goes wrong on the line never becomes a message: what is found
\* is some of what was sent, in its order, and nothing twice (nest.c:236-247).
NothingMadeUp ==
    \E f \in [DOMAIN got -> DOMAIN sent] :
        /\ \A j, k \in DOMAIN got : j < k => f[j] < f[k]
        /\ \A k \in DOMAIN got : sent[f[k]] = [type |-> got[k].type,
                                               data |-> got[k].data]

\* A whole frame stands in `s' at `k', and what it says.
IntactIn(s, k) ==
    /\ Len(s) >= k + Overhead
    /\ HasHeader(s, k)
    /\ Len(s) >= k + FrameSize(s, k)
    /\ Checks(s, k)
MessageIn(s, k) == [type |-> Word(s, k + 3), data |-> DataAt(s, k)]

IntactAt(k) == IntactIn(received, k)

\* No whole frame among the bytes read is passed over, wherever the pieces end
\* and whatever stands before it, a header with a wrong length included: it is
\* found, lies within one that was, or is still ahead, in a buffer that holds
\* what was read and not dealt with (nest.c:214-247, bytes.h:56-84).
NoFrameLost ==
    /\ rdbuf = SubSeq(received, pos + 1, Len(received))
    /\ Len(rdbuf) <= alloc
    /\ \A k \in 0..pos - 1 :
          IntactAt(k) =>
              \E j \in DOMAIN got :
                  got[j].at <= k /\ k < got[j].at + Overhead + Len(got[j].data)

\* On a line without faults everything arrives as it was sent, as soon as its
\* last byte is in, however the bytes were cut into pieces (nest.c:66-90, 216-247).
CleanLineDelivers ==
    faults = 0 /\ wire = <<>> /\ pc = "poll" =>
        /\ rdbuf = <<>>
        /\ sent = [k \in DOMAIN got |-> [type |-> got[k].type, data |-> got[k].data]]

\* `Streams' has all that the line may carry.
Carries(Streams) ==
    /\ [bytes |-> <<>>, sent |-> <<>>, faults |-> 0] \in Streams
    /\ \A s \in Streams, m \in Messages :
          LET With(bytes, more) == [bytes |-> s.bytes \o bytes, sent |-> Append(s.sent, m),
                                    faults |-> s.faults + more]
          IN Len(s.sent) < MaxFrames =>
                /\ With(Encoded(m), 0) \in Streams
                /\ s.faults < MaxFaults =>
                      \A bytes \in Faulty(Encoded(m)) : With(bytes, 1) \in Streams

\* The checksum tells: whole frames in the streams are some of those that were sent,
\* in their order.
Tells(Streams) ==
    \A s \in Streams :
        LET places == { k \in 0..Len(s.bytes) : IntactIn(s.bytes, k) }
        IN \E f \in [places -> DOMAIN s.sent] :
              /\ \A j, k \in places : j < k => f[j] < f[k]
              /\ \A k \in places : s.sent[f[k]] = MessageIn(s.bytes, k)

\* The loop comes to its end, whatever the bytes (nest.c:214-248).
LoopEnds == pc = "parse" ~> pc = "poll"
=============================================================================
