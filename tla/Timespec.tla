------------------------------ MODULE Timespec ------------------------------
(***************************************************************************)
(* The time arithmetic of freeabode/util.h on struct timespec.  How many   *)
(* nanoseconds a millisecond has and how many milliseconds a second are    *)
(* constants, so that the carries can be reached with small numbers.  The  *)
(* differences of seconds fit an int for 68 years and are not cut here.    *)
(***************************************************************************)
EXTENDS Integers

CONSTANTS NsPerMs, MsPerSec

ASSUME TimespecAssumption == NsPerMs \in Nat \ {0} /\ MsPerSec \in Nat \ {0}

NsPerSec == NsPerMs * MsPerSec

\* What the functions take and give: nanoseconds below a second.
Times == [sec : Nat, nsec : { n \in Nat : n < NsPerSec }]

\* The time as a number, which no code computes.
Value(t) == t.sec * NsPerSec + t.nsec

Time(s, n) == [sec |-> s, nsec |-> n]
Clear == Time(-1, 0)
IsSet(t) == t.sec # -1

\* timespec_cmp: negative, zero or positive.
Cmp(a, b) == IF a.sec = b.sec THEN a.nsec - b.nsec ELSE a.sec - b.sec

\* Mutant of Carried: nothing is carried.
Uncarried(s, n) == Time(s, n)

Carried(s, n) == IF n >= NsPerSec THEN Time(s + 1, n - NsPerSec) ELSE Time(s, n)

\* timespec_add, timespec_add_ms and timespec_add_ns.
Add(a, b) == Carried(a.sec + b.sec, a.nsec + b.nsec)

AddMs(a, ms) == Add(a, Time(ms \div MsPerSec, (ms % MsPerSec) * NsPerMs))

AddNs(a, ns) ==
    LET total == ns + a.nsec
    IN IF total >= NsPerSec
       THEN Time(a.sec + total \div NsPerSec, total % NsPerSec)
       ELSE Time(a.sec, total)

\* timespec_sub.
Sub(a, b) ==
    IF a.nsec < b.nsec THEN Time(a.sec - b.sec - 1, a.nsec - b.nsec + NsPerSec)
                       ELSE Time(a.sec - b.sec, a.nsec - b.nsec)

\* timespec_passed: its result, and what it makes of the timeout.
Passed(timer, now) == IsSet(timer) /\ Cmp(timer, now) < 0

TimeoutWith(timeout, timer, now) ==
    IF ~IsSet(timer) \/ Passed(timer, now) THEN timeout
    ELSE IF IsSet(timeout) /\ Cmp(timeout, timer) < 0 THEN timeout ELSE timer

\* timespec_to_timeout_ms of a timeout that is set.
TimeoutMs(now, timeout) ==
    LET left == Sub(timeout, now)
    IN left.sec * MsPerSec + left.nsec \div NsPerMs
=============================================================================
