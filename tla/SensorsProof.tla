---------------------------- MODULE SensorsProof ----------------------------
(***************************************************************************)
(* The time arithmetic and the two sensors' processes, for every value of  *)
(* their constants: what the functions on timespecs compute, which lets the*)
(* other modules count time in numbers; Bme280, which computes with them;  *)
(* and Htu21d.                                                             *)
(***************************************************************************)
EXTENDS MCSensors, TLAPS

(***************************************************************************)
(* The time arithmetic.                                                    *)
(***************************************************************************)

LEMMA Split ==
    /\ NsPerMs \in Nat \ {0} /\ MsPerSec \in Nat \ {0} /\ NsPerSec \in Nat \ {0}
    /\ \A t \in Times : /\ t.sec \in Nat /\ t.nsec \in Nat /\ t.nsec < NsPerSec
                        /\ IsSet(t)
                        /\ Value(t) \in Nat
BY TimespecAssumption DEF NsPerSec, Times, IsSet, Value

\* A carry neither loses nor adds time (util.h:226-235).
LEMMA CarriedValue ==
    ASSUME NEW s \in Nat, NEW n \in Nat, n < 2 * NsPerSec
    PROVE  /\ Carried(s, n) \in Times
           /\ Value(Carried(s, n)) = s * NsPerSec + n
<1>1. CASE n >= NsPerSec
  <2>1. Carried(s, n) = [sec |-> s + 1, nsec |-> n - NsPerSec]
    BY <1>1 DEF Carried, Time
  <2>2. Carried(s, n) \in Times
    BY <1>1, <2>1, Split DEF Times
  <2>3. (s + 1) * NsPerSec = s * NsPerSec + NsPerSec
    BY Split
  <2>4. Value(Carried(s, n)) = (s + 1) * NsPerSec + (n - NsPerSec)
    BY <2>1 DEF Value
  <2>5. s * NsPerSec \in Nat
    BY Split
  <2> QED
    BY <2>2, <2>3, <2>4, <2>5, Split
<1>2. CASE n < NsPerSec
  <2>1. Carried(s, n) = [sec |-> s, nsec |-> n]
    BY <1>2, Split DEF Carried, Time
  <2> QED
    BY <1>2, <2>1, Split DEF Times, Value
<1> QED
  BY <1>1, <1>2, Split

\* timespec_add adds.
THEOREM AddIsSum ==
    \A a, b \in Times : /\ Add(a, b) \in Times
                        /\ Value(Add(a, b)) = Value(a) + Value(b)
<1> SUFFICES ASSUME NEW a \in Times, NEW b \in Times
             PROVE  /\ Add(a, b) \in Times
                    /\ Value(Add(a, b)) = Value(a) + Value(b)
  OBVIOUS
<1>1. /\ a.sec \in Nat /\ b.sec \in Nat /\ a.nsec \in Nat /\ b.nsec \in Nat
      /\ a.nsec + b.nsec < 2 * NsPerSec
      /\ NsPerSec \in Nat
  BY Split
<1>2. /\ Add(a, b) \in Times
      /\ Value(Add(a, b)) = (a.sec + b.sec) * NsPerSec + (a.nsec + b.nsec)
  BY <1>1, CarriedValue DEF Add
<1>3. (a.sec + b.sec) * NsPerSec = a.sec * NsPerSec + b.sec * NsPerSec
  BY <1>1
<1>4. a.sec * NsPerSec \in Nat /\ b.sec * NsPerSec \in Nat
  BY <1>1
<1> QED
  BY <1>1, <1>2, <1>3, <1>4 DEF Value

LEMMA Division ==
    ASSUME NEW n \in Nat, NEW d \in Nat \ {0}
    PROVE  /\ n \div d \in Nat /\ n % d \in Nat
           /\ n % d < d
           /\ n = (n \div d) * d + (n % d)
OBVIOUS

LEMMA Order ==
    ASSUME NEW p \in Nat, NEW q \in Nat, NEW d \in Nat \ {0}, p < q
    PROVE  p * d + d <= q * d
<1>1. PICK k \in Nat : q = p + 1 + k
  <2>1. q - p - 1 \in Nat
    OBVIOUS
  <2> QED
    BY <2>1
<1>2. (p + 1 + k) * d = p * d + d + k * d
  OBVIOUS
<1>3. k * d \in Nat /\ p * d \in Nat
  OBVIOUS
<1> QED
  BY <1>1, <1>2, <1>3

\* timespec_cmp orders times as the numbers they stand for (util.h:196-202).
THEOREM CmpIsOrder ==
    \A a, b \in Times : Cmp(a, b) < 0 <=> Value(a) < Value(b)
<1> SUFFICES ASSUME NEW a \in Times, NEW b \in Times
             PROVE  Cmp(a, b) < 0 <=> Value(a) < Value(b)
  OBVIOUS
<1>1. /\ a.sec \in Nat /\ b.sec \in Nat /\ a.nsec \in Nat /\ b.nsec \in Nat
      /\ a.nsec < NsPerSec /\ b.nsec < NsPerSec
      /\ NsPerSec \in Nat \ {0}
  BY Split
<1>2. a.sec * NsPerSec \in Nat /\ b.sec * NsPerSec \in Nat
  BY <1>1
<1>3. CASE a.sec = b.sec
  BY <1>1, <1>2, <1>3 DEF Cmp, Value
<1>4. CASE a.sec < b.sec
  <2>1. a.sec * NsPerSec + NsPerSec <= b.sec * NsPerSec
    BY <1>1, <1>4, Order
  <2> QED
    BY <1>1, <1>2, <1>4, <2>1 DEF Cmp, Value
<1>5. CASE b.sec < a.sec
  <2>1. b.sec * NsPerSec + NsPerSec <= a.sec * NsPerSec
    BY <1>1, <1>5, Order
  <2> QED
    BY <1>1, <1>2, <1>5, <2>1 DEF Cmp, Value
<1> QED
  BY <1>1, <1>3, <1>4, <1>5

\* timespec_add_ns adds nanoseconds, any number of seconds of them
\* (util.h:237-249).
THEOREM AddNsIsSum ==
    \A a \in Times, ns \in Nat : /\ AddNs(a, ns) \in Times
                                /\ Value(AddNs(a, ns)) = Value(a) + ns
<1> SUFFICES ASSUME NEW a \in Times, NEW ns \in Nat
             PROVE  /\ AddNs(a, ns) \in Times
                    /\ Value(AddNs(a, ns)) = Value(a) + ns
  OBVIOUS
<1> DEFINE total == ns + a.nsec
<1>1. a.sec \in Nat /\ a.nsec \in Nat /\ NsPerSec \in Nat \ {0} /\ total \in Nat
  BY Split
<1>2. CASE total >= NsPerSec
  <2> DEFINE q == total \div NsPerSec
             r == total % NsPerSec
  <2>1. /\ q \in Nat /\ r \in Nat /\ r < NsPerSec
        /\ total = q * NsPerSec + r
    BY <1>1, Division
  <2>2. AddNs(a, ns) = [sec |-> a.sec + q, nsec |-> r]
    BY <1>2 DEF AddNs, Time
  <2> HIDE DEF q, r
  <2>3. (a.sec + q) * NsPerSec = a.sec * NsPerSec + q * NsPerSec
    BY <1>1, <2>1
  <2>4. a.sec * NsPerSec \in Nat /\ q * NsPerSec \in Nat
    BY <1>1, <2>1
  <2>5. AddNs(a, ns) \in Times
    BY <1>1, <2>1, <2>2 DEF Times
  <2>6. Value(AddNs(a, ns)) = (a.sec + q) * NsPerSec + r
    BY <2>2 DEF Value
  <2>7. Value(a) = a.sec * NsPerSec + a.nsec
    BY DEF Value
  <2> QED
    BY <1>1, <2>1, <2>3, <2>4, <2>5, <2>6, <2>7
<1>3. CASE total < NsPerSec
  <2>1. AddNs(a, ns) = [sec |-> a.sec, nsec |-> total]
    BY <1>1, <1>3 DEF AddNs, Time
  <2>2. a.sec * NsPerSec \in Nat
    BY <1>1
  <2> QED
    BY <1>1, <1>3, <2>1, <2>2 DEF Times, Value
<1> QED
  BY <1>1, <1>2, <1>3

\* timespec_sub takes away, when the result is not negative (util.h:261-271).
LEMMA SubIsDifference ==
    ASSUME NEW a \in Times, NEW b \in Times, Value(b) <= Value(a)
    PROVE  /\ Sub(a, b) \in Times
           /\ Value(Sub(a, b)) = Value(a) - Value(b)
<1>1. /\ a.sec \in Nat /\ b.sec \in Nat /\ a.nsec \in Nat /\ b.nsec \in Nat
      /\ a.nsec < NsPerSec /\ b.nsec < NsPerSec
      /\ NsPerSec \in Nat \ {0}
      /\ Value(a) \in Nat /\ Value(b) \in Nat
  BY Split
<1>2. a.sec * NsPerSec \in Nat /\ b.sec * NsPerSec \in Nat
  BY <1>1
<1>3. b.sec <= a.sec
  <2> SUFFICES ASSUME a.sec < b.sec PROVE FALSE
    BY <1>1
  <2>1. a.sec * NsPerSec + NsPerSec <= b.sec * NsPerSec
    BY <1>1, Order
  <2> QED
    BY <1>1, <1>2, <2>1 DEF Value
<1>4. CASE a.nsec < b.nsec
  <2>1. b.sec # a.sec
    BY <1>1, <1>2, <1>4 DEF Value
  <2>2. a.sec - b.sec - 1 \in Nat
    BY <1>1, <1>3, <2>1
  <2>3. Sub(a, b) = [sec |-> a.sec - b.sec - 1, nsec |-> a.nsec - b.nsec + NsPerSec]
    BY <1>4 DEF Sub, Time
  <2>4. (a.sec - b.sec - 1) * NsPerSec = a.sec * NsPerSec - b.sec * NsPerSec - NsPerSec
    BY <1>1
  <2>5. Sub(a, b) \in Times
    BY <1>1, <1>4, <2>2, <2>3 DEF Times
  <2>6. Value(Sub(a, b)) = (a.sec - b.sec - 1) * NsPerSec + (a.nsec - b.nsec + NsPerSec)
    BY <2>3 DEF Value
  <2> QED
    BY <1>1, <1>2, <2>4, <2>5, <2>6 DEF Value
<1>5. CASE ~(a.nsec < b.nsec)
  <2>1. Sub(a, b) = [sec |-> a.sec - b.sec, nsec |-> a.nsec - b.nsec]
    BY <1>5 DEF Sub, Time
  <2>2. (a.sec - b.sec) * NsPerSec = a.sec * NsPerSec - b.sec * NsPerSec
    BY <1>1
  <2>3. Sub(a, b) \in Times
    BY <1>1, <1>3, <1>5, <2>1 DEF Times
  <2>4. Value(Sub(a, b)) = (a.sec - b.sec) * NsPerSec + (a.nsec - b.nsec)
    BY <2>1 DEF Value
  <2> QED
    BY <1>1, <1>2, <2>2, <2>3, <2>4 DEF Value
<1> QED
  BY <1>4, <1>5

\* timespec_add_ms adds milliseconds, any number of seconds of them
\* (util.h:251-259).
THEOREM AddMsIsSum ==
    \A a \in Times, ms \in Nat : /\ AddMs(a, ms) \in Times
                                /\ Value(AddMs(a, ms)) = Value(a) + ms * NsPerMs
<1> SUFFICES ASSUME NEW a \in Times, NEW ms \in Nat
             PROVE  /\ AddMs(a, ms) \in Times
                    /\ Value(AddMs(a, ms)) = Value(a) + ms * NsPerMs
  OBVIOUS
<1> DEFINE q == ms \div MsPerSec
           r == ms % MsPerSec
           b == Time(q, r * NsPerMs)
<1>1. NsPerMs \in Nat \ {0} /\ MsPerSec \in Nat \ {0}
  BY Split
<1>2. q \in Nat /\ r \in Nat /\ r < MsPerSec /\ ms = q * MsPerSec + r
  BY <1>1, Division
<1>3. AddMs(a, ms) = Add(a, b)
  BY DEF AddMs
<1>4. b = [sec |-> q, nsec |-> r * NsPerMs]
  BY DEF Time
<1> HIDE DEF q, r, b
<1>5. r * NsPerMs + NsPerMs <= MsPerSec * NsPerMs
  BY <1>1, <1>2, Order
<1>6. r * NsPerMs \in Nat /\ MsPerSec * NsPerMs = NsPerSec
  BY <1>1, <1>2 DEF NsPerSec
<1>7. b \in Times
  BY <1>1, <1>2, <1>4, <1>5, <1>6, Split DEF Times
<1>8. Value(b) = q * (NsPerMs * MsPerSec) + r * NsPerMs
  BY <1>4 DEF Value, NsPerSec
<1>9. ms * NsPerMs = q * (NsPerMs * MsPerSec) + r * NsPerMs
  <2>1. (q * MsPerSec + r) * NsPerMs = q * MsPerSec * NsPerMs + r * NsPerMs
    BY <1>1, <1>2
  <2>2. q * MsPerSec * NsPerMs = q * (NsPerMs * MsPerSec)
    BY <1>1, <1>2
  <2> QED
    BY <1>2, <2>1, <2>2
<1> QED
  BY <1>3, <1>7, <1>8, <1>9, AddIsSum

\* A timer has passed when it is before now, not yet when it is now
\* (util.h:273-283).
THEOREM PassedIsOver ==
    \A timer, moment \in Times : Passed(timer, moment) <=> Value(timer) < Value(moment)
BY CmpIsOrder, Split DEF Passed

\* The timeout computed for a timer that has not passed is not negative, which
\* zmq_poll would take for no timeout at all; it never ends after the timer, and
\* ends less than a millisecond before it (util.h:285-293).
THEOREM TimeoutNeverLate ==
    ASSUME NEW moment \in Times, NEW timer \in Times, ~Passed(timer, moment)
    PROVE  /\ TimeoutMs(moment, timer) \in Nat
           /\ Value(moment) + TimeoutMs(moment, timer) * NsPerMs <= Value(timer)
           /\ Value(timer) < Value(moment) + TimeoutMs(moment, timer) * NsPerMs + NsPerMs
<1> DEFINE left == Sub(timer, moment)
           q == left.nsec \div NsPerMs
           r == left.nsec % NsPerMs
<1>1. Value(moment) \in Nat /\ Value(timer) \in Nat /\ Value(moment) <= Value(timer)
  BY PassedIsOver, Split
<1>2. left \in Times /\ Value(left) = Value(timer) - Value(moment)
  BY <1>1, SubIsDifference
<1>3. NsPerMs \in Nat \ {0} /\ MsPerSec \in Nat \ {0}
      /\ left.sec \in Nat /\ left.nsec \in Nat
  BY <1>2, Split
<1>4. q \in Nat /\ r \in Nat /\ r < NsPerMs /\ left.nsec = q * NsPerMs + r
  BY <1>3, Division
<1>5. TimeoutMs(moment, timer) = left.sec * MsPerSec + q
  BY DEF TimeoutMs
<1>6. Value(left) = left.sec * (NsPerMs * MsPerSec) + left.nsec
  BY DEF Value, NsPerSec
<1> HIDE DEF left, q, r
<1>7. left.sec * MsPerSec \in Nat
  BY <1>3
<1>8. (left.sec * MsPerSec + q) * NsPerMs
        = left.sec * (NsPerMs * MsPerSec) + q * NsPerMs
  <2>1. (left.sec * MsPerSec + q) * NsPerMs
          = left.sec * MsPerSec * NsPerMs + q * NsPerMs
    BY <1>3, <1>4, <1>7
  <2>2. left.sec * MsPerSec * NsPerMs = left.sec * (NsPerMs * MsPerSec)
    BY <1>3
  <2> QED
    BY <2>1, <2>2
<1>9. TimeoutMs(moment, timer) * NsPerMs = Value(left) - r
  <2>1. left.sec * (NsPerMs * MsPerSec) \in Nat /\ q * NsPerMs \in Nat
    BY <1>3, <1>4
  <2> QED
    BY <1>3, <1>4, <1>5, <1>6, <1>8, <2>1
<1>10. TimeoutMs(moment, timer) \in Nat
  BY <1>4, <1>5, <1>7
<1>11. TimeoutMs(moment, timer) * NsPerMs \in Int
  BY <1>3, <1>10
<1> QED
  BY <1>1, <1>2, <1>3, <1>4, <1>9, <1>10, <1>11

\* The timeout carried from timer to timer is the soonest of them
\* (util.h:216-223, 280-281).
THEOREM TimeoutIsSoonest ==
    ASSUME NEW timer \in Times, NEW moment \in Times, ~Passed(timer, moment),
           NEW limit \in Times \cup {Clear}
    PROVE  LET sooner == TimeoutWith(limit, timer, moment)
           IN /\ sooner \in Times
              /\ sooner \in {limit, timer}
              /\ Value(sooner) <= Value(timer)
              /\ IsSet(limit) => Value(sooner) <= Value(limit)
<1>1. IsSet(timer) /\ ~IsSet(Clear)
  BY Split DEF Clear, IsSet, Time
<1>2. Value(timer) \in Nat
  BY Split
<1>3. CASE IsSet(limit)
  <2>1. limit \in Times /\ Value(limit) \in Nat
    BY <1>1, <1>3, Split
  <2>2. Cmp(limit, timer) < 0 <=> Value(limit) < Value(timer)
    BY <2>1, CmpIsOrder
  <2> QED
    BY <1>1, <1>2, <1>3, <2>1, <2>2 DEF TimeoutWith
<1>4. CASE ~IsSet(limit)
  BY <1>1, <1>2, <1>4 DEF TimeoutWith
<1> QED
  BY <1>3, <1>4
----------------------------------------------------------------------------
(***************************************************************************)
(* Bme280.                                                                 *)
(***************************************************************************)

\* Where the wait in my_loop stands: its deadline is when it was begun and what
\* it owes, the device is heeded only by a wait without a deadline.
Counted ==
    /\ Value(begun) <= Value(now)
    /\ IsSet(deadline) => Value(deadline) = Value(begun) + owed
    /\ ~IsSet(deadline) => owed = 0
    /\ revents => ~IsSet(deadline)
    /\ NeverEarly

\* A measurement is awaited or read in the poll that began it.
Fresh ==
    /\ poll \in Nat /\ started \in Nat
    /\ at \in {"delay", "data"} => started = poll

Inv == TypeOK /\ Counted /\ Fresh

LEMMA Constants ==
    /\ Interval \in Nat /\ ReqDelay \in Nat /\ Pause \in Nat
    /\ MaxOps \in Nat /\ MaxSec \in Nat
    /\ Interval * NsPerMs \in Nat /\ ReqDelay * NsPerMs \in Nat
    /\ Clear \notin Times /\ ~IsSet(Clear)
<1>1. /\ Interval \in Nat /\ ReqDelay \in Nat /\ Pause \in Nat
      /\ MaxOps \in Nat /\ MaxSec \in Nat
  BY Bme280Assumption
<1>2. ~IsSet(Clear)
  BY DEF Clear, Time, IsSet
<1> QED
  BY <1>1, <1>2, Split

\* Every wait is begun with a deadline as far away as it is to be long.
LEMMA SleepIsCounted ==
    ASSUME now \in Times, now' = now, Value(now) \in Nat
    PROVE  \A ns \in Nat, until \in Times \cup {Clear} :
              /\ SleepFor(until, ns)
              /\ \/ until = Clear /\ ns = 0
                 \/ until \in Times /\ Value(until) = Value(now) + ns
              => /\ Counted'
                 /\ begun' \in Times /\ owed' \in Nat /\ deadline' \in Times \cup {Clear}
                 /\ revents' \in BOOLEAN /\ pc' = "loop"
<1> SUFFICES ASSUME NEW ns \in Nat, NEW until \in Times \cup {Clear},
                    SleepFor(until, ns),
                    \/ until = Clear /\ ns = 0
                    \/ until \in Times /\ Value(until) = Value(now) + ns
             PROVE  /\ Counted'
                    /\ begun' \in Times /\ owed' \in Nat
                    /\ deadline' \in Times \cup {Clear}
                    /\ revents' \in BOOLEAN /\ pc' = "loop"
  OBVIOUS
<1>1. /\ begun' = now /\ owed' = ns /\ deadline' = until /\ revents' = FALSE
      /\ pc' = "loop"
  BY DEF SleepFor
<1>2. NeverEarly'
  BY <1>1 DEF NeverEarly
<1>3. IsSet(until) => Value(until) = Value(now) + ns
  BY Constants
<1>4. ~IsSet(until) => ns = 0
  BY Split
<1>5. Value(begun') <= Value(now')
  BY <1>1
<1> QED
  BY <1>1, <1>2, <1>3, <1>4, <1>5 DEF Counted

LEMMA Begins == Init => Inv /\ SubscriberKnowsReading
<1> SUFFICES ASSUME Init PROVE Inv /\ SubscriberKnowsReading
  OBVIOUS
<1>1. PICK n \in 0..NsPerSec - 1 : now = Time(0, n)
  BY DEF Init
<1>2. NsPerSec \in Nat \ {0}
  BY Split
<1>3. now \in Times
  BY <1>1, <1>2 DEF Time, Times
<1>n. 0 \in 0..MaxOps
  BY Constants
<1>4. TypeOK
  <2>1. /\ deadline = now /\ wake = Clear /\ begun = now /\ owed = 0
        /\ at = "interval" /\ io = "none" /\ pc = "loop"
        /\ revents = FALSE /\ failed = FALSE /\ ops = 0
    BY DEF Init
  <2>2. reading \in 0..poll /\ told \in {Nobody} \cup 0..poll
    BY DEF Init
  <2> QED
    BY <1>3, <1>n, <2>1, <2>2 DEF TypeOK
<1>5. Counted
  BY <1>3, Split DEF Init, Counted, NeverEarly
<1> QED
  BY <1>4, <1>5 DEF Init, Inv, Fresh, SubscriberKnowsReading

\* One step of the process: it keeps the invariant, and publishes what it has
\* just measured.
LEMMA Steps ==
    ASSUME Inv, SubscriberKnowsReading, Next
    PROVE  /\ Inv' /\ SubscriberKnowsReading'
           /\ reading' # reading => started = poll
<1> USE DEF Inv
<1>0. /\ now \in Times /\ Value(now) \in Nat /\ Value(begun) \in Nat
      /\ now' = now => Value(now') = Value(now)
      /\ begun' = begun => Value(begun') = Value(begun)
  BY Split DEF TypeOK
<1>n. 0 \in 0..MaxOps
  BY Constants
<1>1. CASE LoopPass
  <2>1. CASE SleepsOn /\ IsSet(deadline)
    <3>1. deadline \in Times /\ ~Passed(deadline, now)
      BY <2>1, Constants DEF TypeOK, SleepsOn
    <3>2. TimeoutMs(now, deadline) \in Nat
      BY <1>0, <3>1, TimeoutNeverLate
    <3>3. AddMs(now, TimeoutMs(now, deadline)) \in Times
      BY <1>0, <3>2, AddMsIsSum
    <3>4. wake' \in Times /\ pc' = "poll"
      BY <1>1, <2>1, <3>3 DEF LoopPass
    <3>5. UNCHANGED <<now, at, io, deadline, revents, ops, failed, reading, told,
                      history>>
      BY <1>1 DEF LoopPass
    <3> QED
      BY <1>0, <3>4, <3>5 DEF TypeOK, Counted, NeverEarly, Fresh, history,
                              SubscriberKnowsReading
  <2>2. CASE SleepsOn /\ ~IsSet(deadline)
    BY <1>0, <1>1, <2>2 DEF LoopPass, TypeOK, Counted, NeverEarly, Fresh, history,
                            SubscriberKnowsReading
  <2>3. CASE ~SleepsOn
    <3>1. pc' = "back" /\ wake' = Clear
      BY <1>1, <2>3 DEF LoopPass
    <3>2. UNCHANGED <<now, at, io, deadline, revents, ops, failed, reading, told,
                      history>>
      BY <1>1 DEF LoopPass
    <3>3. Value(now) - Value(begun) >= owed
      <4>1. CASE revents
        BY <1>0, <4>1 DEF Counted
      <4>2. CASE Passed(deadline, now)
        <5>1. IsSet(deadline) /\ deadline \in Times
          BY <4>2, Constants DEF Passed, TypeOK
        <5>2. Value(deadline) < Value(now)
          BY <1>0, <4>2, <5>1, PassedIsOver
        <5> QED
          BY <1>0, <5>1, <5>2 DEF Counted, TypeOK
      <4> QED
        BY <2>3, <4>1, <4>2 DEF SleepsOn
    <3> QED
      BY <1>0, <3>1, <3>2, <3>3 DEF TypeOK, Counted, NeverEarly, Fresh, history,
                                    SubscriberKnowsReading
  <2> QED
    BY <2>1, <2>2, <2>3
<1>2. CASE PollTimedOut
  BY <1>0, <1>2 DEF PollTimedOut, TypeOK, Counted, NeverEarly, Fresh, history,
                    SubscriberKnowsReading
<1>3. CASE PollReady
  <2>1. PICK sub \in BOOLEAN, fd \in BOOLEAN :
          /\ fd => ~IsSet(deadline)
          /\ told' = IF sub THEN reading ELSE told
          /\ revents' = fd
    BY <1>3 DEF PollReady
  <2>2. /\ pc' = "loop"
        /\ UNCHANGED <<now, at, io, deadline, wake, ops, failed, reading, history>>
    BY <1>3 DEF PollReady
  <2> QED
    BY <1>0, <2>1, <2>2 DEF TypeOK, Counted, NeverEarly, Fresh, history,
                            SubscriberKnowsReading
<1>4. CASE DriverAccess
  <2>1. /\ io' \in {"write", "register", "pause"} /\ ops' \in 0..MaxOps
        /\ UNCHANGED <<now, at, wake, failed, reading, told, poll, started>>
    BY <1>4, Constants DEF DriverAccess, TypeOK
  <2>2. AwaitDevice \/ SleepFor(AddNs(now, Pause), Pause)
    BY <1>4 DEF DriverAccess
  <2>3. AddNs(now, Pause) \in Times /\ Value(AddNs(now, Pause)) = Value(now) + Pause
    BY <1>0, Constants, AddNsIsSum
  <2>4. /\ Counted' /\ begun' \in Times /\ owed' \in Nat
        /\ deadline' \in Times \cup {Clear} /\ revents' \in BOOLEAN /\ pc' = "loop"
    BY <1>0, <2>1, <2>2, <2>3, Constants, SleepIsCounted DEF AwaitDevice
  <2> QED
    BY <2>1, <2>4 DEF TypeOK, Fresh, SubscriberKnowsReading
<1>5. CASE Access
  <2>1. /\ io' \in {"none", "write", "register", "read", "pause"} /\ failed' \in BOOLEAN
        /\ UNCHANGED <<now, at, wake, ops, reading, told, poll, started>>
    BY <1>5 DEF Access, TypeOK
  <2>2. \/ AwaitDevice
        \/ pc' = "driver" /\ UNCHANGED <<deadline, revents, begun, owed>>
    BY <1>5 DEF Access
  <2>3. CASE AwaitDevice
    <3>1. /\ Counted' /\ begun' \in Times /\ owed' \in Nat
          /\ deadline' \in Times \cup {Clear} /\ revents' \in BOOLEAN /\ pc' = "loop"
      BY <1>0, <2>1, <2>3, Constants, SleepIsCounted DEF AwaitDevice
    <3> QED
      BY <2>1, <3>1 DEF TypeOK, Fresh, SubscriberKnowsReading
  <2>4. CASE pc' = "driver" /\ UNCHANGED <<deadline, revents, begun, owed>>
    BY <1>0, <2>1, <2>4 DEF TypeOK, Counted, NeverEarly, Fresh, SubscriberKnowsReading
  <2> QED
    BY <2>2, <2>3, <2>4
<1>6. CASE PollSensor
  <2>1. /\ at' = "mode" /\ pc' = "driver" /\ ops' = 0 /\ failed' = FALSE
        /\ poll' = poll + 1
        /\ UNCHANGED <<now, io, deadline, wake, revents, reading, told, started, begun,
                      owed>>
    BY <1>6 DEF PollSensor, CallDriver
  <2>2. 0..poll \subseteq 0..poll'
    BY <2>1 DEF Fresh
  <2>3. TypeOK'
    BY <1>n, <2>1, <2>2 DEF TypeOK
  <2> QED
    BY <1>0, <2>1, <2>3 DEF Counted, NeverEarly, Fresh, SubscriberKnowsReading
<1>7. CASE GetData
  BY <1>0, <1>n, <1>7 DEF GetData, CallDriver, TypeOK, Counted, NeverEarly, Fresh,
                    history, SubscriberKnowsReading
<1>8. ASSUME ScheduleNextPoll, now' = now
      PROVE  /\ Counted' /\ begun' \in Times /\ owed' \in Nat
             /\ deadline' \in Times \cup {Clear} /\ revents' \in BOOLEAN
             /\ pc' = "loop" /\ at' = "interval"
  <2>1. /\ AddMs(now, Interval) \in Times
        /\ Value(AddMs(now, Interval)) = Value(now) + Interval * NsPerMs
    BY <1>0, Constants, AddMsIsSum
  <2> QED
    BY <1>0, <1>8, <2>1, Constants, SleepIsCounted DEF ScheduleNextPoll
<1>9. CASE ModeSet
  <2>1. UNCHANGED <<now, io, wake, ops, failed, reading, told, poll>>
    BY <1>9 DEF ModeSet
  <2>2. CASE ModeFailed /\ UNCHANGED started
    <3>1. /\ Counted' /\ begun' \in Times /\ owed' \in Nat
          /\ deadline' \in Times \cup {Clear} /\ revents' \in BOOLEAN
          /\ pc' = "loop" /\ at' = "interval"
      BY <1>8, <2>1, <2>2 DEF ModeFailed
    <3> QED
      BY <2>1, <2>2, <3>1 DEF TypeOK, Fresh, SubscriberKnowsReading
  <2>3. CASE /\ at' = "delay" /\ started' = poll
             /\ SleepFor(AddNs(now, ReqDelay * NsPerMs), ReqDelay * NsPerMs)
    <3>1. /\ AddNs(now, ReqDelay * NsPerMs) \in Times
          /\ Value(AddNs(now, ReqDelay * NsPerMs)) = Value(now) + ReqDelay * NsPerMs
      BY <1>0, Constants, AddNsIsSum
    <3>2. /\ Counted' /\ begun' \in Times /\ owed' \in Nat
          /\ deadline' \in Times \cup {Clear} /\ revents' \in BOOLEAN /\ pc' = "loop"
      BY <1>0, <2>1, <2>3, <3>1, Constants, SleepIsCounted
    <3> QED
      BY <2>1, <2>3, <3>2 DEF TypeOK, Fresh, SubscriberKnowsReading
  <2> QED
    BY <1>9, <2>2, <2>3 DEF ModeSet
<1>10. CASE DataGot
  <2>1. /\ ScheduleNextPoll /\ at = "data"
        /\ UNCHANGED <<now, io, wake, ops, failed, poll, started>>
        /\ HandleReadings \/ UNCHANGED <<reading, told>>
    BY <1>10 DEF DataGot
  <2>2. /\ Counted' /\ begun' \in Times /\ owed' \in Nat
        /\ deadline' \in Times \cup {Clear} /\ revents' \in BOOLEAN
        /\ pc' = "loop" /\ at' = "interval"
    BY <1>8, <2>1
  <2>3. /\ reading' \in 0..poll /\ told' \in {Nobody} \cup 0..poll
        /\ SubscriberKnowsReading'
    BY <2>1 DEF HandleReadings, TypeOK, Fresh, SubscriberKnowsReading, Nobody
  <2> QED
    BY <2>1, <2>2, <2>3 DEF TypeOK, Fresh
<1>11. CASE Tick
  <2>1. now' = AddNs(now, 1)
    BY <1>11 DEF Tick
  <2>2. now' \in Times /\ Value(now') = Value(now) + 1
    BY <1>0, <2>1, AddNsIsSum
  <2>3. UNCHANGED <<at, io, loopVars, ops, failed, reading, told, history>>
    BY <1>11 DEF Tick
  <2> QED
    BY <1>0, <2>2, <2>3 DEF TypeOK, Counted, NeverEarly, Fresh, loopVars, history,
                            SubscriberKnowsReading
<1> QED
  BY <1>1, <1>2, <1>3, <1>4, <1>5, <1>6, <1>7, <1>9, <1>10, <1>11 DEF Next

LEMMA Stutters ==
    ASSUME Inv, SubscriberKnowsReading, UNCHANGED vars
    PROVE  Inv' /\ SubscriberKnowsReading' /\ reading' = reading
BY DEF Inv, TypeOK, Counted, NeverEarly, Fresh, SubscriberKnowsReading, vars, loopVars,
       history

\* Inv and what subscribers know are invariants.
THEOREM Invariance == Spec => [](Inv /\ SubscriberKnowsReading)
<1>1. Inv /\ SubscriberKnowsReading /\ [Next]_vars
        => Inv' /\ SubscriberKnowsReading'
  BY Steps, Stutters
<1> QED
  BY Begins, <1>1, PTL DEF Spec

\* No wait of the sensor's process ends early, whatever wakes it, however long a
\* second is and however its timeout is cut to milliseconds (bme280.c:63-94).
THEOREM WaitsAreWhole == Spec => []NeverEarly
<1>1. Inv /\ SubscriberKnowsReading => NeverEarly
  BY DEF Inv, Counted
<1> QED
  BY Invariance, <1>1, PTL

\* Every variable has its type: all times stay normal timespecs.
THEOREM TypeCorrect == Spec => []TypeOK
<1>1. Inv /\ SubscriberKnowsReading => TypeOK
  BY DEF Inv
<1> QED
  BY Invariance, <1>1, PTL

\* A subscriber that joins in any wait, the driver's included, knows the current
\* reading (bme280.c:38-59).
THEOREM SubscriberSafety == Spec => []SubscriberKnowsReading
BY Invariance, PTL

\* Only what was measured in the same poll is published (bme280.c:187-206).
THEOREM FreshReadings == Spec => OnlyFreshReadings
<1>1. Inv /\ SubscriberKnowsReading /\ [Next]_vars
        => [reading' # reading => started = poll]_vars
  BY Steps, Stutters
<1> QED
  BY Invariance, <1>1, PTL DEF Spec, OnlyFreshReadings
----------------------------------------------------------------------------
(***************************************************************************)
(* Htu21d, as MCSensors has it.                                            *)
(***************************************************************************)

\* While the sensor measures, the next step is awaited, and its deadline does not
\* pass before the sensor is ready; between the two commands of rcv_temp the
\* deadline is over, so that nothing is measured there.
HtuAwaited ==
    /\ next = Htu!Overdue => busy = 0
    /\ next # Htu!Overdue => busy = 0 \/ busy <= next + 1 - lag
    /\ loop = "humid" => next = Htu!Overdue

HtuInv == Htu!TypeOK /\ HtuAwaited

LEMMA HtuConstants ==
    /\ TempDelay \in Nat /\ HumidDelay \in Nat /\ PollInterval \in Nat
    /\ TempTime \in Nat /\ HumidTime \in Nat /\ MaxLag \in Nat
BY HtuAssumption DEF Htu!Htu21dAssumption

\* What is left of a time, or that it is over.
LEMMA HtuLater ==
    ASSUME NEW t \in {Htu!Overdue} \cup Nat, NEW d \in Nat
    PROVE  /\ Htu!Later(t, d) \in {Htu!Overdue} \cup Nat
           /\ Htu!Later(t, d) # Htu!Overdue => Htu!Later(t, d) = t - d /\ t \in Nat
           /\ Htu!Later(t, d) = Htu!Overdue => t < d
BY DEF Htu!Later, Htu!Overdue

LEMMA HtuInit == Htu!Init => HtuInv
BY HtuConstants DEF Htu!Init, HtuInv, HtuAwaited, Htu!TypeOK, Htu!Overdue

\* A reset, whether it reaches the sensor or not, begins the poll anew.
LEMMA HtuReset ==
    ASSUME HtuInv, next = Htu!Overdue, UNCHANGED <<loop, timeout, lag, bus>>,
           loop # "humid", Htu!Reset
    PROVE  HtuInv'
<1>1. /\ busy' = 0 /\ measuring' \in {"none", measuring}
      /\ req_func' = "req_temp" /\ next' = PollInterval /\ sent' = sent
  BY DEF HtuInv, HtuAwaited, Htu!Reset, Htu!PollComplete
<1>2. Htu!TypeOK'
  BY <1>1, HtuConstants DEF HtuInv, Htu!TypeOK
<1>3. HtuAwaited'
  BY <1>1, HtuConstants DEF HtuAwaited, Htu!Overdue
<1> QED
  BY <1>2, <1>3 DEF HtuInv

\* A step of the poll is taken when its deadline is over.
LEMMA HtuPollStep ==
    ASSUME HtuInv, Htu!InTime, Htu!Step
    PROVE  HtuInv' /\ busy = 0
<1>1. /\ loop = "check" /\ next = Htu!Overdue /\ busy = 0 /\ lag \in 0..MaxLag
      /\ UNCHANGED <<timeout, lag, bus>>
  BY DEF HtuInv, HtuAwaited, Htu!TypeOK, Htu!Step, Htu!Due
<1>2. Htu!Reset /\ UNCHANGED loop => HtuInv'
  BY <1>1, HtuReset
<1>3. CASE req_func = "req_temp" /\ Htu!ReqTemp /\ UNCHANGED loop
  <2>1. CASE Htu!Measure("temp", TempTime) /\ Htu!Await("rcv_temp", TempDelay)
             /\ UNCHANGED sent
    BY <1>1, <1>3, <2>1, HtuConstants DEF HtuInv, HtuAwaited, Htu!TypeOK,
      Htu!Measure, Htu!Await, Htu!Overdue, Htu!InTime
  <2>2. CASE ~bus /\ Htu!Reset
    BY <1>1, <1>2, <1>3, <2>2
  <2> QED
    BY <1>3, <2>1, <2>2 DEF Htu!ReqTemp
<1>4. CASE req_func = "rcv_temp" /\ Htu!RcvTemp
  <2>1. CASE Htu!Reset /\ UNCHANGED loop
    BY <1>1, <1>2, <2>1
  <2>2. CASE /\ Htu!Read /\ sent' = "temp" /\ loop' = "humid"
             /\ UNCHANGED <<req_func, next>>
    BY <1>1, <1>4, <2>2, HtuConstants DEF HtuInv, HtuAwaited, Htu!TypeOK,
      Htu!Read
  <2> QED
    BY <1>4, <2>1, <2>2 DEF Htu!RcvTemp
<1>5. CASE req_func = "rcv_humid" /\ Htu!RcvHumid /\ UNCHANGED loop
  <2>1. CASE Htu!Reset
    BY <1>1, <1>2, <1>5, <2>1
  <2>2. CASE Htu!Read /\ sent' = "humid" /\ Htu!PollComplete
    BY <1>1, <1>5, <2>2, HtuConstants DEF HtuInv, HtuAwaited, Htu!TypeOK,
      Htu!Read, Htu!PollComplete, Htu!Overdue
  <2> QED
    BY <1>5, <2>1, <2>2 DEF Htu!RcvHumid
<1> QED
  BY <1>1, <1>3, <1>4, <1>5 DEF Htu!Step

\* Between the commands of rcv_temp the sensor rests; the second one starts it.
LEMMA HtuReqHumid ==
    ASSUME HtuInv, Htu!InTime, Htu!ReqHumid
    PROVE  HtuInv' /\ busy = 0
<1> USE HtuConstants DEF HtuInv, HtuAwaited, Htu!TypeOK
<1>1. /\ next = Htu!Overdue /\ busy = 0 /\ loop' = "check"
      /\ UNCHANGED <<timeout, lag, bus, sent>>
  BY DEF Htu!ReqHumid
<1>2. CASE Htu!Measure("humid", HumidTime) /\ Htu!Await("rcv_humid", HumidDelay)
  BY <1>1, <1>2 DEF Htu!Measure, Htu!Await, Htu!Overdue, Htu!InTime
<1>3. CASE UNCHANGED <<measuring, busy, req_func, next>>
  BY <1>1, <1>3
<1> QED
  BY <1>1, <1>2, <1>3 DEF Htu!ReqHumid

\* Time passes alike for the sensor and for the deadline.
LEMMA HtuTick ==
    ASSUME HtuInv, Htu!Tick
    PROVE  HtuInv' /\ (busy > 0 => measuring' = measuring /\ busy' <= busy)
<1> USE HtuConstants DEF HtuInv, HtuAwaited, Htu!TypeOK
<1>1. /\ busy' = (IF busy > 0 THEN busy - 1 ELSE 0)
      /\ UNCHANGED <<loop, req_func, measuring, bus, sent>>
      /\ busy \in Nat /\ lag \in Nat
  BY DEF Htu!Tick
<1>2. CASE /\ loop = "poll" /\ timeout > 0
           /\ timeout' = timeout - 1 /\ next' = Htu!Later(next, 1) /\ UNCHANGED lag
  <2>1. /\ next' \in {Htu!Overdue} \cup Nat
        /\ next' # Htu!Overdue => next' = next - 1 /\ next \in Nat
        /\ next' = Htu!Overdue => next < 1
    BY <1>2, HtuLater
  <2>2. Htu!TypeOK'
    BY <1>1, <1>2, <2>1
  <2>3. HtuAwaited'
    BY <1>1, <1>2, <2>1 DEF Htu!Overdue
  <2> QED
    BY <1>1, <2>2, <2>3
<1>3. CASE lag < MaxLag /\ lag' = lag + 1 /\ UNCHANGED <<timeout, next>>
  BY <1>1, <1>3 DEF Htu!Overdue
<1> QED
  BY <1>2, <1>3 DEF Htu!Tick

\* Every other step of the loop leaves the sensor alone.
LEMMA HtuOther ==
    ASSUME HtuInv,
           Htu!ReadClock \/ Htu!Sleep \/ Htu!WakeUp \/ Htu!Subscriber \/ Htu!BusChange
    PROVE  HtuInv' /\ measuring' = measuring /\ busy' = busy
<1> USE HtuConstants DEF HtuInv, HtuAwaited, Htu!TypeOK
<1>1. CASE Htu!ReadClock
  <2>1. /\ loop' = "check" /\ next' = Htu!Later(next, lag) /\ lag' = 0
        /\ UNCHANGED <<req_func, timeout, measuring, busy, bus, sent>>
        /\ lag \in Nat /\ busy \in Nat
    BY <1>1 DEF Htu!ReadClock
  <2>2. /\ next' \in {Htu!Overdue} \cup Nat
        /\ next' # Htu!Overdue => next' = next - lag /\ next \in Nat
        /\ next' = Htu!Overdue => next < lag
    BY <2>1, HtuLater
  <2>3. Htu!TypeOK'
    BY <2>1, <2>2
  <2>4. HtuAwaited'
    BY <2>1, <2>2 DEF Htu!Overdue
  <2> QED
    BY <2>1, <2>3, <2>4
<1>2. CASE Htu!Sleep
  BY <1>2 DEF Htu!Sleep
<1>3. CASE Htu!WakeUp
  BY <1>3 DEF Htu!WakeUp
<1>4. CASE Htu!Subscriber
  BY <1>4 DEF Htu!Subscriber
<1>5. CASE Htu!BusChange
  BY <1>5 DEF Htu!BusChange
<1> QED
  BY <1>1, <1>2, <1>3, <1>4, <1>5

LEMMA HtuNext ==
    ASSUME HtuInv, Htu!InTime, [SensorsNext]_allVars
    PROVE  HtuInv' /\ (busy > 0 => measuring' = measuring /\ busy' <= busy)
<1>0. busy \in Nat
  BY DEF HtuInv, Htu!TypeOK
<1>1. CASE UNCHANGED htuVars
  BY <1>0, <1>1 DEF htuVars, HtuInv, HtuAwaited, Htu!TypeOK
<1>2. CASE Htu!Next
  <2>1. CASE Htu!Step \/ Htu!ReqHumid
    BY <2>1, HtuPollStep, HtuReqHumid
  <2>2. CASE Htu!ReadClock \/ Htu!Sleep \/ Htu!WakeUp \/ Htu!Subscriber
             \/ Htu!BusChange
    BY <1>0, <2>2, HtuOther
  <2>3. CASE Htu!Tick
    BY <2>3, HtuTick
  <2> QED
    BY <1>2, <2>1, <2>2, <2>3 DEF Htu!Next, Htu!Process
<1> QED
  BY <1>1, <1>2 DEF SensorsNext, HtuStep, allVars, htuVars

\* A measurement that the sensor has begun is neither read early nor begun again,
\* for all delays that give the sensor the time it takes (htu21d.c:36-59, 78-98).
THEOREM MeasurementsAreLeft ==
    ASSUME Htu!InTime
    PROVE  SensorsSpec => MeasurementsFinish
<1>1. SensorsInit => HtuInv
  BY HtuInit DEF SensorsInit
<1>2. HtuInv /\ [SensorsNext]_allVars => HtuInv'
  BY HtuNext
<1>3. HtuInv /\ [SensorsNext]_allVars
      => [busy > 0 => measuring' = measuring /\ busy' <= busy]_(Htu!vars)
  BY HtuNext
<1> QED
  BY <1>1, <1>2, <1>3, PTL DEF SensorsSpec, MeasurementsFinish, Htu!MeasurementsFinish
=============================================================================
