------------------------------ MODULE MCSensors ------------------------------
(***************************************************************************)
(* Small instances of the two sensors' processes, one or the other in a    *)
(* behaviour: Bme280 with two nanoseconds to the millisecond and two       *)
(* milliseconds to the second, so that cuts and carries occur, and Htu21d  *)
(* in ticks.                                                               *)
(***************************************************************************)
EXTENDS Bme280

CONSTANTS TempDelay, HumidDelay, PollInterval, TempTime, HumidTime, MaxLag

VARIABLES sensor,   \* "bme280" or "htu21d"
          loop, req_func, next, timeout, lag, measuring, busy, bus, sent

Htu == INSTANCE Htu21d WITH Interval <- PollInterval, pc <- loop,
                            reading <- measuring

ASSUME HtuAssumption == Htu!Htu21dAssumption

htuVars == <<loop, req_func, next, timeout, lag, measuring, busy, bus, sent>>
allVars == <<sensor, vars, htuVars>>

SensorsInit == Init /\ Htu!Init /\ sensor \in {"bme280", "htu21d"}

HtuStep(A) == sensor = "htu21d" /\ A /\ UNCHANGED <<sensor, vars>>

SensorsNext ==
    \/ sensor = "bme280" /\ Next /\ UNCHANGED <<sensor, htuVars>>
    \/ HtuStep(Htu!Next)

SensorsSpec ==
    /\ SensorsInit /\ [][SensorsNext]_allVars
    /\ WF_allVars(HtuStep(Htu!Process)) /\ WF_allVars(HtuStep(Htu!Tick))

\* The properties of Htu21d, under names of their own.

\* A measurement that has begun is left to finish (htu21d.c:36-59, 78-98).
MeasurementsFinish == Htu!MeasurementsFinish

\* The loop goes on, and once the bus works for good, both values are published
\* again and again (htu21d.c:43-122).
KeepsReporting == sensor = "htu21d" => Htu!KeepsReporting
=============================================================================
