---------------------------- MODULE VoltageLeak -----------------------------
(***************************************************************************)
(* A leak detector read as a voltage (src/src/LeakDetectSensor.cpp): a     *)
(* reading below the threshold is counted, the third makes a leak that     *)
(* stays until the detector is created anew, one out of range a fault, and *)
(* a leak turns the chassis off after a delay.  A reading equal to the one *)
(* before is not looked at, except NaN, which equals nothing.              *)
(*                                                                         *)
(* Readings are 0, too low; 1, the minimum; 2; 3, not below the threshold  *)
(* at first; 4, the maximum; 5, too high.                                  *)
(***************************************************************************)
EXTENDS Naturals

CONSTANT
    MaxVoltageEvents    \* bound: changes of the voltage, writes through D-Bus and new detectors

VoltageAssumption == MaxVoltageEvents \in Nat

NaN == 9
Voltages == 0..5 \cup {NaN}

VARIABLES
    volt,               \* the voltage the file shows, NaN when it cannot be read
    detector,           \* the LeakDetectSensor
    shutdown,           \* shutdownTimer: "idle", "armed", "queued" - its handler waits to run -
                        \* or "dangling", queued for a sensor that is gone
    offs,               \* history: the chassis was asked to turn off for this detector
    voltageEvents

voltageVars == <<volt, detector, shutdown, offs, voltageEvents>>

\* The constructor; without an I2C device there is no file to read.
Created(hasDevice, shuts, delayed) ==
    [state |-> IF hasDevice THEN "normal" ELSE "fault", value |-> NaN, threshold |-> 3,
     count |-> 0, override |-> FALSE, reads |-> TRUE, hasFile |-> hasDevice,
     shuts |-> shuts, delayed |-> delayed]

With(d) ==
    volt = 3 /\ detector = d /\ shutdown = "idle" /\ offs = FALSE /\ voltageEvents = 0

Start == With(Created(TRUE, TRUE, TRUE))
Init == \E hasDevice, shuts, delayed \in BOOLEAN : With(Created(hasDevice, shuts, delayed))

Event == voltageEvents < MaxVoltageEvents /\ voltageEvents' = voltageEvents + 1

-----------------------------------------------------------------------------
OutOfRange(v) == v = NaN \/ v > 4 \/ v < 1

\* determineDetectorState: a fault, or the reading that ends it, is not counted
\* and does not reset the count.
Determined(d, v) ==
    CASE d.state = "normal" /\ OutOfRange(v) -> [d EXCEPT !.state = "fault"]
      [] d.state = "normal" /\ ~OutOfRange(v) /\ v < d.threshold ->
            [d EXCEPT !.count = @ + 1, !.state = IF d.count + 1 >= 3 THEN "leak" ELSE "normal"]
      [] d.state = "normal" /\ ~OutOfRange(v) /\ v >= d.threshold -> [d EXCEPT !.count = 0]
      [] d.state = "fault" /\ v < 4 /\ v > 1 -> [d EXCEPT !.state = "normal"]
      [] OTHER -> d

\* The handler of Value, and setDetectorState.
SetValue(d) ==
    /\ detector' = Determined(d, d.value)
    /\ IF detector'.state = "leak" /\ d.state # "leak" /\ d.shuts
       THEN IF d.delayed THEN shutdown' = "armed" /\ UNCHANGED offs
            ELSE offs' = TRUE /\ UNCHANGED shutdown
       ELSE UNCHANGED <<shutdown, offs>>

-----------------------------------------------------------------------------
VoltageChanges ==
    /\ Event
    /\ \E v \in Voltages \ {volt} : volt' = v
    /\ UNCHANGED <<detector, shutdown, offs>>

\* handleResponse: a file that is not open is not read again.
HandleResponse ==
    /\ detector.reads
    /\ IF ~detector.hasFile
       THEN detector' = [detector EXCEPT !.reads = FALSE] /\ UNCHANGED <<shutdown, offs>>
       ELSE IF volt = detector.value /\ volt # NaN THEN UNCHANGED <<detector, shutdown, offs>>
       ELSE SetValue([detector EXCEPT !.value = IF detector.override THEN @ ELSE volt])
    /\ UNCHANGED <<volt, voltageEvents>>

\* Written through D-Bus, a value stays.
Override ==
    /\ Event
    /\ \E v \in Voltages : SetValue([detector EXCEPT !.value = v, !.override = TRUE])
    /\ UNCHANGED volt

SetThreshold ==
    /\ Event
    /\ \E t \in 1..4 : detector' = [detector EXCEPT !.threshold = t]
    /\ UNCHANGED <<volt, shutdown, offs>>

TimerExpires ==
    /\ shutdown = "armed" /\ shutdown' = "queued"
    /\ UNCHANGED <<volt, detector, offs, voltageEvents>>

ExecuteShutdown ==
    /\ shutdown = "queued" /\ shutdown' = "idle"
    /\ offs' = TRUE
    /\ UNCHANGED <<volt, detector, voltageEvents>>

\* The handler uses the sensor that is gone: it may do nothing, or still turn
\* the chassis off.
Dangling ==
    /\ shutdown = "dangling" /\ shutdown' = "idle"
    /\ offs' \in {offs, TRUE}
    /\ UNCHANGED <<volt, detector, voltageEvents>>

\* The configuration changes; cancelling does not withdraw a handler that is queued.
Recreate ==
    /\ Event
    /\ \E hasDevice, shuts, delayed \in BOOLEAN : detector' = Created(hasDevice, shuts, delayed)
    /\ shutdown' = IF shutdown \in {"queued", "dangling"} THEN "dangling" ELSE "idle"
    /\ offs' = FALSE
    /\ UNCHANGED volt

Proceeds == HandleResponse \/ TimerExpires \/ ExecuteShutdown \/ Dangling

Next == Proceeds \/ VoltageChanges \/ Override \/ SetThreshold \/ Recreate

Spec == Init /\ [][Next]_voltageVars /\ WF_voltageVars(Proceeds)

-----------------------------------------------------------------------------
TypeOK ==
    /\ volt \in Voltages /\ detector.value \in Voltages
    /\ detector.state \in {"normal", "fault", "leak"} /\ detector.count \in 0..3
    /\ shutdown \in {"idle", "armed", "queued", "dangling"}
    /\ offs \in BOOLEAN /\ voltageEvents \in 0..MaxVoltageEvents

(* The chassis is turned off only for a detector that found a leak and is  *)
(* configured to, unless a handler outlived its sensor.                    *)
OffIsDue ==
    [][offs' /\ ~offs /\ shutdown # "dangling" =>
          detector'.state = "leak" /\ detector'.shuts]_voltageVars

(* A leak found turns the chassis off, if the detector is configured to.   *)
LeakIsOff == detector.state = "leak" /\ detector.shuts => offs
LeakTurnsOff == <>[]LeakIsOff
=============================================================================
