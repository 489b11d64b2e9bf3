------------------------------- MODULE Sensor -------------------------------
(***************************************************************************)
(* A sensor of a daemon that polls a file: the base class (src/sensor.hpp, *)
(* src/Thresholds.cpp), the pollers of ADC and hwmon sensors               *)
(* (src/adc/ADCSensor.cpp, src/hwmon-temp/HwmonTempSensor.cpp) and the     *)
(* host's power state (src/Utils.cpp), on which the reading depends        *)
(* (PowerState::on).                                                       *)
(*                                                                         *)
(* Thresholds are judged one by one, so the sensor has one.  Readings are  *)
(* integers: only their order and distances matter.  Timers of one         *)
(* duration expire in the order in which they were started; a queued       *)
(* handler cannot be cancelled.  The power-on wait (10 s) outlasts the     *)
(* delays of alarms (5 s).                                                 *)
(***************************************************************************)
EXTENDS Integers, SequencesExt

CONSTANTS Readings,        \* what the file may say
          Thresholds,      \* what a client may set the threshold to
          NaN, Broken,     \* no number; a read that fails or does not parse
          Hysteresis,      \* hysteresisTrigger
          Publish,         \* hysteresisPublish
          ErrorThreshold,  \* errorThreshold
          MaxDelays,       \* bound: delayed alarms (5 s over the poll period)
          MaxSignals,      \* bound: signals of the host's state
          MaxWrites        \* bound: new inputs, thresholds and overrides

SensorAssumption ==
    /\ Readings \subseteq Int /\ Thresholds \subseteq Int
    /\ {NaN, Broken} \cap Int = {} /\ NaN # Broken
    /\ {Hysteresis, Publish, ErrorThreshold, MaxDelays, MaxSignals, MaxWrites} \subseteq Nat

Daemons == {"adc", "hwmon"}
Directions == {"high", "low"}

VARIABLES
    kind, direction,   \* the daemon; the threshold's direction
    sensor,            \* struct Sensor with its D-Bus properties and its
                       \* ThresholdTimer, and powerStatusOn
    open, reads,       \* inputDev is open; reads not handled, with their result
    waiting, waited,   \* waitTimer runs; its handlers that are queued
    host,              \* what the last signal said
    onTimer, onQueued, \* the wait after it said on; its handlers that are queued
    misled,            \* history: the host went off while one was queued
    scans,             \* createSensors (activateOnly) not answered
    input,             \* what a read of the file gives
    signals, writes

vars == <<kind, direction, sensor, open, reads, waiting, waited, host, onTimer,
          onQueued, misled, scans, input, signals, writes>>

config == <<kind, direction>>
loop == <<open, reads, waiting, waited>>
hostState == <<host, onTimer, onQueued, misled, scans, signals>>

Values == Readings \cup {NaN}

TypeOK ==
    /\ kind \in Daemons /\ direction \in Directions
    /\ sensor \in
         [power : BOOLEAN, value : Values, shown : Values, threshold : Thresholds,
          alarm : BOOLEAN, available : BOOLEAN, functional : BOOLEAN, errCount : 0..ErrorThreshold,
          overridden : BOOLEAN, invalidated : BOOLEAN,
          delays : BoundedSeq(BOOLEAN, MaxDelays),
          verdicts : Seq(BOOLEAN)]
    /\ open \in BOOLEAN /\ reads \in Seq({"ok", "aborted", "closed"})
    /\ waiting \in BOOLEAN /\ waited \in Nat
    /\ {host, onTimer, misled} \subseteq BOOLEAN /\ onQueued \in Nat
    /\ scans \in Nat
    /\ input \in Readings \cup {Broken}
    /\ signals \in 0..MaxSignals /\ writes \in 0..MaxWrites

\* The constructor, setInitialProperties.
Start(k, d) ==
    /\ kind = k /\ direction = d
    /\ sensor \in [power : {TRUE}, value : {NaN}, shown : {NaN}, threshold : Thresholds,
                   alarm : {FALSE}, available : {TRUE}, functional : {TRUE},
                   errCount : {0}, overridden : {FALSE}, invalidated : {FALSE},
                   delays : {<<>>}, verdicts : {<<>>}]
    /\ waiting = FALSE /\ waited = 0
    /\ host = TRUE /\ onTimer = FALSE /\ onQueued = 0 /\ misled = FALSE
    /\ scans = 0

\* ... and the first setupRead.
Init ==
    /\ \E k \in Daemons, d \in Directions : Start(k, d)
    /\ open = TRUE /\ reads = <<"ok">>
    /\ input \in Readings \cup {Broken}
    /\ signals = 0 /\ writes = 0

-----------------------------------------------------------------------------
(* Thresholds.cpp                                                          *)

\* The Schmitt trigger; neither holds of NaN.
Trips(t, v) ==
    /\ v # NaN
    /\ IF direction = "high" THEN v >= t ELSE v <= t
Clears(t, v) ==
    /\ v # NaN
    /\ IF direction = "high" THEN v < t - Hysteresis ELSE v > t + Hysteresis

\* checkThresholdsPowerDelay of ADC sensors: low alarms wait, and so do the
\* ends of low alarms while an assertion is waiting (hasActiveTimer).
DelaysAsserts(s, assert) == kind = "adc" /\ direction = "low" /\ assert
Delays(s, assert) ==
    /\ kind = "adc" /\ direction = "low"
    /\ assert \/ TRUE \in Range(s.delays)

Judged(s, assert) ==
    [s EXCEPT !.verdicts = IF @ # <<>> /\ Last(@) = assert THEN @ ELSE Append(@, assert)]

Judge(s, assert) ==
    IF Delays(s, assert)
    THEN [Judged(s, assert) EXCEPT !.delays = Append(@, assert)]
    ELSE [s EXCEPT !.alarm = assert, !.verdicts = <<assert>>]

\* ADC sensors check nothing while the host is off.
CheckThresholds(s) ==
    IF kind = "adc" /\ ~s.power THEN s
    ELSE IF Trips(s.threshold, s.value) THEN Judge(s, TRUE)
    ELSE IF Clears(s.threshold, s.value) THEN Judge(s, FALSE)
    ELSE s

-----------------------------------------------------------------------------
(* sensor.hpp                                                              *)

RequiresUpdate(old, new) ==
    IF NaN \in {old, new} THEN old # new
    ELSE new - old > Publish \/ old - new > Publish

UpdateValueProperty(s, v) ==
    IF RequiresUpdate(s.value, v)
    THEN [s EXCEPT !.value = v, !.shown = v, !.invalidated = FALSE] ELSE s

\* updateValueOnly while the host is off: Available's setter would only do
\* the same again.
Blank(s) ==
    [UpdateValueProperty(s, NaN) EXCEPT !.available = FALSE, !.errCount = 0, !.alarm = FALSE]

UpdateValueOnly(s, v) ==
    LET t == CheckThresholds(UpdateValueProperty(s, v))
    IN  IF v = NaN THEN t
        ELSE [t EXCEPT !.functional = TRUE, !.available = TRUE, !.errCount = 0]

UpdateValue(s, v) ==
    IF s.overridden THEN s
    ELSE IF s.power THEN UpdateValueOnly(s, v)
    ELSE Blank(s)

\* The setter of Available forgets the value when it becomes false.
MarkAvailable(s, is) ==
    LET t == [s EXCEPT !.available = is, !.errCount = 0]
    IN  IF s.available /\ ~is THEN UpdateValue(t, NaN) ELSE t

MarkNotFunctional(s) == UpdateValue([s EXCEPT !.functional = FALSE], NaN)

IncrementErrorFurther(s) ==
    IF ~s.power THEN MarkAvailable(s, FALSE)
    ELSE LET t == [s EXCEPT !.errCount = @ + 1]
         IN  IF t.errCount = ErrorThreshold THEN MarkNotFunctional(t) ELSE t

IncrementError(s) ==
    IF ~s.power THEN MarkAvailable(s, FALSE)
    ELSE IF s.errCount >= ErrorThreshold THEN s
    ELSE LET t == [s EXCEPT !.errCount = @ + 1]
         IN  IF t.errCount = ErrorThreshold THEN MarkNotFunctional(t) ELSE t

-----------------------------------------------------------------------------
(* The pollers                                                             *)

RestartReadIfGood == waiting' = (input # Broken)
RestartRead == waiting' = TRUE

\* setupRead; a file that is closed answers so at once.
SetupReadOf(s, isOpen) ==
    IF s.power
    THEN /\ sensor' = s
         /\ reads' = Append(reads, IF isOpen THEN "ok" ELSE "closed")
         /\ UNCHANGED waiting
    ELSE /\ sensor' = UpdateValue(MarkAvailable(s, FALSE), NaN)
         /\ RestartRead
         /\ UNCHANGED reads

SetupRead ==
    /\ waited > 0
    /\ waited' = waited - 1
    /\ SetupReadOf(sensor, open)
    /\ UNCHANGED <<config, open, hostState, input, writes>>

\* A read that was cancelled is an error like others, and polling goes on
\* until it finds the file closed; an ADC file that cannot be opened again
\* ends it.

Response(r) ==
    IF r = "aborted" \/ input = Broken THEN IncrementError(sensor)
                                       ELSE UpdateValue(sensor, input)

HandleResponse ==
    /\ reads # <<>>
    /\ Len(sensor.delays) < MaxDelays
    /\ reads' = Tail(reads)
    /\ IF Head(reads) = "closed" THEN UNCHANGED <<sensor, open, waiting>>
       ELSE /\ sensor' = Response(Head(reads))
            /\ \/ RestartRead /\ UNCHANGED open
               \/ kind = "adc" /\ open' = FALSE /\ UNCHANGED waiting
    /\ UNCHANGED <<config, waited, hostState, input, writes>>

WaitExpires ==
    /\ waiting
    /\ waiting' = FALSE /\ waited' = waited + 1
    /\ UNCHANGED <<config, sensor, open, reads, hostState, input, writes>>

\* ThresholdTimer::startTimer's handler.
Follow(verdicts, assert) ==
    IF assert \in Range(verdicts)
    THEN SubSeq(verdicts, SelectInSeq(verdicts, LAMBDA v : v = assert), Len(verdicts))
    ELSE verdicts

DelayedAlarmUnchecked(s, assert) ==
    [s EXCEPT !.alarm = assert, !.verdicts = Follow(@, assert)]
DelayedAlarm(s, assert) ==
    IF s.power THEN [s EXCEPT !.alarm = assert, !.verdicts = Follow(@, assert)] ELSE s

DelayExpires ==
    /\ sensor.delays # <<>>
    /\ sensor' = [DelayedAlarm(sensor, Head(sensor.delays)) EXCEPT !.delays = Tail(@)]
    /\ UNCHANGED <<config, loop, hostState, input, writes>>

-----------------------------------------------------------------------------
(* The host's power: setupPowerMatchCallback; HwmonTempMain.cpp's          *)
(* powerStateChanged                                                       *)

\* deactivate: reads that are not done are cancelled.
Deactivate(s) ==
    /\ sensor' = MarkAvailable(s, FALSE)
    /\ open' = FALSE /\ waiting' = FALSE
    /\ \E done \in 0..Len(reads) :
          reads' = [i \in DOMAIN reads |->
                       IF i > done /\ reads[i] = "ok" THEN "aborted" ELSE reads[i]]

Off(s) == [s EXCEPT !.power = FALSE]
On(s) == [s EXCEPT !.power = TRUE]

HostOff ==
    /\ signals < MaxSignals /\ signals' = signals + 1
    /\ host' = FALSE /\ onTimer' = FALSE /\ misled' = (misled \/ onQueued > 0)
    /\ IF kind = "hwmon" THEN Deactivate(Off(sensor))
       ELSE sensor' = Off(sensor) /\ UNCHANGED <<open, reads, waiting>>
    /\ UNCHANGED <<config, waited, onQueued, scans, input, writes>>

HostOn ==
    /\ signals < MaxSignals /\ signals' = signals + 1
    /\ host' = TRUE /\ onTimer' = TRUE
    /\ UNCHANGED <<config, sensor, loop, onQueued, misled, scans, input, writes>>

OnTimerExpires ==
    /\ onTimer
    /\ sensor.power \/ sensor.delays = <<>>
    /\ onTimer' = FALSE /\ onQueued' = onQueued + 1
    /\ UNCHANGED <<config, sensor, loop, host, misled, scans, signals, input, writes>>

PowerOn ==
    /\ onQueued > 0
    /\ onQueued' = onQueued - 1
    /\ sensor' = On(sensor)
    /\ scans' = IF kind = "hwmon" THEN scans + 1 ELSE scans
    /\ UNCHANGED <<config, loop, host, onTimer, misled, signals, input, writes>>

\* createSensors' reply: activate, unless the sensor is active or the file is
\* not found or cannot be opened.
Activate ==
    /\ scans > 0
    /\ scans' = scans - 1
    /\ \/ UNCHANGED <<sensor, open, reads, waiting>>
       \/ /\ ~open
          /\ open' = TRUE
          /\ SetupReadOf(MarkAvailable(sensor, TRUE), TRUE)
    /\ UNCHANGED <<config, waited, host, onTimer, onQueued, misled, signals, input, writes>>

-----------------------------------------------------------------------------
(* The file and the clients                                                *)

InputChanges(v) ==
    /\ v # input
    /\ writes < MaxWrites /\ writes' = writes + 1
    /\ input' = v
    /\ UNCHANGED <<config, sensor, loop, hostState>>

\* The value is forgotten, so that the next reading is judged anew.
SetThreshold(t) ==
    /\ writes < MaxWrites /\ writes' = writes + 1
    /\ sensor' = [sensor EXCEPT !.threshold = t, !.value = NaN, !.invalidated = TRUE]
    /\ UNCHANGED <<config, loop, hostState, input>>

\* setSensorValue from outside, in manufacturing mode.
Override(v) ==
    /\ writes < MaxWrites /\ writes' = writes + 1
    /\ Len(sensor.delays) < MaxDelays
    /\ sensor' = CheckThresholds([sensor EXCEPT !.value = v, !.shown = v,
                                                !.invalidated = FALSE, !.overridden = TRUE])
    /\ UNCHANGED <<config, loop, hostState, input>>

-----------------------------------------------------------------------------
Next ==
    \/ SetupRead \/ HandleResponse \/ WaitExpires \/ DelayExpires
    \/ HostOff \/ HostOn \/ OnTimerExpires \/ PowerOn \/ Activate
    \/ \E v \in Readings \cup {Broken} : InputChanges(v)
    \/ \E t \in Thresholds : SetThreshold(t)
    \/ \E v \in Readings : Override(v)

Spec == Init /\ [][Next]_vars

(***************************************************************************)
(* Timers expire, reads end and queued handlers run.                       *)
(***************************************************************************)
Fairness ==
    /\ WF_vars(SetupRead) /\ WF_vars(HandleResponse) /\ WF_vars(WaitExpires)
    /\ WF_vars(DelayExpires) /\ WF_vars(OnTimerExpires) /\ WF_vars(PowerOn)
    /\ WF_vars(Activate)

FairSpec == Spec /\ Fairness

-----------------------------------------------------------------------------
(* Properties                                                              *)

(***************************************************************************)
(* A sensor that is not available or not functional shows no number but    *)
(* the one that a client's threshold made it forget, and when it is not    *)
(* available it raises no alarm: however handlers that were started before *)
(* the host went off interleave.  A value set from outside stays, and so   *)
(* may an alarm that a misled sensor raised.                               *)
(***************************************************************************)
UnavailableIsBlank ==
    ~sensor.overridden /\ ~(sensor.available /\ sensor.functional) =>
        /\ sensor.shown = NaN \/ sensor.invalidated
        /\ ~sensor.available /\ ~misled => ~sensor.alarm

(***************************************************************************)
(* Delayed or not, the alarm follows the verdicts on the readings in their *)
(* order: it never returns to one that a later verdict overtook.           *)
(***************************************************************************)
AlarmsInOrder ==
    [][sensor'.alarm # sensor.alarm =>
          sensor'.alarm \in Range(sensor'.verdicts) \/ ~sensor'.power]_vars

(***************************************************************************)
(* While the host is on, the file is polled and nobody sets the value, a   *)
(* reading that stays beyond the threshold has its alarm, for good, and    *)
(* one that stays clear of it has none.  What is within Publish of the     *)
(* value shown is no new reading.                                          *)
(***************************************************************************)
SurelyTrips ==
    /\ input # Broken
    /\ IF direction = "high" THEN input >= sensor.threshold + Publish
                             ELSE input <= sensor.threshold - Publish
SurelyClears ==
    /\ input # Broken
    /\ IF direction = "high" THEN input < sensor.threshold - Hysteresis - Publish
                             ELSE input > sensor.threshold + Hysteresis + Publish

Watching == sensor.power /\ open /\ ~sensor.overridden

AlarmFollowsReading ==
    /\ <>[](Watching /\ SurelyTrips) => <>[]sensor.alarm
    /\ <>[](Watching /\ SurelyClears) => <>[]~sensor.alarm
=============================================================================
