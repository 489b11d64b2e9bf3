-------------------------------- MODULE Fans --------------------------------
(***************************************************************************)
(* Fan tachometers (src/src/fan): a fan is polled, its presence followed   *)
(* by edges of a GPIO line, which the rotors of one fan share, and         *)
(* critical readings are counted in the redundancy of the system.          *)
(*                                                                         *)
(* The reading is "none" while it cannot be had, "high" beyond the upper   *)
(* critical threshold and "low" beyond the lower one; the value, its       *)
(* alarms and the error count are those of Sensor.                         *)
(***************************************************************************)
EXTENDS Naturals, FiniteSets

CONSTANTS
    FanNames,
    AllowedFailures,
    MaxFanEvents        \* bound: fans moved, readings that change, configuration changes

FansAssumption == IsFiniteSet(FanNames) /\ AllowedFailures \in Nat /\ MaxFanEvents \in Nat

VARIABLES
    rpm,
    pinOf,              \* the presence line of each fan
    inserted,           \* what the lines tell
    pinEdges,           \* edges the kernel has queued
    presenceStatus,     \* PresenceGpio::status
    presenceWaits,      \* monitorPresence calls that wait for an edge
    presenceReads,      \* handlers queued of waits that ended
    blockedOn,          \* the lines event_read waits on, and the daemon with it
    fanPresent, fanAvailable,           \* what is shown of each fan
    fanLed,             \* ledState
    redundancyAsks,     \* createRedundancySensor calls not answered
    fanRedundancy,      \* the status shown, "none" without a sensor
    fanStatuses,        \* RedundancySensor::statuses
    fanEvents

fansVars == <<rpm, pinOf, inserted, pinEdges, presenceStatus, presenceWaits, presenceReads,
              blockedOn, fanPresent, fanAvailable, fanLed, redundancyAsks, fanRedundancy,
              fanStatuses, fanEvents>>
lineVars == <<inserted, pinEdges, presenceStatus, presenceWaits, presenceReads, blockedOn>>

Pins == {"pin1", "pin2"}
Sharing(p) == {f \in FanNames : pinOf[f] = p}

\* createSensors, when all fans are there; each fan starts to wait for its line.
StartWith(wiring) ==
    /\ rpm = [f \in FanNames |-> "ok"] /\ pinOf = wiring
    /\ inserted = [p \in Pins |-> TRUE] /\ pinEdges = [p \in Pins |-> 0]
    /\ presenceStatus = [p \in Pins |-> TRUE]
    /\ presenceWaits = [p \in Pins |-> Cardinality({f \in FanNames : wiring[f] = p})]
    /\ presenceReads = [p \in Pins |-> 0] /\ blockedOn = {}
    /\ fanPresent = [f \in FanNames |-> TRUE] /\ fanAvailable = [f \in FanNames |-> TRUE]
    /\ fanLed = [f \in FanNames |-> FALSE]
    /\ redundancyAsks = 1 /\ fanRedundancy = "none"
    /\ fanStatuses = [f \in FanNames |-> FALSE] /\ fanEvents = 0

Start == StartWith([f \in FanNames |-> "pin1"])
Init == \E wiring \in [FanNames -> Pins] : StartWith(wiring)

Event == fanEvents < MaxFanEvents /\ fanEvents' = fanEvents + 1
Runs == blockedOn = {}

-----------------------------------------------------------------------------
(* The redundancy *)

StatusOf(failed) ==
    IF failed = 0 THEN "Full" ELSE IF failed <= AllowedFailures THEN "Degraded" ELSE "Failed"

\* RedundancySensor::update; a fan not heard of has not failed.
UpdateRedundancy(f, failed) ==
    IF fanRedundancy = "none" THEN UNCHANGED <<fanRedundancy, fanStatuses>>
    ELSE /\ fanStatuses' = [fanStatuses EXCEPT ![f] = failed]
         /\ fanRedundancy' = StatusOf(Cardinality({g \in FanNames : fanStatuses'[g]}))

\* The answer, with the configuration: a new RedundancySensor, which has heard of no fan.
RedundancyAnswered ==
    /\ Runs /\ redundancyAsks > 0 /\ redundancyAsks' = redundancyAsks - 1
    /\ fanRedundancy' = "Full" /\ fanStatuses' = [f \in FanNames |-> FALSE]
    /\ UNCHANGED <<rpm, pinOf, fanPresent, fanAvailable, fanLed, fanEvents>>
    /\ UNCHANGED lineVars

-----------------------------------------------------------------------------
(* TachSensor *)

\* checkThresholdsPowerDelay: a low alarm waits for its timer, and does not count as a failure.
CheckThresholds(f) ==
    LET status == rpm[f] # "high" IN
    /\ UpdateRedundancy(f, ~status)
    /\ fanLed' = [fanLed EXCEPT ![f] = ~status]

\* A fan that is absent, or cannot be read, keeps its status and its light.
HandleResponse(f) ==
    LET missing == ~presenceStatus[pinOf[f]] IN
    /\ Runs
    /\ fanPresent' = [fanPresent EXCEPT ![f] = ~missing]
    /\ fanAvailable' = [fanAvailable EXCEPT ![f] = ~missing /\ (@ \/ rpm[f] # "none")]
    /\ IF missing \/ rpm[f] = "none" THEN UNCHANGED <<fanRedundancy, fanStatuses, fanLed>>
       ELSE CheckThresholds(f)
    /\ UNCHANGED <<rpm, pinOf, redundancyAsks, fanEvents>>
    /\ UNCHANGED lineVars

\* createSensors after a change of its configuration.  The line is asked for anew unless another
\* fan holds it; then one wait more is made on it.
ReplaceFan(f) ==
    LET p == pinOf[f] IN
    /\ Runs /\ Event
    /\ IF Sharing(p) = {f}
       THEN /\ presenceStatus' = [presenceStatus EXCEPT ![p] = inserted[p]]
            /\ presenceWaits' = [presenceWaits EXCEPT ![p] = 1]
            /\ pinEdges' = [pinEdges EXCEPT ![p] = 0]
            /\ presenceReads' = [presenceReads EXCEPT ![p] = 0]
       ELSE /\ presenceWaits' = [presenceWaits EXCEPT ![p] = @ + 1]
            /\ UNCHANGED <<presenceStatus, pinEdges, presenceReads>>
    /\ fanPresent' = [fanPresent EXCEPT ![f] = TRUE]
    /\ fanAvailable' = [fanAvailable EXCEPT ![f] = TRUE]
    /\ fanLed' = [fanLed EXCEPT ![f] = FALSE]
    /\ redundancyAsks' = redundancyAsks + 1
    /\ UNCHANGED <<rpm, pinOf, inserted, blockedOn, fanRedundancy, fanStatuses>>

-----------------------------------------------------------------------------
(* EventPresenceGpio *)

\* An edge ends all the waits on its line, each with a handler of its own.
LineIsReadable(p) ==
    /\ pinEdges[p] > 0 /\ presenceWaits[p] > 0
    /\ presenceReads' = [presenceReads EXCEPT ![p] = @ + presenceWaits[p]]
    /\ presenceWaits' = [presenceWaits EXCEPT ![p] = 0]
    /\ UNCHANGED <<rpm, pinOf, inserted, pinEdges, presenceStatus, blockedOn, fanPresent,
                   fanAvailable, fanLed, redundancyAsks, fanRedundancy, fanStatuses, fanEvents>>

\* read and monitorPresence, once an edge is there.
ReadEdge(p) ==
    /\ pinEdges' = [pinEdges EXCEPT ![p] = @ - 1]
    /\ presenceStatus' = [presenceStatus EXCEPT ![p] = inserted[p]]
    /\ presenceWaits' = [presenceWaits EXCEPT ![p] = @ + 1]

\* The handler reads an edge, and keeps the daemon waiting if there is none left.
ReadPresence(p) ==
    /\ Runs /\ presenceReads[p] > 0
    /\ presenceReads' = [presenceReads EXCEPT ![p] = @ - 1]
    /\ IF pinEdges[p] > 0 THEN ReadEdge(p) /\ UNCHANGED blockedOn
       ELSE blockedOn' = {p} /\ UNCHANGED <<pinEdges, presenceStatus, presenceWaits>>
    /\ UNCHANGED <<rpm, pinOf, inserted, fanPresent, fanAvailable, fanLed, redundancyAsks,
                   fanRedundancy, fanStatuses, fanEvents>>

\* event_read returns at the next edge.
Unblocked(p) ==
    /\ p \in blockedOn /\ pinEdges[p] > 0 /\ ReadEdge(p)
    /\ blockedOn' = {}
    /\ UNCHANGED <<rpm, pinOf, inserted, presenceReads, fanPresent, fanAvailable, fanLed,
                   redundancyAsks, fanRedundancy, fanStatuses, fanEvents>>

-----------------------------------------------------------------------------
FanMoves(p) ==
    /\ Event /\ Sharing(p) # {}
    /\ inserted' = [inserted EXCEPT ![p] = ~@]
    /\ pinEdges' = [pinEdges EXCEPT ![p] = @ + 1]
    /\ UNCHANGED <<rpm, pinOf, presenceStatus, presenceWaits, presenceReads, blockedOn,
                   fanPresent, fanAvailable, fanLed, redundancyAsks, fanRedundancy, fanStatuses>>

RpmChanges(f, reading) ==
    /\ Event /\ rpm' = [rpm EXCEPT ![f] = reading]
    /\ UNCHANGED <<pinOf, fanPresent, fanAvailable, fanLed, redundancyAsks, fanRedundancy,
                   fanStatuses>>
    /\ UNCHANGED lineVars

Proceeds ==
    \/ RedundancyAnswered
    \/ \E p \in Pins : LineIsReadable(p) \/ ReadPresence(p) \/ Unblocked(p)

Next ==
    \/ Proceeds
    \/ \E f \in FanNames : HandleResponse(f) \/ ReplaceFan(f)
    \/ \E p \in Pins : FanMoves(p)
    \/ \E f \in FanNames, reading \in {"low", "ok", "high", "none"} : RpmChanges(f, reading)

Spec ==
    /\ Init /\ [][Next]_fansVars
    /\ WF_fansVars(Proceeds) /\ \A f \in FanNames : WF_fansVars(HandleResponse(f))

-----------------------------------------------------------------------------
TypeOK ==
    /\ rpm \in [FanNames -> {"low", "ok", "high", "none"}] /\ pinOf \in [FanNames -> Pins]
    /\ {inserted, presenceStatus} \subseteq [Pins -> BOOLEAN]
    /\ {pinEdges, presenceWaits, presenceReads} \subseteq [Pins -> Nat]
    /\ blockedOn \subseteq Pins
    /\ {fanPresent, fanAvailable, fanLed, fanStatuses} \subseteq [FanNames -> BOOLEAN]
    /\ redundancyAsks \in Nat /\ fanRedundancy \in {"none", "Full", "Degraded", "Failed"}
    /\ fanEvents \in 0..MaxFanEvents

(* The daemon waits for an edge only where fans share a line; every line   *)
(* a fan has is waited on, or about to be; and the redundancy shown is     *)
(* that of the fans last seen beyond their upper threshold.                *)
EdgesAreAwaited ==
    /\ \A p \in blockedOn : Cardinality(Sharing(p)) > 1
    /\ \A p \in Pins : Sharing(p) # {} => presenceWaits[p] + presenceReads[p] > 0 \/ p \in blockedOn
    /\ fanRedundancy \in {"none", StatusOf(Cardinality({f \in FanNames : fanStatuses[f]}))}

(* When nothing moves any more, unless the daemon is stuck on a line that  *)
(* is shared, fans are present and available as they are, and those that   *)
(* can be read have the status and the light of their reading.             *)
FansAreShown ==
    Runs => \A f \in FanNames :
        /\ fanPresent[f] = inserted[pinOf[f]]
        /\ inserted[pinOf[f]] /\ rpm[f] # "none" =>
            /\ fanAvailable[f] /\ fanStatuses[f] = (rpm[f] = "high")
            /\ fanLed[f] = fanStatuses[f]
        /\ ~inserted[pinOf[f]] => ~fanAvailable[f]
FansFollow == <>[]FansAreShown
=============================================================================
