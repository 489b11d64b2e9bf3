----------------------------- MODULE Intrusion ------------------------------
(***************************************************************************)
(* The chassis intrusion sensor (src/src/intrusion): a PCH register or an  *)
(* hwmon alarm that is polled, or a GPIO line whose edges are read.  With  *)
(* automatic rearm the status follows what is read, with manual rearm an   *)
(* intrusion stays until the status is set to Normal, and the next one is  *)
(* shown when the chassis was read closed after that.                      *)
(*                                                                         *)
(* Events in the log are left out, and so is the supervision of network    *)
(* links in the same daemon.                                               *)
(***************************************************************************)
EXTENDS Naturals

CONSTANT MaxChassisEvents   \* bound: the chassis opened or closed, rearmed, failures, new configurations

IntrusionAssumption == MaxChassisEvents \in Nat

VARIABLES
    opened,             \* the chassis is open
    alarm,              \* the hwmon file shows an intrusion since it was cleared
    edge,               \* edges of the line that wait to be read
    configured,         \* the kind and the rearm mode that are configured
    monitor,            \* the sensor: none, or its kind, mode, mValue, status and mRearmFlag
    phase,              \* history: "armed"; "due" when it was read open, until it is rearmed, or
                        \* closed in automatic mode; "rearmed" until it is read closed
    chassisEvents

intrusionVars == <<opened, alarm, edge, configured, monitor, phase, chassisEvents>>

Configurations == [kind : {"pch", "gpio", "hwmon"}, auto : BOOLEAN]

\* polling is FALSE once the reading of a GPIO line has stopped.
Sensor(c) ==
    [exists |-> TRUE, kind |-> c.kind, auto |-> c.auto, polling |-> TRUE,
     value |-> FALSE, status |-> FALSE, rearm |-> FALSE]

With(c) ==
    /\ opened = FALSE /\ alarm = FALSE /\ edge = 0
    /\ configured = c /\ monitor = Sensor(c) /\ phase = "armed" /\ chassisEvents = 0

Start == With([kind |-> "pch", auto |-> TRUE])
Init == \E c \in Configurations : With(c)

Event == chassisEvents < MaxChassisEvents /\ chassisEvents' = chassisEvents + 1

-----------------------------------------------------------------------------
ChassisMoves ==
    /\ Event
    /\ opened' = ~opened
    /\ alarm' = (alarm \/ opened')
    /\ edge' = IF monitor.exists /\ monitor.kind = "gpio" THEN edge + 1 ELSE edge
    /\ UNCHANGED <<configured, monitor, phase>>

\* updateValue; TRUE is an intrusion.
UpdateValue(v) ==
    IF v = monitor.value THEN monitor
    ELSE IF ~monitor.auto /\ ~v
         THEN IF monitor.rearm THEN [monitor EXCEPT !.rearm = FALSE, !.value = FALSE]
              ELSE monitor
         ELSE [monitor EXCEPT !.rearm = FALSE, !.status = v, !.value = v]

Updated(v) ==
    /\ monitor' = UpdateValue(v)
    /\ phase' = IF v /\ phase = "armed" THEN "due"
                ELSE IF ~v /\ (phase = "rearmed" \/ monitor.auto) THEN "armed"
                ELSE phase

Reads(kind) == monitor.exists /\ monitor.kind = kind /\ monitor.polling

\* A reading that fails is repeated five seconds later.
PollPch ==
    /\ Reads("pch")
    /\ Updated(opened)
    /\ UNCHANGED <<opened, alarm, edge, configured, chassisEvents>>

\* The alarm is cleared after it was read; it may come again while the chassis is open.
PollHwmon ==
    /\ Reads("hwmon")
    /\ Updated(alarm)
    /\ alarm' \in {FALSE, opened}
    /\ UNCHANGED <<opened, edge, configured, chassisEvents>>

\* One edge is read, and the line as it is by then; after an error no more.
ReadEdge ==
    /\ Reads("gpio") /\ edge > 0
    /\ \/ Updated(opened) /\ edge' = edge - 1 /\ UNCHANGED chassisEvents
       \/ monitor' = [monitor EXCEPT !.polling = FALSE] /\ Event /\ UNCHANGED <<phase, edge>>
    /\ UNCHANGED <<opened, alarm, configured>>

\* Status is written through D-Bus: Normal rearms a sensor in manual mode,
\* and nothing else is taken over.
SetSensorValue ==
    /\ monitor.exists /\ Event
    /\ IF monitor.auto THEN UNCHANGED <<monitor, phase>>
       ELSE /\ monitor' = [monitor EXCEPT !.rearm = TRUE, !.status = FALSE]
            /\ phase' = IF phase = "armed" THEN phase ELSE "rearmed"
    /\ UNCHANGED <<opened, alarm, edge, configured>>

-----------------------------------------------------------------------------
\* createSensorsFromConfig, after each change of the configuration: the new
\* sensor is made before the old one goes, which holds its GPIO line; when
\* none can be made, the old one goes too.
CreateSensors ==
    /\ Event
    /\ configured' \in Configurations
    /\ LET held == configured'.kind = "gpio" /\ monitor.exists /\ monitor.kind = "gpio"
       IN  \/ UNCHANGED <<monitor, phase, edge>>     \* the configuration cannot be read
           \/ /\ ~held /\ monitor' = Sensor(configured')
              /\ phase' = "armed" /\ edge' = 0
           \/ /\ monitor' = [monitor EXCEPT !.exists = FALSE]
              /\ edge' = 0 /\ UNCHANGED phase
    /\ UNCHANGED <<opened, alarm>>

Proceeds == PollPch \/ PollHwmon \/ ReadEdge

Next == Proceeds \/ ChassisMoves \/ SetSensorValue \/ CreateSensors

Spec == Init /\ [][Next]_intrusionVars /\ WF_intrusionVars(Proceeds)

-----------------------------------------------------------------------------
TypeOK ==
    /\ {opened, alarm} \subseteq BOOLEAN /\ phase \in {"armed", "due", "rearmed"}
    /\ edge \in 0..MaxChassisEvents
    /\ configured \in Configurations
    /\ [kind |-> monitor.kind, auto |-> monitor.auto] \in Configurations
    /\ chassisEvents \in 0..MaxChassisEvents

(* The status shows an intrusion exactly when one was read after the       *)
(* sensor was armed - read closed after it was made or rearmed - and, in   *)
(* manual mode, as long as it is not rearmed.                              *)
IntrusionIsShown == monitor.exists => monitor.status = (phase = "due")

(* An automatic sensor of a PCH register follows the chassis.              *)
ChassisIsShown ==
    monitor.exists /\ monitor.auto /\ monitor.kind = "pch" => monitor.status = opened
StatusFollowsChassis == <>[]ChassisIsShown
=============================================================================
