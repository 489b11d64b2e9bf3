------------------------------ MODULE MCSensors ------------------------------
(***************************************************************************)
(* TLC instance of the sensor daemons: a polled sensor and the events of a *)
(* power supply.  They are different processes, so a behaviour exercises   *)
(* one of them and the other gets no input: their states add up instead of *)
(* multiplying.                                                            *)
(***************************************************************************)
EXTENDS Sensor

CONSTANTS Paths, Events, WarnAfter, MaxChanges,
          failure1, failure2, fan, Failure, FanFault

VARIABLES value, errCount, reading, asserts, assertState, combineEvent, functional,
          file, power, changes

EventOfPath == [p \in {failure1, failure2, fan} |-> IF p = fan THEN FanFault ELSE Failure]

psuVars == <<value, errCount, reading, asserts, assertState, combineEvent, functional,
             file, power, changes>>

Psu == INSTANCE PsuEvents WITH EventOf <- EventOfPath

ASSUME SensorsAssumption == SensorAssumption /\ Psu!EventsAssumption

allVars == <<vars, psuVars>>

-----------------------------------------------------------------------------
\* A sensor whose file could not be opened again.
SensorIdle ==
    /\ Start("adc", "high")
    /\ open = FALSE /\ reads = <<>> /\ input = Broken
    /\ signals = MaxSignals /\ writes = MaxWrites

\* A supply that is off: its polls change nothing.
PsuIdle ==
    /\ Psu!Start
    /\ file = [p \in Paths |-> 0] /\ power = FALSE /\ changes = MaxChanges

SensorsInit ==
    \/ Init /\ PsuIdle
    \/ SensorIdle /\ Psu!Init

SensorsNext ==
    \/ Next /\ UNCHANGED psuVars
    \/ Psu!Next /\ UNCHANGED vars

SensorsSpec ==
    /\ SensorsInit /\ [][SensorsNext]_allVars
    /\ Fairness /\ Psu!Fairness

-----------------------------------------------------------------------------
(* Every variable of the daemons keeps its type.                           *)
SensorsTypeOK == TypeOK /\ Psu!TypeOK

(* PsuEvents: a supply none of whose files says anything is functional.    *)
ClearedIsFunctional == Psu!ClearedIsFunctional

(* PsuEvents: an event that a file asserts is shown.                       *)
AssertedIsShown == Psu!AssertedIsShown
=============================================================================
