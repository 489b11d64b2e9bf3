---------------------------- MODULE MCGpuControls ----------------------------
(***************************************************************************)
(* TLC instance of what a GPU does beside reading sensors: the             *)
(* long-running commands, the clock limit and the power cap.  The three    *)
(* share no state, so a behaviour exercises one of them, and the others    *)
(* get no input: their states add up instead of multiplying.               *)
(***************************************************************************)
EXTENDS LongRunning

CONSTANTS utilization, violation, ecc,      \* long-running commands
          Limits, Unread, NoLimit,          \* GpuClockLimit
          Caps, Unset, NoValue,             \* GpuPowerLimit
          MaxWrites, MaxPolls, MaxFailures, MaxQueued

ThreeCommands == <<utilization, violation, ecc>>

VARIABLES
    clockPending, requested, clockInflight, readback, clockArmed, clockQueued,
    clockChan, clockServed, clockAnswer, clockDevice, asked,
    clockWrites, clockPolls, clockFailures

clockVars ==
    <<clockPending, requested, clockInflight, readback, clockArmed, clockQueued,
      clockChan, clockServed, clockAnswer, clockDevice, asked,
      clockWrites, clockPolls, clockFailures>>

VARIABLES
    requestedCap, pendingEnable, mirror, capInflight, capArmed, capQueued,
    capChan, capServed, capAnswer, capDevice, dropped,
    capWrites, capPolls, capFailures

capVars ==
    <<requestedCap, pendingEnable, mirror, capInflight, capArmed, capQueued,
      capChan, capServed, capAnswer, capDevice, dropped,
      capWrites, capPolls, capFailures>>

Clock == INSTANCE GpuClockLimit WITH
    pending <- clockPending, inflight <- clockInflight, armed <- clockArmed,
    queued <- clockQueued, chan <- clockChan,
    served <- clockServed, answer <- clockAnswer, device <- clockDevice,
    writes <- clockWrites, polls <- clockPolls, failures <- clockFailures

Power == INSTANCE GpuPowerLimit WITH
    inflight <- capInflight, armed <- capArmed, queued <- capQueued,
    chan <- capChan, served <- capServed,
    answer <- capAnswer, device <- capDevice, writes <- capWrites,
    polls <- capPolls, failures <- capFailures

ASSUME ControlsAssumption == Clock!ClockAssumption /\ Power!PowerAssumption

allVars == <<vars, clockVars, capVars>>

-----------------------------------------------------------------------------
(* A component without input: no device to poll, no write left to accept.  *)

CommandsIdle ==
    /\ alive = FALSE /\ toPoll = <<>> /\ inFlight = FALSE /\ pending = <<>>
    /\ ready = <<>> /\ outstanding = {} /\ working = {} /\ issued = 0
    /\ entries = [k \in Keys |-> NoJob] /\ armed = [k \in Keys |-> NoJob]

ClockIdle ==
    /\ Clock!Start
    /\ clockDevice = CHOOSE d \in [Clock!Bounds -> Limits] : TRUE
    /\ clockWrites = MaxWrites /\ clockPolls = MaxPolls /\ clockFailures = MaxFailures

PowerIdle ==
    /\ Power!Start
    /\ capDevice = [cap |-> Unset, enabled |-> FALSE]
    /\ capWrites = MaxWrites /\ capPolls = MaxPolls /\ capFailures = MaxFailures

GpuInit ==
    \/ Init /\ ClockIdle /\ PowerIdle
    \/ CommandsIdle /\ Clock!Init /\ PowerIdle
    \/ CommandsIdle /\ ClockIdle /\ Power!Init

GpuNext ==
    \/ Next /\ UNCHANGED <<clockVars, capVars>>
    \/ Clock!Next /\ UNCHANGED <<vars, capVars>>
    \/ Power!Next /\ UNCHANGED <<vars, clockVars>>

GpuSpec ==
    /\ GpuInit /\ [][GpuNext]_allVars
    /\ Fairness /\ Clock!Fairness /\ Power!Fairness

-----------------------------------------------------------------------------
(* Every variable of the three components keeps its type; a cap is never   *)
(* enforced by sending the sentinel for none.                              *)
ControlsTypeOK == TypeOK /\ Clock!TypeOK /\ Power!TypeOK

(* One set at a time is out (setClockLimitInflight, setPowerLimitInflight).*)
OneSetOutstanding == Clock!OneSetOutstanding /\ Power!OneSetOutstanding

(* GpuClockLimit: the device ends with the last value accepted.            *)
ClockAppliedAsAsked == Clock!AppliedAsAsked

(* GpuClockLimit: no write waits for ever, although a read-back fails.     *)
ClockWritesDispatched == Clock!WritesDispatched

(* GpuClockLimit: only the read-back opens the gate.                       *)
ClockReadBackOpensGate == Clock!ReadBackOpensGate

(* GpuPowerLimit: a cap written while disabled is not applied later on.    *)
DisabledCapForgotten == Power!DisabledCapForgotten

(* GpuPowerLimit: every burst of writes is consumed.                       *)
BurstIsConsumed == Power!BurstIsConsumed
=============================================================================
