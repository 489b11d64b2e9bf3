---------------------------- MODULE MCGpuDevices ----------------------------
(***************************************************************************)
(* TLC instance of the devices of the GPU sensor daemon: which there are,  *)
(* and how one of them is set up.  A device tells the manager nothing, so  *)
(* a behaviour exercises one of the two modules and the other gets no      *)
(* input: their states add up instead of multiplying.                      *)
(***************************************************************************)
EXTENDS GpuDeviceManager

CONSTANTS Props, EventTypes, NicPorts, MaxAttempts, MaxPolls, MaxFailures

VARIABLES
    kind, alive, chan, pending, tries, retry, limits, tlimit, events, tried, sensors,
    poll, polls, lost

deviceVars == <<kind, alive, chan, pending, tries, retry, limits, tlimit, events, tried,
                sensors, poll, polls, lost>>

Device == INSTANCE GpuDevice WITH failures <- lost

ASSUME DevicesAssumption == ManagerAssumption /\ Device!DeviceAssumption

allVars == <<vars, deviceVars>>

-----------------------------------------------------------------------------
ManagerIdle ==
    /\ Start
    /\ configs = {} /\ endpoints = {} /\ identity = [e \in Eids |-> Other] /\ asked = 0
    /\ signals = MaxSignals /\ removals = MaxLosses /\ failures = MaxLosses

DeviceIdle ==
    /\ Device!Start
    /\ kind = "SMA" /\ alive = FALSE /\ chan = <<>> /\ sensors = {} /\ poll = "off"
    /\ polls = 0 /\ lost = 0

DevicesInit ==
    \/ Init /\ DeviceIdle
    \/ ManagerIdle /\ Device!Init

DevicesNext ==
    \/ Next /\ UNCHANGED deviceVars
    \/ Device!Next /\ UNCHANGED vars

DevicesSpec ==
    /\ DevicesInit /\ [][DevicesNext]_allVars
    /\ Fairness /\ Device!Fairness

-----------------------------------------------------------------------------
(* Every variable of the two modules keeps its type.                       *)
DevicesTypeOK == TypeOK /\ Device!TypeOK

(* GpuDevice: each set-up chain of a GPU has exactly one continuation.     *)
OneContinuation == Device!OneContinuation

(* GpuDevice: the set-up of a GPU comes to its end, whatever fails.        *)
SetUpCompletes == Device!SetUpCompletes
=============================================================================
