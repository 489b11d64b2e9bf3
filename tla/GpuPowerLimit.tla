---------------------------- MODULE GpuPowerLimit ----------------------------
(***************************************************************************)
(* The power cap of a GPU as a D-Bus client sets it                        *)
(* (src/nvidia-gpu/NvidiaGpuPowerControl.cpp): the writes of PowerCap and  *)
(* PowerCapEnable are gathered by a debounce timer and sent as one         *)
(* SetPowerLimits; the two properties mirror the device.                   *)
(*                                                                         *)
(* `chan' is the queue of the endpoint in the requester (RequestChannel).  *)
(* The device is what GetPowerLimits tells of it: the one-shot limit, and  *)
(* whether that is the one enforced.                                       *)
(***************************************************************************)
EXTENDS Naturals, Sequences

CONSTANTS Caps,         \* power caps within the limits of the inventory
          Unset,        \* the sentinel: no cap
          NoValue,      \* nothing pending
          MaxWrites,    \* bound: accepted writes
          MaxPolls,     \* bound: periodic updates
          MaxFailures,  \* bound: requests that fail
          MaxQueued     \* bound: timer handlers queued and not run

PowerAssumption ==
    /\ Unset \notin Caps
    /\ NoValue \notin Caps \cup BOOLEAN \cup {Unset}
    /\ {MaxWrites, MaxPolls, MaxFailures, MaxQueued} \subseteq Nat

Optional(S) == S \cup {NoValue}
DeviceStates == [cap : Caps \cup {Unset}, enabled : BOOLEAN]
Actions == {"NEW_LIMIT", "DEFAULT_LIMIT"}
Requests ==
    [kind : {"set"}, action : Actions, cap : Caps \cup {Unset}] \cup [kind : {"get"}]

VARIABLES
    requestedCap,  \* requestedPowerCapWatts
    pendingEnable,
    mirror,        \* powerCapValue, powerCapEnabled
    inflight,      \* setPowerLimitInflight
    armed,         \* setLimitTimer runs
    queued,        \* its handlers that are queued and can no longer be cancelled
    chan,          \* the requests the requester has not completed
    served,        \* the device has served the head of chan
    answer,        \* what it answered, when that was a read
    device,        \* the device
    dropped,       \* history: caps of bursts that enforced nothing, neither asked
                   \* again nor told by the device since
    writes, polls, failures

vars == <<requestedCap, pendingEnable, mirror, inflight, armed, queued, chan,
          served, answer, device, dropped, writes, polls, failures>>

TypeOK ==
    /\ requestedCap \in Optional(Caps)
    /\ pendingEnable \in Optional(BOOLEAN)
    /\ mirror \in DeviceStates
    /\ inflight \in BOOLEAN
    /\ armed \in BOOLEAN /\ queued \in 0..MaxQueued
    /\ chan \in Seq(Requests)
    /\ \A i \in DOMAIN chan :
           (chan[i].kind = "set" /\ chan[i].action = "NEW_LIMIT") => chan[i].cap # Unset
    /\ served \in BOOLEAN
    /\ answer \in DeviceStates /\ device \in DeviceStates
    /\ dropped \in SUBSET Caps
    /\ writes \in 0..MaxWrites /\ polls \in 0..MaxPolls /\ failures \in 0..MaxFailures

Start ==
    /\ requestedCap = NoValue /\ pendingEnable = NoValue
    /\ mirror = [cap |-> Unset, enabled |-> FALSE]
    /\ inflight = FALSE
    /\ armed = FALSE /\ queued = 0
    /\ chan = <<>> /\ served = FALSE
    /\ device \in {d \in DeviceStates : d.cap = Unset => ~d.enabled}
    /\ answer = device
    /\ dropped = {}

Init == Start /\ writes = 0 /\ polls = 0 /\ failures = 0

-----------------------------------------------------------------------------
(* D-Bus and timer handlers                                                *)

ArmSetLimitTimer == armed' = TRUE

WriteBase ==
    /\ writes < MaxWrites
    /\ writes' = writes + 1
    /\ ArmSetLimitTimer
    /\ UNCHANGED <<mirror, inflight, queued, chan, served, answer, device,
                   polls, failures>>

\* A cap outside the inventory's limits is rejected and changes nothing.
HandlePowerCapSet(c) ==
    /\ WriteBase
    /\ requestedCap' = c
    /\ dropped' = dropped \ {c}
    /\ UNCHANGED pendingEnable

HandlePowerCapEnableSet(e) ==
    /\ WriteBase
    /\ pendingEnable' = e
    /\ UNCHANGED <<requestedCap, dropped>>

TimerExpires ==
    /\ armed /\ queued < MaxQueued
    /\ armed' = FALSE
    /\ queued' = queued + 1
    /\ UNCHANGED <<requestedCap, pendingEnable, mirror, inflight, chan, served,
                   answer, device, dropped, writes, polls, failures>>

GateOpenAlways == TRUE
GateOpen == ~inflight

RetryLater ==
    /\ queued > 0 /\ ~GateOpen
    /\ queued' = queued - 1
    /\ ArmSetLimitTimer
    /\ UNCHANGED <<requestedCap, pendingEnable, mirror, inflight, chan, served,
                   answer, device, dropped, writes, polls, failures>>

\* value_or; the cap to enforce is the sentinel when the device has none.
Enable == IF pendingEnable # NoValue THEN pendingEnable ELSE mirror.enabled
CapToEnforce == IF requestedCap # NoValue THEN requestedCap ELSE mirror.cap

SendSetPowerLimitsRequest(c, action) ==
    /\ inflight' = TRUE
    /\ chan' = Append(chan, [kind |-> "set", action |-> action, cap |-> c])

\* There is nothing to do for a cap written while disabled, and nothing to
\* enforce without any cap.
EnforcesAny == Enable
Enforces == Enable /\ CapToEnforce # Unset
Reverts == pendingEnable = FALSE

ConsumeEnableOnly ==
    /\ pendingEnable' = NoValue
    /\ requestedCap' = IF Enforces \/ Reverts THEN NoValue ELSE requestedCap
ConsumeBurst == pendingEnable' = NoValue /\ requestedCap' = NoValue

ApplyPendingPowerLimit ==
    /\ queued > 0 /\ GateOpen
    /\ queued' = queued - 1
    /\ ConsumeBurst
    /\ \/ Enforces /\ SendSetPowerLimitsRequest(CapToEnforce, "NEW_LIMIT")
       \/ Reverts /\ SendSetPowerLimitsRequest(Unset, "DEFAULT_LIMIT")
       \/ ~Enforces /\ ~Reverts /\ UNCHANGED <<inflight, chan>>
    /\ dropped' = IF Enforces THEN dropped
                  ELSE dropped \cup ({requestedCap} \ {NoValue, mirror.cap})
    /\ UNCHANGED <<mirror, armed, served, answer, device, writes, polls, failures>>

\* update, of every poll
Update ==
    /\ polls < MaxPolls
    /\ polls' = polls + 1
    /\ chan' = Append(chan, [kind |-> "get"])
    /\ UNCHANGED <<requestedCap, pendingEnable, mirror, inflight, armed, queued,
                   served, answer, device, dropped, writes, failures>>

-----------------------------------------------------------------------------
(* The device and its replies                                              *)

\* A reverted device may keep telling the one-shot limit it does not enforce.
Served(d) ==
    IF Head(chan).kind = "get" THEN {d}
    ELSE IF Head(chan).action = "NEW_LIMIT"
    THEN {[cap |-> Head(chan).cap, enabled |-> TRUE]}
    ELSE {[cap |-> c, enabled |-> FALSE] : c \in {d.cap, Unset}}

Serve ==
    /\ chan # <<>> /\ ~served
    /\ served' = TRUE
    /\ device' \in Served(device)
    /\ answer' = device'
    /\ UNCHANGED <<requestedCap, pendingEnable, mirror, inflight, armed, queued,
                   chan, dropped, writes, polls, failures>>

HandleGetPowerLimitsResponse(ok) ==
    /\ Head(chan).kind = "get"
    /\ mirror' = IF ok THEN answer ELSE mirror
    /\ dropped' = IF ok THEN dropped \ {answer.cap} ELSE dropped
    /\ chan' = Tail(chan)
    /\ UNCHANGED inflight

OpenGateOnSuccess(ok) == inflight' = (inflight /\ ~ok)
OpenGate(ok) == inflight' = FALSE

HandleSetPowerLimitsResponse(ok) ==
    /\ Head(chan).kind = "set"
    /\ OpenGate(ok)
    /\ chan' = IF ok THEN Append(Tail(chan), [kind |-> "get"]) ELSE Tail(chan)
    /\ UNCHANGED <<mirror, dropped>>

HandleResponse(ok) ==
    /\ HandleGetPowerLimitsResponse(ok) \/ HandleSetPowerLimitsResponse(ok)
    /\ served' = FALSE
    /\ UNCHANGED <<requestedCap, pendingEnable, armed, queued, answer, device,
                   writes, polls>>

Reply ==
    /\ chan # <<>> /\ served
    /\ HandleResponse(TRUE)
    /\ UNCHANGED failures

\* Refused, not sent, lost or timed out; a set may have been served.
Fail ==
    /\ chan # <<>> /\ failures < MaxFailures
    /\ failures' = failures + 1
    /\ HandleResponse(FALSE)

Next ==
    \/ \E c \in Caps : HandlePowerCapSet(c)
    \/ \E e \in BOOLEAN : HandlePowerCapEnableSet(e)
    \/ TimerExpires \/ RetryLater \/ ApplyPendingPowerLimit
    \/ Update
    \/ Serve \/ Reply \/ Fail

Spec == Init /\ [][Next]_vars

(***************************************************************************)
(* The timer expires, queued handlers run, and every request is completed  *)
(* (RequestChannel).                                                       *)
(***************************************************************************)
Fairness ==
    /\ WF_vars(TimerExpires)
    /\ WF_vars(RetryLater \/ ApplyPendingPowerLimit)
    /\ WF_vars(Serve)
    /\ WF_vars(Reply \/ Fail)

FairSpec == Spec /\ Fairness

-----------------------------------------------------------------------------
(* Properties                                                              *)

(***************************************************************************)
(* The gate lets one SetPowerLimits out at a time.                         *)
(***************************************************************************)
OneSetOutstanding ==
    \A i, j \in DOMAIN chan : chan[i].kind = "set" /\ chan[j].kind = "set" => i = j

(***************************************************************************)
(* "a cap set while disabled is not silently re-applied on a later,        *)
(* unrelated enable" (applyPendingPowerLimit).                             *)
(***************************************************************************)
Enforcing(r) == r.kind = "set" /\ r.action = "NEW_LIMIT"

DisabledCapForgotten ==
    [][Len(chan') > Len(chan) /\ Enforcing(chan'[Len(chan')])
          => chan'[Len(chan')].cap \notin dropped]_vars

(***************************************************************************)
(* Every burst is consumed and the gate opens again, whether the device    *)
(* answers or not (handleSetPowerLimitsResponse).                          *)
(***************************************************************************)
BurstIsConsumed ==
    (requestedCap # NoValue \/ pendingEnable # NoValue)
        ~> (requestedCap = NoValue /\ pendingEnable = NoValue)
=============================================================================
