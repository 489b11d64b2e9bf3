------------------------------ MODULE GpuDevice ------------------------------
(***************************************************************************)
(* How one GPU, NIC or SMA of the GPU sensor daemon is set up and polled   *)
(* (src/nvidia-gpu/NvidiaGpuDevice.cpp, NvidiaPcieDevice.cpp,              *)
(* NvidiaSmaDevice.cpp, Inventory.cpp, NvidiaEventReporting.cpp and the    *)
(* sensors): chains of requests, each of them sent by the callback of the  *)
(* one before, beside the requests of every poll.                          *)
(*                                                                         *)
(* `chan' is the queue of the endpoint in the requester (RequestChannel),  *)
(* which copies a request when it is submitted.  The callbacks and timer   *)
(* handlers hold weak pointers: those of a destroyed device do nothing.    *)
(* The long-running commands and the controls are modules of their own.    *)
(***************************************************************************)
EXTENDS Naturals, SequencesExt

CONSTANTS Props,         \* inventory properties, in the order of the map
          EventTypes,    \* message types with events
          NicPorts,      \* nicNetworkPortCount
          MaxAttempts,   \* maxRetryAttempts
          MaxPolls,      \* bound: periodic reads
          MaxFailures    \* bound: requests that fail

DeviceAssumption ==
    /\ Props \subseteq Nat /\ EventTypes \subseteq Nat
    /\ {NicPorts, MaxAttempts, MaxPolls, MaxFailures} \subseteq Nat
    /\ MaxAttempts > 0

Kinds == {"GPU", "NIC", "SMA"}
ThermalParameters == 0..2                       \* thresholdIds
Sensors == {<<"temp", 0>>, <<"tlimit", 0>>, <<"pcie", 0>>, <<"leak", 0>>}
             \cup ({"eth"} \X (1..NicPorts))
Requests == ({"inventory"} \X Props) \cup ({"thermal"} \X ThermalParameters)
              \cup {<<"subscribe", 0>>} \cup ({"source"} \X EventTypes)
              \cup {<<"ports", 0>>, <<"leaks", 0>>} \cup ({"address"} \X (1..NicPorts))
              \cup Sensors
Timers == {"off", "armed", "queued"}

VARIABLES
    kind, alive,
    chan,      \* requests not completed
    pending,   \* Inventory::properties that are pending, and their retryCount
    tries,
    retry,     \* retryTimer
    limits,    \* thresholds read, up to current_threshold_index
    tlimit,    \* tLimitSensor: "none", "bare" (without thresholds) or "full"
    events,    \* the subscription: "asked", "on", "done" or "failed"
    tried,     \* history: message types whose sources were asked for
    sensors,   \* sensors that exist
    poll,      \* waitTimer
    polls, failures

vars == <<kind, alive, chan, pending, tries, retry, limits, tlimit, events, tried,
          sensors, poll, polls, failures>>

inventory == <<pending, tries, retry>>
thermal == <<limits, tlimit>>
reporting == <<events, tried>>

TypeOK ==
    /\ kind \in Kinds /\ alive \in BOOLEAN
    /\ chan \in Seq(Requests)
    /\ pending \in SUBSET Props
    /\ tries \in [Props -> 0..MaxAttempts]
    /\ retry \in Timers /\ poll \in Timers
    /\ limits \in SUBSET ThermalParameters
    /\ tlimit \in {"none", "bare", "full"}
    /\ events \in {"asked", "on", "done", "failed"}
    /\ tried \in SUBSET EventTypes
    /\ sensors \in SUBSET Sensors
    /\ polls \in 0..MaxPolls /\ failures \in 0..MaxFailures

Updates(S) == SetToSeq(S)

\* getNextPendingProperty, sendInventoryPropertyRequest
NextProperty(P) == IF P = {} THEN <<>> ELSE <<<<"inventory", Min(P)>>>>

\* GpuDevice::init: inventory, getTLimitThresholds, read, eventReporting.
\* PcieDevice::init: the ports and their addresses.
\* SmaDevice::init: leak sensors, read.
FirstRequests(k) ==
    CASE k = "GPU" -> NextProperty(Props)
                        \o <<<<"thermal", 0>>, <<"temp", 0>>, <<"subscribe", 0>>>>
      [] k = "NIC" -> <<<<"ports", 0>>>> \o [p \in 1..NicPorts |-> <<"address", p>>]
      [] k = "SMA" -> <<<<"leaks", 0>>, <<"temp", 0>>>>

Start ==
    /\ pending = Props
    /\ tries = [p \in Props |-> 0]
    /\ retry = "off"
    /\ limits = {} /\ tlimit = "none"
    /\ events = "asked" /\ tried = {}

Init ==
    /\ Start
    /\ kind \in Kinds /\ alive = TRUE
    /\ chan = FirstRequests(kind)
    /\ sensors = IF kind = "NIC" THEN {} ELSE {<<"temp", 0>>}
    /\ poll = IF kind = "NIC" THEN "off" ELSE "armed"
    /\ polls = 0 /\ failures = 0

-----------------------------------------------------------------------------
(* Responses.  Each of them says what the callback submits.                *)

Submit(requests) == chan' = Tail(chan) \o requests

\* handleInventoryPropertyResponse, processNextProperty
GiveUpLate(n) == n > MaxAttempts
GiveUp(n) == n >= MaxAttempts

AfterFailureStop(P) == <<>>
AfterFailure(P) == NextProperty(P)

HandleInventoryPropertyResponse(p, ok) ==
    \/ /\ ok
       /\ pending' = pending \ {p}
       /\ Submit(NextProperty(pending'))
       /\ UNCHANGED <<tries, retry>>
    \/ /\ ~ok
       /\ tries' = [tries EXCEPT ![p] = @ + 1]
       /\ \/ /\ GiveUp(tries'[p])
             /\ pending' = pending \ {p}
             /\ Submit(AfterFailure(pending'))
             /\ UNCHANGED retry
          \/ /\ ~GiveUp(tries'[p])
             /\ retry' = "armed"
             /\ Submit(<<>>)
             /\ UNCHANGED pending

\* readThermalParameterCallback, getNextThermalParameter
ReadThermalParameter(i, ok) ==
    /\ Submit(IF ok /\ i + 1 \in ThermalParameters THEN <<<<"thermal", i + 1>>>> ELSE <<>>)
    /\ limits' = IF ok THEN limits \cup {i} ELSE limits

\* processTLimitThresholds: the sensor has all thresholds or none.
ProcessTLimitThresholds(i, ok) ==
    IF ok /\ i + 1 \in ThermalParameters THEN UNCHANGED <<tlimit, sensors>>
    ELSE /\ tlimit' = IF ok THEN "full" ELSE "bare"
         /\ sensors' = sensors \cup {<<"tlimit", 0>>}

ReadThermalParameterCallback(i, ok) ==
    ReadThermalParameter(i, ok) /\ ProcessTLimitThresholds(i, ok)

\* sendNextEventSource: the next message type that has events.
SendNextEventSource(from) ==
    LET left == {t \in EventTypes : t >= from}
    IN  /\ Submit(IF left = {} THEN <<>> ELSE <<<<"source", Min(left)>>>>)
        /\ events' = IF left = {} THEN "done" ELSE "on"

HandleSetupSubscription(ok) ==
    /\ IF ok THEN SendNextEventSource(0) ELSE Submit(<<>>) /\ events' = "failed"
    /\ UNCHANGED tried

\* A message type that fails is passed over.
HandleSetupEventsStrict(t, ok) ==
    /\ tried' = tried \cup {t}
    /\ IF ok THEN SendNextEventSource(t + 1) ELSE Submit(<<>>) /\ events' = "failed"
HandleSetupEvents(t, ok) ==
    /\ tried' = tried \cup {t}
    /\ SendNextEventSource(t + 1)

\* Sets that are known only now; makeSensors of a NIC starts its polling.
ProcessPciePortCountsResponse(ok) ==
    IF ok THEN /\ sensors' = sensors \cup {<<"pcie", 0>>}
               /\ Submit(Updates(sensors'))
               /\ poll' = "armed"
          ELSE Submit(<<>>) /\ UNCHANGED <<sensors, poll>>

\* A port that is not Ethernet has no metrics.
ProcessGetNetworkPortAddressesResponse(p, ok) ==
    /\ Submit(<<>>)
    /\ sensors' \in IF ok THEN {sensors, sensors \cup {<<"eth", p>>}} ELSE {sensors}

ProcessLeakSensorsResponse(ok) ==
    /\ Submit(<<>>)
    /\ sensors' = IF ok THEN sensors \cup {<<"leak", 0>>} ELSE sensors

\* processResponse of a sensor: a failure leaves its last reading.
ProcessResponse == Submit(<<>>)

Response(r, ok) ==
    \/ /\ r[1] = "inventory"
       /\ HandleInventoryPropertyResponse(r[2], ok)
       /\ UNCHANGED <<thermal, reporting, sensors, poll>>
    \/ /\ r[1] = "thermal"
       /\ ReadThermalParameterCallback(r[2], ok)
       /\ UNCHANGED <<inventory, reporting, poll>>
    \/ /\ r[1] = "subscribe"
       /\ HandleSetupSubscription(ok)
       /\ UNCHANGED <<inventory, thermal, sensors, poll>>
    \/ /\ r[1] = "source"
       /\ HandleSetupEvents(r[2], ok)
       /\ UNCHANGED <<inventory, thermal, sensors, poll>>
    \/ /\ r[1] = "ports"
       /\ ProcessPciePortCountsResponse(ok)
       /\ UNCHANGED <<inventory, thermal, reporting>>
    \/ /\ r[1] = "address"
       /\ ProcessGetNetworkPortAddressesResponse(r[2], ok)
       /\ UNCHANGED <<inventory, thermal, reporting, poll>>
    \/ /\ r[1] = "leaks"
       /\ ProcessLeakSensorsResponse(ok)
       /\ UNCHANGED <<inventory, thermal, reporting, poll>>
    \/ /\ r \in Sensors
       /\ ProcessResponse
       /\ UNCHANGED <<inventory, thermal, reporting, sensors, poll>>

\* The requester completes the request at the head of the queue.
Complete(ok) ==
    /\ chan # <<>>
    /\ IF alive THEN Response(Head(chan), ok)
       ELSE Submit(<<>>) /\ UNCHANGED <<inventory, thermal, reporting, sensors, poll>>
    /\ IF ok THEN UNCHANGED failures
       ELSE failures < MaxFailures /\ failures' = failures + 1
    /\ UNCHANGED <<kind, alive, polls>>

-----------------------------------------------------------------------------
(* Timers                                                                  *)

RetryTimerExpires ==
    /\ retry = "armed"
    /\ retry' = "queued"
    /\ UNCHANGED <<kind, alive, chan, pending, tries, thermal, reporting, sensors, poll,
                   polls, failures>>

\* The handler of retryTimer goes on whatever the error code.
RetryHandler ==
    /\ retry = "queued"
    /\ retry' = "off"
    /\ chan' = IF alive THEN chan \o NextProperty(pending) ELSE chan
    /\ UNCHANGED <<kind, alive, pending, tries, thermal, reporting, sensors, poll, polls,
                   failures>>

PollTimerExpires ==
    /\ poll = "armed" /\ polls < MaxPolls
    /\ poll' = "queued" /\ polls' = polls + 1
    /\ UNCHANGED <<kind, alive, chan, inventory, thermal, reporting, sensors, failures>>

\* read: every sensor there is, although earlier reads may be outstanding.
Read ==
    /\ poll = "queued"
    /\ IF alive THEN chan' = chan \o Updates(sensors) /\ poll' = "armed"
                ELSE poll' = "off" /\ UNCHANGED chan
    /\ UNCHANGED <<kind, alive, inventory, thermal, reporting, sensors, polls, failures>>

\* onConfigInterfaceRemoved drops the device: timers that run are cancelled.
Destroy ==
    /\ alive
    /\ alive' = FALSE
    /\ retry' = IF retry = "armed" THEN "off" ELSE retry
    /\ poll' = IF poll = "armed" THEN "off" ELSE poll
    /\ UNCHANGED <<kind, chan, pending, tries, thermal, reporting, sensors, polls, failures>>

-----------------------------------------------------------------------------
Next ==
    \/ \E ok \in BOOLEAN : Complete(ok)
    \/ RetryTimerExpires \/ RetryHandler
    \/ PollTimerExpires \/ Read
    \/ Destroy

Spec == Init /\ [][Next]_vars

(***************************************************************************)
(* Every request is completed (RequestChannel), timers expire and queued   *)
(* handlers run.  That a poll is due is not assumed.                       *)
(***************************************************************************)
Fairness ==
    /\ WF_vars(\E ok \in BOOLEAN : Complete(ok))
    /\ WF_vars(RetryTimerExpires)
    /\ WF_vars(RetryHandler)
    /\ WF_vars(Read)

FairSpec == Spec /\ Fairness

-----------------------------------------------------------------------------
(* Properties                                                              *)

InventoryEnded == pending = {}
ThermalEnded == tlimit # "none"
EventsEnded == events \in {"done", "failed"}

Waiting(names) == Cardinality({i \in DOMAIN chan : chan[i][1] \in names})

(***************************************************************************)
(* Each chain of a GPU is carried by exactly one request or timer until it *)
(* has ended: it is never lost on an error path and never runs twice, when *)
(* its one request buffer and its counters would serve two.                *)
(***************************************************************************)
OneContinuation ==
    alive /\ kind = "GPU" =>
        /\ Waiting({"inventory"}) + (IF retry = "off" THEN 0 ELSE 1)
             = (IF InventoryEnded THEN 0 ELSE 1)
        /\ Waiting({"thermal"}) = (IF ThermalEnded THEN 0 ELSE 1)
        /\ Waiting({"subscribe", "source"}) = (IF EventsEnded THEN 0 ELSE 1)

(***************************************************************************)
(* Whatever fails, the set-up of a GPU that stays comes to its end: each   *)
(* inventory property was fetched or given up, the limit sensor is there,  *)
(* with thresholds only if all three were read, and when the subscription  *)
(* succeeded all event sources were asked for.                             *)
(***************************************************************************)
SetUp ==
    /\ InventoryEnded /\ ThermalEnded /\ EventsEnded
    /\ tlimit = "full" => limits = ThermalParameters
    /\ events = "done" => tried = EventTypes
    /\ events = "failed" => tried = {}

SetUpCompletes == (alive /\ kind = "GPU") ~> (~alive \/ SetUp)
=============================================================================
