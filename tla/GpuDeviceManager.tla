-------------------------- MODULE GpuDeviceManager --------------------------
(***************************************************************************)
(* Which GPUs, SMAs and NICs the GPU sensor daemon has                     *)
(* (src/nvidia-gpu/DeviceManager.cpp, NvidiaGpuSensorMain.cpp): a scan     *)
(* asks entity-manager for the configurations, for each of them the object *)
(* mapper for all MCTP endpoints, each of those for its properties, and    *)
(* the endpoint itself what it is; then the device is made.  A signal      *)
(* removes the devices of a configuration, another starts a scan.          *)
(*                                                                         *)
(* Every sender's messages arrive in the order they were sent, so there is *)
(* a FIFO per sender; the requester completes the queries of one endpoint  *)
(* in order (module RequestChannel).  A call is answered from the state at *)
(* the time it is handled; entity-manager's answer, whose order with its   *)
(* signals matters, from that at the time it is served.                    *)
(***************************************************************************)
EXTENDS Naturals, SequencesExt

CONSTANTS Configs,      \* paths of configurations of the daemon's type
          Eids,         \* MCTP endpoints
          DeviceTypes,  \* the kinds of devices it has objects for
          Other,        \* any other kind
          NoConfig,     \* not a configuration
          MaxSignals,   \* bound: what entity-manager and mctpd signal
          MaxLosses     \* bound: removals, and calls and queries that fail

ManagerAssumption ==
    /\ Other \notin DeviceTypes
    /\ NoConfig \notin Configs
    /\ IsFiniteSet(Configs) /\ IsFiniteSet(Eids)
    /\ {MaxSignals, MaxLosses} \subseteq Nat

VARIABLES
    configs,    \* the configurations entity-manager publishes
    endpoints,  \* the MCTP endpoints mctpd publishes
    identity,   \* what answers at an endpoint
    asked,      \* GetManagedObjects calls entity-manager has not served
    em,         \* its replies and signals that are not handled yet
    subtree,    \* GetSubTree calls not answered: the path they are for
    getall,     \* GetAll calls not answered: path and endpoint
    queries,    \* QueryDeviceIdentification requests of an endpoint not completed
    armed,      \* configTimer runs
    expired,    \* its handler is queued
    devices,    \* gpuDevices, smaDevices, pcieDevices: the path of each device
    overtaken,  \* history: configurations whose removal met a scan under way
    signals, removals, failures

vars == <<configs, endpoints, identity, asked, em, subtree, getall, queries, armed,
          expired, devices, overtaken, signals, removals, failures>>

world == <<configs, endpoints, identity>>
timer == <<armed, expired>>
chain == <<subtree, getall, queries>>

Messages ==
    [kind : {"objects"}, paths : SUBSET Configs]
      \cup [kind : {"removed"}, path : Configs]
      \cup [kind : {"changed"}]

TypeOK ==
    /\ configs \in SUBSET Configs /\ endpoints \in SUBSET Eids
    /\ identity \in [Eids -> DeviceTypes \cup {Other}]
    /\ asked \in Nat
    /\ em \in Seq(Messages)
    /\ subtree \in Seq(Configs)
    /\ getall \in Seq(Configs \X Eids)
    /\ queries \in [Eids -> Seq(Configs)]
    /\ armed \in BOOLEAN /\ expired \in BOOLEAN
    /\ devices \in [DeviceTypes \X Eids -> Configs \cup {NoConfig}]
    /\ overtaken \in SUBSET Configs
    /\ signals \in 0..MaxSignals
    /\ removals \in 0..MaxLosses /\ failures \in 0..MaxLosses

Start ==
    /\ em = <<>> /\ subtree = <<>> /\ getall = <<>>
    /\ queries = [e \in Eids |-> <<>>]
    /\ armed = FALSE /\ expired = FALSE
    /\ devices = [d \in DeviceTypes \X Eids |-> NoConfig]
    /\ overtaken = {}

\* main posts the first createSensors.
Init ==
    /\ Start
    /\ configs \in SUBSET Configs /\ endpoints \in SUBSET Eids
    /\ identity \in [Eids -> DeviceTypes \cup {Other}]
    /\ asked = 1
    /\ signals = 0 /\ removals = 0 /\ failures = 0

-----------------------------------------------------------------------------
(* Entity-manager and mctpd                                                *)

Signal == signals < MaxSignals /\ signals' = signals + 1

\* A new configuration announces its properties, an old one their change.
ConfigChanges(c) ==
    /\ Signal
    /\ configs' = configs \cup {c}
    /\ em' = Append(em, [kind |-> "changed"])
    /\ UNCHANGED <<endpoints, identity, asked, chain, timer, devices, overtaken, removals,
                   failures>>

ConfigRemoved(c) ==
    /\ c \in configs
    /\ removals < MaxLosses
    /\ removals' = removals + 1
    /\ configs' = configs \ {c}
    /\ em' = Append(em, [kind |-> "removed", path |-> c])
    /\ UNCHANGED <<endpoints, identity, asked, chain, timer, devices, overtaken, signals,
                   failures>>

EndpointAppears(e, k) ==
    /\ e \notin endpoints
    /\ Signal
    /\ endpoints' = endpoints \cup {e}
    /\ identity' = [identity EXCEPT ![e] = k]
    /\ UNCHANGED <<configs, asked, em, chain, timer, devices, overtaken, removals, failures>>

EndpointVanishes(e) ==
    /\ e \in endpoints
    /\ Signal
    /\ endpoints' = endpoints \ {e}
    /\ UNCHANGED <<configs, identity, asked, em, chain, timer, devices, overtaken, removals,
                   failures>>

ServeObjects ==
    /\ asked > 0
    /\ asked' = asked - 1
    /\ em' = Append(em, [kind |-> "objects", paths |-> configs])
    /\ UNCHANGED <<world, chain, timer, devices, overtaken, signals, removals, failures>>

-----------------------------------------------------------------------------
(* A scan                                                                  *)

Lose == failures < MaxLosses /\ failures' = failures + 1

\* createSensors: entity-manager cannot be contacted.
CreateSensorsFails ==
    /\ asked > 0
    /\ Lose
    /\ asked' = asked - 1
    /\ UNCHANGED <<world, em, chain, timer, devices, overtaken, signals, removals>>

\* createSensors' reply: processSensorConfigs, discoverDevices for each path.
ProcessSensorConfigs ==
    /\ em # <<>> /\ Head(em).kind = "objects"
    /\ em' = Tail(em)
    /\ subtree' = subtree \o SetToSeq(Head(em).paths)
    /\ UNCHANGED <<world, asked, getall, queries, timer, devices, overtaken, signals,
                   removals, failures>>

QueryEndpoints(ok) ==
    /\ subtree # <<>>
    /\ subtree' = Tail(subtree)
    /\ getall' = IF ok
                 THEN getall \o SetToSeq({Head(subtree)} \X endpoints)
                 ELSE getall
    /\ IF ok THEN UNCHANGED failures ELSE Lose
    /\ UNCHANGED <<world, asked, em, queries, timer, devices, overtaken, signals, removals>>

\* processEndpoint, queryDeviceIdentification: one that is gone is an error,
\* one without the vendor's messages is of no interest.
ProcessEndpoint ==
    /\ getall # <<>>
    /\ getall' = Tail(getall)
    /\ LET c == Head(getall)[1]
           e == Head(getall)[2]
       IN  queries' = IF e \in endpoints
                      THEN [queries EXCEPT ![e] = Append(@, c)]
                      ELSE queries
    /\ UNCHANGED <<world, asked, em, subtree, timer, devices, overtaken, signals, removals,
                   failures>>

\* The device of an endpoint is made for the first answer.
MakeDeviceAnew(c, d) == [devices EXCEPT ![d] = c]
MakeDevice(c, d) == IF devices[d] = NoConfig THEN [devices EXCEPT ![d] = c] ELSE devices

ProcessQueryDeviceIdResponse(e) ==
    /\ queries[e] # <<>>
    /\ queries' = [queries EXCEPT ![e] = Tail(@)]
    /\ \/ /\ e \in endpoints
          /\ devices' = IF identity[e] \in DeviceTypes
                        THEN MakeDevice(Head(queries[e]), <<identity[e], e>>)
                        ELSE devices
          /\ UNCHANGED failures
       \/ e \notin endpoints /\ UNCHANGED <<devices, failures>>
       \/ Lose /\ UNCHANGED devices
    /\ UNCHANGED <<world, asked, em, subtree, getall, timer, overtaken, signals, removals>>

-----------------------------------------------------------------------------
(* Signals                                                                 *)

UnderWay(c) ==
    \/ c \in Range(subtree)
    \/ \E g \in Range(getall) : g[1] = c
    \/ \E e \in Eids : c \in Range(queries[e])

\* onConfigInterfaceRemoved
EraseFirst(c) ==
    IF \E d \in DOMAIN devices : devices[d] = c
    THEN [devices EXCEPT ![CHOOSE d \in DOMAIN devices : devices[d] = c] = NoConfig]
    ELSE devices
EraseDevices(c) ==
    [d \in DOMAIN devices |-> IF devices[d] = c THEN NoConfig ELSE devices[d]]

OnConfigInterfaceRemoved ==
    /\ em # <<>> /\ Head(em).kind = "removed"
    /\ LET c == Head(em).path
       IN  /\ devices' = EraseDevices(c)
           /\ overtaken' = IF UnderWay(c) THEN overtaken \cup {c} ELSE overtaken \ {c}
    /\ em' = Tail(em)
    /\ UNCHANGED <<world, asked, chain, timer, signals, removals, failures>>

\* eventHandler: a wait that is over already is not taken back.
ArmUnlessEquipped == armed' = (\A d \in DOMAIN devices : devices[d] = NoConfig)
ArmConfigTimer == armed' = TRUE

EventHandler ==
    /\ em # <<>> /\ Head(em).kind = "changed"
    /\ em' = Tail(em)
    /\ ArmConfigTimer
    /\ UNCHANGED <<world, asked, chain, expired, devices, overtaken, signals, removals,
                   failures>>

TimerExpires ==
    /\ armed /\ ~expired
    /\ armed' = FALSE /\ expired' = TRUE
    /\ UNCHANGED <<world, asked, em, chain, devices, overtaken, signals, removals, failures>>

CreateSensors ==
    /\ expired
    /\ expired' = FALSE
    /\ asked' = asked + 1
    /\ UNCHANGED <<world, em, chain, armed, devices, overtaken, signals, removals, failures>>

-----------------------------------------------------------------------------
Daemon ==
    \/ ProcessSensorConfigs
    \/ \E ok \in BOOLEAN : QueryEndpoints(ok)
    \/ ProcessEndpoint
    \/ OnConfigInterfaceRemoved \/ EventHandler
    \/ TimerExpires \/ CreateSensors

Next ==
    \/ \E c \in Configs : ConfigChanges(c) \/ ConfigRemoved(c)
    \/ \E e \in Eids, k \in DeviceTypes \cup {Other} : EndpointAppears(e, k)
    \/ \E e \in Eids : EndpointVanishes(e)
    \/ ServeObjects \/ CreateSensorsFails
    \/ Daemon
    \/ \E e \in Eids : ProcessQueryDeviceIdResponse(e)

Spec == Init /\ [][Next]_vars

(***************************************************************************)
(* Calls are answered, the timer expires, the event loop runs, and the     *)
(* requester completes every query (RequestChannel).                       *)
(***************************************************************************)
Fairness ==
    /\ WF_vars(ServeObjects \/ CreateSensorsFails)
    /\ WF_vars(ProcessSensorConfigs \/ OnConfigInterfaceRemoved \/ EventHandler)
    /\ WF_vars(\E ok \in BOOLEAN : QueryEndpoints(ok))
    /\ WF_vars(ProcessEndpoint)
    /\ WF_vars(TimerExpires)
    /\ WF_vars(CreateSensors)
    /\ \A e \in Eids : WF_vars(ProcessQueryDeviceIdResponse(e))

FairSpec == Spec /\ Fairness

-----------------------------------------------------------------------------
(* Properties                                                              *)

(***************************************************************************)
(* onConfigInterfaceRemoved "delete[s] those sensor objects": a device of  *)
(* a configuration that is gone is there only because the signal is not    *)
(* handled yet, or because it met a scan for that configuration under way, *)
(* which makes the device again.  Nothing else brings it back.             *)
(***************************************************************************)
OnlyOvertakenSurvive ==
    \A d \in DOMAIN devices :
        LET c == devices[d]
        IN  c \in configs \cup {NoConfig} \cup overtaken
            \/ [kind |-> "removed", path |-> c] \in Range(em)

(***************************************************************************)
(* A scan that is asked for, by main or by a change that is not handled    *)
(* yet, gives an endpoint that stays there the device of the kind it has,  *)
(* for good, while nothing fails and nothing is removed: however signals,  *)
(* timer and earlier scans interleave, and although the endpoint may have  *)
(* been another device before.                                             *)
(***************************************************************************)
ScanToCome == asked > 0 \/ [kind |-> "changed"] \in Range(em)
HasDevice(e) == devices[<<identity[e], e>>] # NoConfig
Undisturbed(e) == e \in endpoints /\ identity[e] \in DeviceTypes /\ removals + failures = 0

EndpointsAreFound ==
    \A e \in Eids :
        [](configs # {} /\ ScanToCome /\ []Undisturbed(e)
             => <>[](Undisturbed(e) /\ HasDevice(e)))
=============================================================================
