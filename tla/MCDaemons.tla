----------------------------- MODULE MCDaemons -----------------------------
(***************************************************************************)
(* TLC instances of the small daemons and helpers.  They are different     *)
(* processes, or parts of one that do not meet, so a behaviour exercises   *)
(* one of them, named by part, while the others stand still: their states  *)
(* add up instead of multiplying.  The configuration scans are extended,   *)
(* the others instantiated.                                                *)
(***************************************************************************)
EXTENDS ConfigScan

CONSTANTS
    MaxInventoryDataSize, Instances,                                    \* NsmCodec
    MaxVersion, MaxOutstanding,                                         \* GpuTelemetry
    Configured, MaxChanges,                                             \* WriteProtect
    Retries, ErrorThreshold, MaxWrites, MaxShmEvents,                   \* ShmSensor
    MaxPolicyEvents, MaxVoltageEvents, MaxLineEvents,                   \* the leak detectors
    MaxChassisEvents,                                                   \* Intrusion
    TotalPSU, RedundantPSU, SufficientPSU, MaxSupplyEvents,             \* PsuRedundancy
    Sockets, MaxUploads, MaxInfoEvents,                                 \* InfoStore
    Drives, DriveErrors, ScanDelayTicks, MaxDriveEvents,                \* NvmeBasic
    MiErrors, MaxFailures, ErrorTicks, StatusTicks, MaxDiscoveries, MaxMiEvents,    \* NvmeMi
    PingThreshold, MaxPings, MaxHealthEvents,                           \* MctpHealth
    PoolStarts, PoolSize, PoolIndex, MaxPoolEvents,                     \* BridgePool
    MaxAttempts, MaxBeatEvents,                                         \* Heartbeat
    RecoveryThreshold, MaxNews, MaxUsbEvents,                           \* UsbRecovery
    Cpus, MaxCpuEvents,                                                 \* CpuDetect
    MaxGadgetEvents,                                                    \* UsbGadget
    IpmbFormats, Words, MaxIpmbEvents,                                  \* IpmbPoll
    Cables, MaxCableEvents,                                             \* CableMonitor
    WriteTimeout, MaxExternalWrites,                                    \* ExternalReaper
    ForwardedPorts, MaxSessions, MaxForwardEvents,                      \* PortForward
    FanNames, AllowedFailures, MaxFanEvents                             \* Fans

VARIABLES
    part,
    asked, answered, sent, wire, got, step,                             \* NsmCodec
    class, exists, outstanding, value, store, shown, seen, short,       \* GpuTelemetry
    graph, groups, links, stage, input, notices, setting, unread, changes,      \* WriteProtect
    files, path, writer, written, mapping, reader, seenWriter, satellite,
    power, shmEvents,                                                   \* ShmSensor
    pin, leak, policy, bound, loaded, known, calls, mail, armed, queued,
    generation, off, stale, policyEvents,                               \* DiscreteLeak
    volt, detector, shutdown, offs, voltageEvents,                      \* VoltageLeak
    line, edges, fetching, present, abnormal, task, pendingEvent, open, unit,
    overlapped, lineEvents,                                             \* GpioLeak
    opened, alarm, edge, configured, monitor, phase, chassisEvents,     \* Intrusion
    functional, tallied, workable, previous, status, redundancyLost, signals,
    unseen, supplyEvents,                                               \* PsuRedundancy
    infos, file, durable, temp, upload, toLoad, accepted, unpublished, atOdds, uploads, board,
    boardPath, searches, missedBoard, attached, infoEvents,             \* InfoStore
    polled, pollCursor, walk, drive, response, reading, powered, sensor, driveEvents,   \* NvmeBasic
    settings, endpoint, reply, hostOn, creating, job, listed, filterTimer, debounce, leaving,
    knownPath, paused, discoveries, context, excused, miEvents,         \* NvmeMi
    bridge, responds, link, established, inRecovery, failures, discovered, unresponsive,
    discoveryNeeded, healthTimer, recoveryTimer, pings, requests, suppressed, logged, overtaken,
    unwatched, healthEvents,                                            \* MctpHealth
    published, poolStart, endpoints, poolSignals, lifecycle, predicted, setupCallback,
    introspecting, associated, misled, poolEvents,                      \* BridgePool
    erot, looking, endpointSignals, beatTimer, doing, startup, socket, late, running, service,
    mistaken, gaveUp, survived, interrupted, untold, beatEvents,        \* Heartbeat
    usb, usbFailures, automatic, ist, istService, istInProgress, istCalls, istNews, istMisled,
    usbEvents,                                                          \* UsbRecovery
    rescan, hostUp, cpuUp, client, hwmon, cpuConfigs, haveConfigs, detected, keepPinging,
    cpuTimers, cpuSensors, unscanned, exported, cpuEvents,              \* CpuDetect
    gadgetWanted, gadgetState, gadget, toldAll, isSetup, mctpdObjects, localEids, netLocalEids,
    gadgetAsk, replied, gadgetMail, unnotified, unheard, gadgetEvents,  \* UsbGadget
    format, word, ipmbHost, ipmbCalls, waitArmed, waitQueued, initWait, ipmbShown, toInit,
    ipmbEvents,                                                         \* IpmbPoll
    inventory, cableFile, fileEvents, watching, objectCalls, cableSignals, expectedCables,
    connectedCables, sleeping, logCalls, pendingCables, entries, openEntries, crossed,
    cableEvents,                                                        \* CableMonitor
    writeAlive, writeAge, externalShown, reaperDue, reaperQueued, reapedEarly,
    externalWrites,                                                     \* ExternalReaper
    enabled, taken, listeners, forgotten, acceptQueued, sessions, sessionIds, lateSessions,
    forwardEvents,                                                      \* PortForward
    rpm, pinOf, inserted, pinEdges, presenceStatus, presenceWaits, presenceReads, blockedOn,
    fanPresent, fanAvailable, fanLed, redundancyAsks, fanRedundancy, fanStatuses,
    fanEvents                                                           \* Fans

Codec == INSTANCE NsmCodec
Telemetry == INSTANCE GpuTelemetry
Protect == INSTANCE WriteProtect
Shm == INSTANCE ShmSensor
Discrete == INSTANCE DiscreteLeak
Voltage == INSTANCE VoltageLeak
Gpio == INSTANCE GpioLeak
Chassis == INSTANCE Intrusion
Psu == INSTANCE PsuRedundancy
Info == INSTANCE InfoStore
Basic == INSTANCE NvmeBasic
Mi == INSTANCE NvmeMi
Health == INSTANCE MctpHealth
Pool == INSTANCE BridgePool
Heart == INSTANCE Heartbeat
Usb == INSTANCE UsbRecovery
Cpu == INSTANCE CpuDetect
Gadget == INSTANCE UsbGadget
Ipmb == INSTANCE IpmbPoll
Cable == INSTANCE CableMonitor
Reaper == INSTANCE ExternalReaper
Forward == INSTANCE PortForward
Fan == INSTANCE Fans

\* The name of vdd ends the path of cpuvdd too.
CpuVddHasVdd == [o \in {"vdd", "cpuvdd"} |-> IF o = "vdd" THEN {"vdd", "cpuvdd"} ELSE {o}]

\* Values good for different times, and for ever.
Timeouts == [once |-> 1, twice |-> 2, lasting |-> 0]

\* A domain of a group that combines a jumper with a setting of the GPU, and of that setting.
JumperAndGpu ==
    [jumper |-> [kind |-> "input", op |-> "OR", sources |-> {}],
     fuse |-> [kind |-> "group", op |-> "AND", sources |-> {"jumper", "gpu"}],
     all |-> [kind |-> "domain", op |-> "OR", sources |-> {"fuse", "gpu"}]]

ASSUME DaemonsAssumption ==
    /\ ConfigAssumption /\ Codec!CodecAssumption /\ Telemetry!TelemetryAssumption
    /\ Protect!ProtectAssumption /\ Shm!ShmAssumption /\ Discrete!DiscreteAssumption
    /\ Voltage!VoltageAssumption /\ Gpio!GpioLeakAssumption /\ Chassis!IntrusionAssumption
    /\ Psu!PsuAssumption /\ Info!InfoAssumption /\ Basic!NvmeAssumption /\ Mi!MiAssumption
    /\ Health!HealthAssumption /\ Pool!PoolAssumption /\ Heart!HeartbeatAssumption
    /\ Usb!UsbAssumption /\ Cpu!CpuAssumption /\ Gadget!GadgetAssumption /\ Ipmb!IpmbAssumption
    /\ Cable!CableAssumption /\ Reaper!ReaperAssumption /\ Forward!ForwardAssumption
    /\ Fan!FansAssumption

-----------------------------------------------------------------------------
Parts == {"scan", "codec", "telemetry", "protect", "shm", "discrete", "voltage", "gpio",
          "chassis", "psu", "info", "basic", "mi", "health", "pool", "heartbeat", "usb", "cpu",
          "gadget", "ipmb", "cable", "reaper", "forward", "fans"}

codecVars == <<asked, answered, sent, wire, got, step>>
telemetryVars == <<class, exists, outstanding, value, store, shown, seen, short>>
protectVars == <<graph, groups, links, stage, input, notices, setting, unread, changes>>
shmVars == <<files, path, writer, written, mapping, reader, seenWriter, satellite, power,
             shmEvents>>
discreteVars == <<pin, leak, policy, bound, loaded, known, calls, mail, armed, queued,
                  generation, off, stale, policyEvents>>
voltageVars == <<volt, detector, shutdown, offs, voltageEvents>>
gpioVars == <<line, edges, fetching, present, abnormal, task, pendingEvent, open, unit,
              overlapped, lineEvents>>
chassisVars == <<opened, alarm, edge, configured, monitor, phase, chassisEvents>>
psuVars == <<functional, tallied, workable, previous, status, redundancyLost, signals, unseen,
             supplyEvents>>
infoVars == <<infos, file, durable, temp, upload, toLoad, accepted, unpublished, atOdds, uploads,
              board, boardPath, searches, missedBoard, attached, infoEvents>>
basicVars == <<polled, pollCursor, walk, drive, response, reading, powered, sensor, driveEvents>>
miVars == <<settings, endpoint, reply, hostOn, creating, job, listed, filterTimer, debounce,
            leaving, knownPath, paused, discoveries, context, excused, miEvents>>
healthVars == <<bridge, responds, link, established, inRecovery, failures, discovered,
                unresponsive, discoveryNeeded, healthTimer, recoveryTimer, pings, requests,
                suppressed, logged, overtaken, unwatched, healthEvents>>
poolVars == <<published, poolStart, endpoints, poolSignals, lifecycle, predicted, setupCallback,
              introspecting, associated, misled, poolEvents>>
beatVars == <<erot, looking, endpointSignals, beatTimer, doing, startup, socket, late, running,
              service, mistaken, gaveUp, survived, interrupted, untold, beatEvents>>
usbVars == <<usb, usbFailures, automatic, ist, istService, istInProgress, istCalls, istNews,
             istMisled, usbEvents>>
cpuVars == <<rescan, hostUp, cpuUp, client, hwmon, cpuConfigs, haveConfigs, detected,
             keepPinging, cpuTimers, cpuSensors, unscanned, exported, cpuEvents>>
gadgetVars == <<gadgetWanted, gadgetState, gadget, toldAll, isSetup, mctpdObjects, localEids,
                netLocalEids, gadgetAsk, replied, gadgetMail, unnotified, unheard, gadgetEvents>>
ipmbVars == <<format, word, ipmbHost, ipmbCalls, waitArmed, waitQueued, initWait, ipmbShown,
              toInit, ipmbEvents>>
cableVars == <<inventory, cableFile, fileEvents, watching, objectCalls, cableSignals,
               expectedCables, connectedCables, sleeping, logCalls, pendingCables, entries,
               openEntries, crossed, cableEvents>>
reaperVars == <<writeAlive, writeAge, externalShown, reaperDue, reaperQueued, reapedEarly,
                externalWrites>>
forwardVars == <<enabled, taken, listeners, forgotten, acceptQueued, sessions, sessionIds,
                 lateSessions, forwardEvents>>
fansVars == <<rpm, pinOf, inserted, pinEdges, presenceStatus, presenceWaits, presenceReads,
              blockedOn, fanPresent, fanAvailable, fanLed, redundancyAsks, fanRedundancy,
              fanStatuses, fanEvents>>

daemonsVars ==
    <<part, scanVars, codecVars, telemetryVars, protectVars, shmVars, discreteVars, voltageVars,
      gpioVars, chassisVars, psuVars, infoVars, basicVars, miVars, healthVars, poolVars,
      beatVars, usbVars, cpuVars, gadgetVars, ipmbVars, cableVars, reaperVars, forwardVars,
      fansVars>>

\* Every part but p stands still.
Only(p) ==
    /\ UNCHANGED part
    /\ IF p = "scan" THEN TRUE ELSE UNCHANGED scanVars
    /\ IF p = "codec" THEN TRUE ELSE UNCHANGED codecVars
    /\ IF p = "telemetry" THEN TRUE ELSE UNCHANGED telemetryVars
    /\ IF p = "protect" THEN TRUE ELSE UNCHANGED protectVars
    /\ IF p = "shm" THEN TRUE ELSE UNCHANGED shmVars
    /\ IF p = "discrete" THEN TRUE ELSE UNCHANGED discreteVars
    /\ IF p = "voltage" THEN TRUE ELSE UNCHANGED voltageVars
    /\ IF p = "gpio" THEN TRUE ELSE UNCHANGED gpioVars
    /\ IF p = "chassis" THEN TRUE ELSE UNCHANGED chassisVars
    /\ IF p = "psu" THEN TRUE ELSE UNCHANGED psuVars
    /\ IF p = "info" THEN TRUE ELSE UNCHANGED infoVars
    /\ IF p = "basic" THEN TRUE ELSE UNCHANGED basicVars
    /\ IF p = "mi" THEN TRUE ELSE UNCHANGED miVars
    /\ IF p = "health" THEN TRUE ELSE UNCHANGED healthVars
    /\ IF p = "pool" THEN TRUE ELSE UNCHANGED poolVars
    /\ IF p = "heartbeat" THEN TRUE ELSE UNCHANGED beatVars
    /\ IF p = "usb" THEN TRUE ELSE UNCHANGED usbVars
    /\ IF p = "cpu" THEN TRUE ELSE UNCHANGED cpuVars
    /\ IF p = "gadget" THEN TRUE ELSE UNCHANGED gadgetVars
    /\ IF p = "ipmb" THEN TRUE ELSE UNCHANGED ipmbVars
    /\ IF p = "cable" THEN TRUE ELSE UNCHANGED cableVars
    /\ IF p = "reaper" THEN TRUE ELSE UNCHANGED reaperVars
    /\ IF p = "forward" THEN TRUE ELSE UNCHANGED forwardVars
    /\ IF p = "fans" THEN TRUE ELSE UNCHANGED fansVars

\* Parts that stand still do so in one of their initial states.
DaemonsInit ==
    \E p \in Parts :
        /\ part = p
        /\ IF p = "scan" THEN Init ELSE Start("adc")
        /\ IF p = "codec" THEN Codec!Init ELSE Codec!Start(Codec!GetEccMode)
        /\ IF p = "telemetry" THEN Telemetry!Init ELSE Telemetry!Start("EccMode")
        /\ IF p = "protect" THEN Protect!Init ELSE Protect!Start
        /\ IF p = "shm" THEN Shm!Init ELSE Shm!Start
        /\ IF p = "discrete" THEN Discrete!Init ELSE Discrete!Start
        /\ IF p = "voltage" THEN Voltage!Init ELSE Voltage!Start
        /\ IF p = "gpio" THEN Gpio!Init ELSE Gpio!Start
        /\ IF p = "chassis" THEN Chassis!Init ELSE Chassis!Start
        /\ IF p = "psu" THEN Psu!Init ELSE Psu!Start
        /\ IF p = "health" THEN Health!Init ELSE Health!Start
        /\ Info!Start /\ Basic!Start /\ Mi!Start /\ Pool!Start /\ Usb!Start
        /\ Gadget!Start /\ Reaper!Start /\ Forward!Start
        /\ IF p = "heartbeat" THEN Heart!Init ELSE Heart!Start
        /\ IF p = "cpu" THEN Cpu!Init ELSE Cpu!Start
        /\ IF p = "ipmb" THEN Ipmb!Init ELSE Ipmb!Start
        /\ IF p = "cable" THEN Cable!Init ELSE Cable!Start
        /\ IF p = "fans" THEN Fan!Init ELSE Fan!Start

DaemonsNext ==
    \/ part = "scan" /\ Next /\ Only("scan")
    \/ part = "codec" /\ Codec!Next /\ Only("codec")
    \/ part = "telemetry" /\ Telemetry!Next /\ Only("telemetry")
    \/ part = "protect" /\ Protect!Next /\ Only("protect")
    \/ part = "shm" /\ Shm!Next /\ Only("shm")
    \/ part = "discrete" /\ Discrete!Next /\ Only("discrete")
    \/ part = "voltage" /\ Voltage!Next /\ Only("voltage")
    \/ part = "gpio" /\ Gpio!Next /\ Only("gpio")
    \/ part = "chassis" /\ Chassis!Next /\ Only("chassis")
    \/ part = "psu" /\ Psu!Next /\ Only("psu")
    \/ part = "info" /\ Info!Next /\ Only("info")
    \/ part = "basic" /\ Basic!Next /\ Only("basic")
    \/ part = "mi" /\ Mi!Next /\ Only("mi")
    \/ part = "health" /\ Health!Next /\ Only("health")
    \/ part = "pool" /\ Pool!Next /\ Only("pool")
    \/ part = "heartbeat" /\ Heart!Next /\ Only("heartbeat")
    \/ part = "usb" /\ Usb!Next /\ Only("usb")
    \/ part = "cpu" /\ Cpu!Next /\ Only("cpu")
    \/ part = "gadget" /\ Gadget!Next /\ Only("gadget")
    \/ part = "ipmb" /\ Ipmb!Next /\ Only("ipmb")
    \/ part = "cable" /\ Cable!Next /\ Only("cable")
    \/ part = "reaper" /\ Reaper!Next /\ Only("reaper")
    \/ part = "forward" /\ Forward!Next /\ Only("forward")
    \/ part = "fans" /\ Fan!Next /\ Only("fans")

DaemonsFairness ==
    /\ WF_scanVars(part = "scan" /\ Progress)
    /\ WF_protectVars(part = "protect" /\ Protect!Proceeds)
    /\ WF_discreteVars(part = "discrete" /\ Discrete!Proceeds)
    /\ WF_voltageVars(part = "voltage" /\ Voltage!Proceeds)
    /\ WF_gpioVars(part = "gpio" /\ Gpio!Proceeds)
    /\ WF_chassisVars(part = "chassis" /\ Chassis!Proceeds)
    /\ WF_psuVars(part = "psu" /\ Psu!Proceeds)
    /\ WF_infoVars(part = "info" /\ Info!Proceeds)
    /\ WF_basicVars(part = "basic" /\ Basic!Proceeds)
    /\ WF_miVars(part = "mi" /\ Mi!Proceeds) /\ WF_miVars(part = "mi" /\ Mi!Polls)
    /\ \A k \in 1 .. 5 : WF_healthVars(part = "health" /\ Health!Proceeds(k))
    /\ WF_poolVars(part = "pool" /\ Pool!Proceeds)
    /\ WF_beatVars(part = "heartbeat" /\ Heart!Proceeds)
    /\ SF_beatVars(part = "heartbeat" /\ Heart!Signals)
    /\ \A k \in 1 .. 2 : WF_usbVars(part = "usb" /\ Usb!Proceeds(k))
    /\ WF_cpuVars(part = "cpu" /\ Cpu!Proceeds)
    /\ WF_gadgetVars(part = "gadget" /\ Gadget!Proceeds)
    /\ \A k \in 1 .. 3 : WF_ipmbVars(part = "ipmb" /\ Ipmb!Proceeds(k))
    /\ \A k \in 1 .. 5 : WF_cableVars(part = "cable" /\ Cable!Proceeds(k))
    /\ \A k \in 1 .. 3 : WF_reaperVars(part = "reaper" /\ Reaper!Proceeds(k))
    /\ WF_fansVars(part = "fans" /\ Fan!Proceeds)
    /\ \A f \in FanNames : WF_fansVars(part = "fans" /\ Fan!HandleResponse(f))

DaemonsSpec == DaemonsInit /\ [][DaemonsNext]_daemonsVars /\ DaemonsFairness

-----------------------------------------------------------------------------
(* The variables of the part that runs keep their types; the cursor into   *)
(* the list of drives, in particular, is an iterator of that list.         *)
DaemonsTypeOK ==
    /\ part \in Parts
    /\ CASE part = "scan" -> TypeOK
         [] part = "codec" -> Codec!TypeOK
         [] part = "telemetry" -> Telemetry!TypeOK
         [] part = "protect" -> Protect!TypeOK
         [] part = "shm" -> Shm!TypeOK
         [] part = "discrete" -> Discrete!TypeOK
         [] part = "voltage" -> Voltage!TypeOK
         [] part = "gpio" -> Gpio!TypeOK
         [] part = "chassis" -> Chassis!TypeOK
         [] part = "psu" -> Psu!TypeOK
         [] part = "info" -> Info!TypeOK
         [] part = "basic" -> Basic!TypeOK /\ Basic!CursorIsValid
         [] part = "mi" -> Mi!TypeOK
         [] part = "health" -> Health!TypeOK
         [] part = "pool" -> Pool!TypeOK
         [] part = "heartbeat" -> Heart!TypeOK
         [] part = "usb" -> Usb!TypeOK
         [] part = "cpu" -> Cpu!TypeOK
         [] part = "gadget" -> Gadget!TypeOK
         [] part = "ipmb" -> Ipmb!TypeOK
         [] part = "cable" -> Cable!TypeOK
         [] part = "reaper" -> Reaper!TypeOK
         [] part = "forward" -> Forward!TypeOK
         [] part = "fans" -> Fan!TypeOK

(* NsmCodec, GpuTelemetry, WriteProtect, ShmSensor, Intrusion,             *)
(* PsuRedundancy, IpmbPoll: only what a device sent is decoded, and what   *)
(* was decoded last is shown; protection is the combination of its         *)
(* sources, a reading from shared memory is whole, an intrusion is one     *)
(* since the sensor was armed, redundancy counts the supplies that work,   *)
(* a word shown is the reading it means.                                   *)
ShownIsTrue ==
    CASE part = "codec" -> Codec!DecodedIsSent
      [] part = "telemetry" -> Telemetry!ShownIsLastSeen
      [] part = "protect" -> Protect!ShownIsCombined
      [] part = "shm" -> Shm!ShownIsWhole
      [] part = "chassis" -> Chassis!IntrusionIsShown
      [] part = "psu" -> Psu!RedundancyIsCounted
      [] part = "ipmb" -> Ipmb!ShownIsMeant
      [] OTHER -> TRUE

(* MctpHealth, BridgePool, Heartbeat, UsbRecovery, UsbGadget: an MCTP      *)
(* endpoint is watched and its outages logged once, an association is with *)
(* an endpoint that exists, heartbeats go to an ERoT that expects them,    *)
(* the reactor knows of a test that runs, and an EID assigned is that of   *)
(* an endpoint set up, of which the host is told.                          *)
EndpointsAreWatched ==
    CASE part = "health" -> Health!IsWatched /\ Health!OneLog
      [] part = "pool" -> Pool!AssociatedExists
      [] part = "heartbeat" -> Heart!BeatsAreExpected /\ Heart!EndIsTold
      [] part = "usb" -> Usb!TestIsKnown
      [] part = "gadget" -> Gadget!AssignedIsSetUp /\ Gadget!HostIsNotified
      [] OTHER -> TRUE

(* CpuDetect, IpmbPoll, CableMonitor, ExternalReaper, PortForward, Fans:   *)
(* whatever fails or overlaps, what a daemon has to do next is arranged    *)
(* for: detection and polling go on, the file is watched, values that      *)
(* perish have the timer set, what is enabled is served and nothing else,  *)
(* and the daemon waits for edges where they can come.                     *)
ServiceGoesOn ==
    CASE part = "cpu" -> Cpu!DetectionGoesOn /\ Cpu!PollsUnlessExported
      [] part = "ipmb" -> Ipmb!PollingGoesOn
      [] part = "cable" -> Cable!FileIsWatched
      [] part = "reaper" -> Reaper!ReaperIsSet
      [] part = "forward" -> Forward!EnabledIsServed
      [] part = "fans" -> Fan!EdgesAreAwaited
      [] OTHER -> TRUE

(* InfoStore: what an upload was told is stored outlives a restart.        *)
StoreSurvives == part = "info" => Info!AcceptedIsPublished

(* DiscreteLeak, VoltageLeak: nothing is turned off but for a leak that    *)
(* lasts, as the policy says then.                                         *)
ShutdownsAreDue == Discrete!ShutdownIsDue /\ Voltage!OffIsDue

(* When nothing changes any more, sensors follow the configuration,        *)
(* protection follows its inputs, leaks were acted upon and logged,        *)
(* statuses, drives, processors, fans, cables and devices behind IPMB show *)
(* what is there, values that perish are gone, and endpoints are           *)
(* associated, recovered and sent heartbeats.                              *)
DaemonsSettle ==
    <>[](CASE part = "scan" -> FollowsConfig
           [] part = "protect" -> Protect!FollowsInputs
           [] part = "discrete" -> Discrete!LeakIsOff
           [] part = "voltage" -> Voltage!LeakIsOff
           [] part = "gpio" -> Gpio!LineIsShown
           [] part = "chassis" -> Chassis!ChassisIsShown
           [] part = "info" -> Info!AllAttached
           [] part = "basic" -> Basic!ShowsWhatTheyTell
           [] part = "mi" -> Mi!Follows
           [] part = "health" -> Health!Settled
           [] part = "pool" -> Pool!FollowsPool
           [] part = "heartbeat" -> Heart!FollowsEndpoint
           [] part = "usb" -> Usb!IsRecovered
           [] part = "cpu" -> Cpu!ShowsCpus
           [] part = "gadget" -> Gadget!IsServed
           [] part = "ipmb" -> Ipmb!FollowsHost
           [] part = "cable" -> Cable!CablesAreShown
           [] part = "reaper" -> Reaper!AllReaped
           [] part = "fans" -> Fan!FansAreShown
           [] OTHER -> TRUE)
=============================================================================
