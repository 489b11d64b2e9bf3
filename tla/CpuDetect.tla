------------------------------ MODULE CpuDetect ------------------------------
(***************************************************************************)
(* The Intel CPU sensors (src/src/intel-cpu/IntelCPUSensorMain.cpp,        *)
(* IntelCPUSensor.cpp): the CPUs of the configuration are pinged until all *)
(* are ready, that is have told the temperatures of their DIMMs.  A CPU    *)
(* that answers gets its drivers, by writing `rescan' where the kernel has *)
(* it, else by making the PECI client anew; some seconds later sensors are *)
(* made of the hwmon files that are there by then.  The sensors of a CPU   *)
(* are two, that of its cores and that of its DIMMs.                       *)
(***************************************************************************)
EXTENDS Naturals, FiniteSets

CONSTANTS
    Cpus,           \* numbers, in the order of their names
    MaxCpuEvents    \* bound: what the host does, configuration signals, and faults

CpuAssumption == Cpus \subseteq Nat \ {0} /\ MaxCpuEvents \in Nat

Kinds == {"core", "dimm"}
None == 0

VARIABLES
    rescan,         \* the kernel has /sys/bus/peci/rescan
    hostUp,         \* the host is on
    cpuUp,          \* what each CPU answers: "off", "on", "ready"
    client,         \* the PECI clients the kernel knows
    hwmon,          \* of each CPU, the kinds with an hwmon directory
    cpuConfigs,     \* CPUs in cpuConfigs
    haveConfigs,    \* sensorConfigs is not empty
    detected,       \* CPUConfig::state
    keepPinging,
    cpuTimers,      \* the timers that are armed: "filter", "ping", "creation"
    cpuSensors,     \* gCpuSensors: each is "none", "polled", or its polling has "ended"
    unscanned,      \* history: CPUs with a driver that came, or a change that was seen, too late
    exported,       \* history: CPUs whose client was made anew under a sensor
    cpuEvents

cpuVars == <<rescan, hostUp, cpuUp, client, hwmon, cpuConfigs, haveConfigs, detected, keepPinging,
             cpuTimers, cpuSensors, unscanned, exported, cpuEvents>>

kernel == <<client, hwmon>>
hostState == <<hostUp, cpuUp>>
configs == <<cpuConfigs, haveConfigs>>

StartWith(hasRescan) ==
    /\ rescan = hasRescan /\ hostUp = FALSE
    /\ cpuUp = [c \in Cpus |-> "off"] /\ client = {} /\ hwmon = [c \in Cpus |-> {}]
    /\ cpuConfigs = {} /\ haveConfigs = FALSE
    /\ detected = [c \in Cpus |-> "OFF"] /\ keepPinging = FALSE
    /\ cpuTimers = {"filter"} /\ cpuSensors = [c \in Cpus |-> [k \in Kinds |-> "none"]]
    /\ unscanned = {} /\ exported = {} /\ cpuEvents = 0
Start == StartWith(FALSE)
Init == \E hasRescan \in BOOLEAN : StartWith(hasRescan)

Happens == cpuEvents < MaxCpuEvents /\ cpuEvents' = cpuEvents + 1
Expires(timer) == timer \in cpuTimers

-----------------------------------------------------------------------------
(* detectCpu where the kernel rescans: what the drivers made is looked at, *)
(* and the CPUs looked for if there is nothing.                            *)
Due == {c \in cpuConfigs : detected[c] # "READY"}

Probed(c) ==
    IF "dimm" \in hwmon[c] THEN "READY" ELSE IF "core" \in hwmon[c] THEN "ON" ELSE detected[c]

\* The sensors are made some seconds after a change; else the CPUs are pinged again, if asked to.
Continue(found, pingAgain) ==
    cpuTimers' = IF found THEN (cpuTimers \ {"ping"}) \cup {"creation"}
                 ELSE IF pingAgain THEN cpuTimers ELSE cpuTimers \ {"ping"}

Rescanned ==
    /\ detected' = [c \in Cpus |-> IF c \in Due THEN Probed(c) ELSE detected[c]]
    /\ client' = client \cup {c \in Due : hwmon[c] = {} /\ cpuUp[c] # "off"}
    /\ keepPinging' = (keepPinging \/ \E c \in Due : detected'[c] # "READY")
    /\ Continue(\E c \in Due : hwmon[c] # {}, keepPinging')
    /\ UNCHANGED <<hwmon, unscanned, exported, cpuEvents>>

(* exportDevice, of CPUs that were off: an old client goes with its        *)
(* drivers, and a new one is made, or refused.                             *)
ExportDevice(anew, refused) ==
    /\ client' = (client \ refused) \cup (anew \ refused)
    /\ hwmon' = [c \in Cpus |-> IF c \in anew THEN {} ELSE hwmon[c]]
    /\ exported' = exported \cup {c \in anew : \E k \in Kinds : cpuSensors[c][k] # "none"}

(* detectCpu by PECI commands.  When the bus is locked by another process, *)
(* at the CPU `stop', the others wait for the next ping.                   *)
Answered(c) == CASE cpuUp[c] = "off" -> "OFF" [] cpuUp[c] = "on" -> "ON" [] cpuUp[c] = "ready" -> "READY"

Pinged ==
    \E stop \in Due \cup {None}, refused \in SUBSET Due :
        LET reached == {c \in Due : stop = None \/ c < stop}
            anew == {c \in reached : detected[c] = "OFF" /\ cpuUp[c] # "off"}
            found == \E c \in reached : detected'[c] # detected[c] /\ detected'[c] # "OFF"
        IN  /\ refused \subseteq anew
            /\ IF stop = None /\ refused = {} THEN UNCHANGED cpuEvents ELSE Happens
            /\ detected' = [c \in Cpus |-> IF c \notin reached THEN detected[c]
                                           ELSE IF c \in refused THEN "OFF" ELSE Answered(c)]
            /\ ExportDevice(anew, refused)
            /\ keepPinging' = (keepPinging \/ \E c \in reached : detected'[c] # "READY")
            /\ unscanned' = IF stop # None /\ found THEN unscanned \cup reached ELSE unscanned
            /\ Continue(stop = None /\ found, stop # None \/ keepPinging')

DetectCpu ==
    /\ Expires("ping")
    /\ (rescan /\ Rescanned) \/ (~rescan /\ Pinged)
    /\ UNCHANGED <<rescan, hostState, configs, cpuSensors>>

(* createSensors, when the CPUs had their time: a sensor of every hwmon    *)
(* file of a configured CPU that has none yet.                             *)
Available == \E c \in cpuConfigs : detected[c] # "OFF"
Created ==
    [c \in Cpus |-> [k \in Kinds |->
        IF k \in hwmon[c] /\ c \in cpuConfigs /\ cpuSensors[c][k] = "none"
          THEN "polled" ELSE cpuSensors[c][k]]]

CreateSensors ==
    /\ Expires("creation")
    /\ LET created == Available /\ haveConfigs /\ \E c \in Cpus : hwmon[c] # {}
       IN  /\ cpuSensors' = IF created THEN Created ELSE cpuSensors
           /\ unscanned' = IF created THEN {} ELSE unscanned \cup cpuConfigs
           /\ cpuTimers' = (cpuTimers \ {"creation"})
                             \cup (IF ~created \/ keepPinging THEN {"ping"} ELSE {})
    /\ UNCHANGED <<rescan, hostState, kernel, configs, detected, keepPinging, exported, cpuEvents>>

(* getCpuConfig, a second after the start or a change: CPUs that are known *)
(* keep their state; if it cannot be read there is none.                   *)
GetCpuConfig ==
    /\ Expires("filter")
    /\ \/ /\ cpuConfigs' = Cpus /\ haveConfigs' = TRUE
          /\ cpuTimers' = (cpuTimers \ {"filter"}) \cup {"ping"} /\ UNCHANGED cpuEvents
       \/ /\ Happens /\ cpuTimers' = cpuTimers \ {"filter"}
          /\ haveConfigs' = FALSE /\ UNCHANGED cpuConfigs
    /\ UNCHANGED <<rescan, hostState, kernel, detected, keepPinging, cpuSensors, unscanned, exported>>

ConfigChanges ==
    /\ Happens /\ cpuTimers' = cpuTimers \cup {"filter"}
    /\ UNCHANGED <<rescan, hostState, kernel, configs, detected, keepPinging, cpuSensors, unscanned,
                   exported>>

-----------------------------------------------------------------------------
(* IntelCPUSensor::setupRead: the file is opened for every reading.  When  *)
(* that fails while the host is on, the reading was the last; a client     *)
(* that was made anew may have got another number.                         *)
SetupRead ==
    /\ hostUp
    /\ \E c \in Cpus, k \in Kinds :
         /\ cpuSensors[c][k] = "polled" /\ (k \notin hwmon[c] \/ c \in exported)
         /\ cpuSensors' = [cpuSensors EXCEPT ![c][k] = "ended"]
    /\ UNCHANGED <<rescan, hostState, kernel, configs, detected, keepPinging, cpuTimers, unscanned,
                   exported, cpuEvents>>

(* The drivers of a client find the CPU and its DIMMs, in their own time.  *)
DriverAppears ==
    /\ \E c \in client : \E k \in Kinds \ hwmon[c] :
         /\ cpuUp[c] # "off" /\ (k = "dimm" => cpuUp[c] = "ready" /\ "core" \in hwmon[c])
         /\ hwmon' = [hwmon EXCEPT ![c] = @ \cup {k}]
         /\ unscanned' = IF rescan \/ Expires("creation") THEN unscanned ELSE unscanned \cup {c}
    /\ UNCHANGED <<rescan, hostState, client, configs, detected, keepPinging, cpuTimers, cpuSensors,
                   exported, cpuEvents>>

(* The host goes on and off; a CPU comes up, or does not answer any more. *)
HostChanges ==
    /\ Happens
    /\ \/ hostUp' = TRUE /\ ~hostUp /\ UNCHANGED cpuUp
       \/ hostUp' = FALSE /\ hostUp /\ cpuUp' = [c \in Cpus |-> "off"]
       \/ /\ \E c \in Cpus : cpuUp[c] # "off" /\ cpuUp' = [cpuUp EXCEPT ![c] = "off"]
          /\ UNCHANGED hostUp
    /\ UNCHANGED <<rescan, kernel, configs, detected, keepPinging, cpuTimers, cpuSensors, unscanned,
                   exported>>

CpuBoots ==
    /\ hostUp
    /\ \E c \in Cpus :
         \/ cpuUp[c] = "off" /\ cpuUp' = [cpuUp EXCEPT ![c] = "on"]
         \/ cpuUp[c] = "on" /\ cpuUp' = [cpuUp EXCEPT ![c] = "ready"]
    /\ UNCHANGED <<rescan, hostUp, kernel, configs, detected, keepPinging, cpuTimers, cpuSensors,
                   unscanned, exported, cpuEvents>>

Proceeds == DetectCpu \/ CreateSensors \/ GetCpuConfig

Next ==
    \/ DetectCpu \/ CreateSensors \/ GetCpuConfig \/ ConfigChanges \/ SetupRead
    \/ DriverAppears \/ HostChanges \/ CpuBoots
Spec == Init /\ [][Next]_cpuVars /\ WF_cpuVars(Proceeds)

-----------------------------------------------------------------------------
TypeOK ==
    /\ rescan \in BOOLEAN /\ hostUp \in BOOLEAN /\ client \subseteq Cpus
    /\ cpuUp \in [Cpus -> {"off", "on", "ready"}] /\ hwmon \in [Cpus -> SUBSET Kinds]
    /\ cpuConfigs \subseteq Cpus /\ haveConfigs \in BOOLEAN /\ keepPinging \in BOOLEAN
    /\ detected \in [Cpus -> {"OFF", "ON", "READY"}]
    /\ cpuTimers \subseteq {"filter", "ping", "creation"}
    /\ cpuSensors \in [Cpus -> [Kinds -> {"none", "polled", "ended"}]]
    /\ unscanned \subseteq Cpus /\ exported \subseteq Cpus

(* As long as a CPU is not ready it is looked for.                         *)
DetectionGoesOn == Due # {} => cpuTimers \cap {"ping", "creation"} # {}

(* Polling of a CPU ends only when its client was made anew.               *)
PollsUnlessExported ==
    \A c \in Cpus, k \in Kinds : cpuSensors[c][k] = "ended" => c \in exported

(* When nothing changes any more, what the drivers offer of a CPU that     *)
(* was looked at in time is polled.                                        *)
ShowsCpus ==
    \A c \in cpuConfigs \ (unscanned \cup exported) : \A k \in hwmon[c] : cpuSensors[c][k] = "polled"
Follows == <>[]ShowsCpus
=============================================================================
