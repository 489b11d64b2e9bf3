----------------------------- MODULE ConfigScan -----------------------------
(***************************************************************************)
(* How the sensor daemons keep their sensors in step with the              *)
(* configuration that entity-manager publishes (src/src/*Main.cpp and      *)
(* GetSensorConfiguration in src/src/Utils.hpp).                           *)
(*                                                                         *)
(* A daemon lists the configured objects, asks each for its properties,    *)
(* and when the last answer is in creates sensors from what arrived.  A    *)
(* PropertiesChanged signal records the object's path and arms a timer     *)
(* that starts another scan.  Scans of the same daemon overlap: one that   *)
(* waits ten seconds to repeat a call ends after one started later.        *)
(*                                                                         *)
(* The daemons share this skeleton and differ in how they choose what to   *)
(* create again and in the events they follow.  Each is described by two   *)
(* records: its createSensors and its main.                                *)
(***************************************************************************)
EXTENDS Naturals, FiniteSets, SequencesExt

CONSTANTS
    Daemons,        \* names of the daemons, a subset of the domain of Scans
    Objects,        \* configured objects; each names one sensor
    EndsWith,       \* EndsWith[o]: the objects whose paths end with o's name
    NeedsCpu,       \* objects with CPURequired
    MaxEvents,      \* bound: configuration changes, calls that fail for good,
                    \* power cycles and arrivals of the processor
    MaxScans        \* bound: scans in progress

VARIABLES
    daemon,         \* which daemon this is
    config,         \* what entity-manager publishes
    cpu,            \* the processor the objects of NeedsCpu wait for is present
    host,           \* the host is on
    sensors,        \* the daemon's map from names to sensors
    changed,        \* sensorsChanged
    timer,          \* filterTimer is armed
    cpuTimer,       \* cpuFilterTimer is armed
    scans,          \* scans in progress
    alive,          \* the process has not ended on a null sensor
    events,         \* how many of those there were
    missed          \* history: objects a scan went by without their current configuration

scanVars == <<daemon, config, cpu, host, sensors, changed, timer, cpuTimer, scans, alive,
              events, missed>>

-----------------------------------------------------------------------------
(* createSensors of each daemon.                                           *)
(*   managed: one GetManagedObjects instead of GetSubTree and a GetAll     *)
(*            per object                                                   *)
(*   select:  what a rescan creates again: "all", "name" - unknown         *)
(*            sensors, and known ones whose path was signalled - or "path" *)
(*            - signalled paths only                                       *)
(*   anchored: names are compared with their leading '/'                   *)
(*   guarded: entries without a sensor are skipped, not dereferenced       *)
(*   clears:  sensors of objects the scan did not see are dropped          *)
(*   needs:   an absent processor is noticed "before" or "after" the old   *)
(*            sensor was given up                                          *)
(*   bad:     what an unusable configuration leaves: the sensor ("keep"),  *)
(*            nothing in place of one given up ("drop"), nothing ("null")  *)
Plain == [managed |-> FALSE, select |-> "name", anchored |-> FALSE, guarded |-> FALSE,
          clears |-> FALSE, needs |-> "no", bad |-> "keep"]

\* The processor an ADC channel may need is looked for when the old sensor is given up.
AdcNeeds == "after"
AdcScan  == [Plain EXCEPT !.guarded = TRUE, !.needs = AdcNeeds]

\* A PWM connector whose file is missing ends the fan's turn.
FanSelect == "name"
FanUnusable == "drop"
FanScan  == [Plain EXCEPT !.select = FanSelect, !.bad = FanUnusable]

HwmonSelect == "name"
HwmonUnusable == "drop"
HwmonScan == [Plain EXCEPT !.select = HwmonSelect, !.bad = HwmonUnusable]

\* A supply's sensors are known by label, its configuration by name.
PsuSelect == "path"
PsuUnusable == "keep"
PsuScan  == [Plain EXCEPT !.select = PsuSelect, !.anchored = TRUE, !.needs = "before",
                          !.bad = PsuUnusable]
ExternalScan == [Plain EXCEPT !.anchored = TRUE, !.bad = "null"]
PlxScan  == Plain
LeakScan == [Plain EXCEPT !.guarded = TRUE, !.bad = "drop"]
NvmeScan == [Plain EXCEPT !.select = "all", !.clears = TRUE]
ExitAirScan == [Plain EXCEPT !.select = "all", !.clears = TRUE]
Managed  == [Plain EXCEPT !.managed = TRUE, !.select = "all"]
IpmbScan == Managed
McuScan  == Managed
SatelliteScan == Managed
SmbpbiScan == Managed
DiscreteLeakScan == Managed

Scans == [adc |-> AdcScan, fan |-> FanScan, hwmon |-> HwmonScan, psu |-> PsuScan,
          external |-> ExternalScan, plx |-> PlxScan, leak |-> LeakScan, nvme |-> NvmeScan,
          exitair |-> ExitAirScan, ipmb |-> IpmbScan, mcu |-> McuScan,
          satellite |-> SatelliteScan, smbpbi |-> SmbpbiScan, dleak |-> DiscreteLeakScan]

(* main of each daemon: the events it follows beside PropertiesChanged.    *)
(*   first: the first scan knows no sensorsChanged                         *)
(*   removed: InterfacesRemoved drops the sensor                           *)
(*   power: sensors are deactivated with the host and activated by a scan  *)
(*   cpu:   a processor that appears starts a scan                         *)
Follows == [first |-> TRUE, removed |-> FALSE, power |-> FALSE, cpu |-> FALSE]

AdcEvents == [Follows EXCEPT !.cpu = TRUE]
FanEvents == Follows
HwmonEvents == [Follows EXCEPT !.power = TRUE, !.removed = TRUE]
PsuEvents == [Follows EXCEPT !.power = TRUE, !.cpu = TRUE]
ExternalEvents == Follows
PlxEvents == [Follows EXCEPT !.first = FALSE, !.removed = TRUE]
LeakEvents == Follows
NvmeEvents == [Follows EXCEPT !.removed = TRUE]
ExitAirEvents == Follows
IpmbEvents == [Follows EXCEPT !.removed = TRUE]
McuEvents == Follows
SatelliteEvents == Follows
SmbpbiEvents == Follows
DiscreteLeakEvents == Follows

Events == [adc |-> AdcEvents, fan |-> FanEvents, hwmon |-> HwmonEvents, psu |-> PsuEvents,
           external |-> ExternalEvents, plx |-> PlxEvents, leak |-> LeakEvents,
           nvme |-> NvmeEvents, exitair |-> ExitAirEvents, ipmb |-> IpmbEvents,
           mcu |-> McuEvents, satellite |-> SatelliteEvents, smbpbi |-> SmbpbiEvents,
           dleak |-> DiscreteLeakEvents]

ConfigAssumption ==
    /\ IsFiniteSet(Objects) /\ NeedsCpu \subseteq Objects
    /\ EndsWith \in [Objects -> SUBSET Objects] /\ \A o \in Objects : o \in EndsWith[o]
    /\ Daemons \subseteq DOMAIN Scans
    /\ MaxEvents \in Nat /\ MaxScans \in Nat \ {0}

Scan == Scans[daemon]
Event == Events[daemon]

-----------------------------------------------------------------------------
(* A configuration: "absent", "unmatched" - no device for it, or a field   *)
(* the match needs is missing - "bad" or "good", and which one it is.      *)
Kinds == {"absent", "unmatched", "good"} \cup (IF Scan.bad = "keep" THEN {} ELSE {"bad"})
Published(kind, version) == [kind |-> kind, version |-> version]

NoSensor == [state |-> "none", version |-> 0]       \* not in the map
NullSensor == [state |-> "null", version |-> 0]     \* in the map, without a sensor
Live(version) == [state |-> "live", version |-> version]
Inactive(e) == [e EXCEPT !.state = "inactive"]
HasSensor(e) == e.state \in {"live", "inactive"}

Unlisted == Published("unlisted", 0)
Asked == Published("asked", 0)
Failed == Published("failed", 0)

NewScan(first, activate, forCpu) ==
    [first |-> first, activate |-> activate, forCpu |-> forCpu, listed |-> FALSE,
     got |-> [o \in Objects |-> Unlisted]]

StartScan(first, activate, forCpu) ==
    scans' = Append(scans, NewScan(first, activate, forCpu))

-----------------------------------------------------------------------------
(* One object in the loop of createSensors; s holds the map, the changed   *)
(* paths and whether a null entry was dereferenced.                        *)

\* The loop reaches the object: it was answered, it matches a device, and
\* the device exists: instantiateDevices creates none while the host is off,
\* and an activating scan passes over devices it did not have to create.
Reached(s, scan, o) ==
    /\ scan.got[o].kind \in {"good", "bad"}
    /\ Event.power => host
    /\ scan.activate => s.sensors[o].state # "live"
    /\ Scan.needs = "before" /\ o \in NeedsCpu => cpu

Signalled(s, o) == s.changed \cap (IF Scan.anchored THEN {o} ELSE EndsWith[o])

\* Whether the loop looks for the sensor among the changed ones.
Compares(s, scan, o) ==
    /\ ~scan.first /\ Scan.select # "all"
    /\ Scan.select = "name" => s.sensors[o] # NoSensor

\* The null entry is dereferenced to compare a path, where the names are
\* anchored before there is one to compare.
Dereferences(s, scan, o) ==
    /\ Compares(s, scan, o) /\ Scan.select = "name" /\ ~Scan.guarded
    /\ s.sensors[o] = NullSensor /\ (Scan.anchored \/ s.changed # {})

\* Whether it finds one there.
FoundUnchecked(s, o) == TRUE

Found(s, o) ==
    /\ Signalled(s, o) # {}
    /\ Scan.select = "name" => HasSensor(s.sensors[o])

\* The path found is erased and the old sensor given up.
GiveUp(s, o) ==
    LET first == IF Signalled(s, o) = {} THEN {} ELSE {CHOOSE p \in Signalled(s, o) : TRUE}
    IN  [s EXCEPT !.changed = @ \ first,
                  !.stolen = @ \cup (first \ {o}),
                  !.sensors[o] = IF Scan.select = "name" THEN NullSensor ELSE @]

CreatedOnce(s, scan, o) ==
    IF HasSensor(s.sensors[o]) THEN [s EXCEPT !.sensors[o].state = "live"]
    ELSE [s EXCEPT !.sensors[o] = Live(scan.got[o].version)]

Created(s, scan, o) ==
    IF scan.activate /\ HasSensor(s.sensors[o])
    THEN [s EXCEPT !.sensors[o].state = "live"]
    ELSE [s EXCEPT !.sensors[o] = Live(scan.got[o].version)]

CreateFrom(s, scan, o) ==
    CASE Scan.needs = "after" /\ o \in NeedsCpu /\ ~cpu -> s
      [] scan.forCpu /\ Scan.needs = "after" /\ o \notin NeedsCpu -> s
      [] scan.got[o].kind = "good" -> Created(s, scan, o)
      [] scan.got[o].kind = "bad" /\ Scan.bad = "null" -> [s EXCEPT !.sensors[o] = NullSensor]
      [] OTHER -> s

Visit(s, scan, o) ==
    CASE s.dead \/ ~Reached(s, scan, o) -> s
      [] ~Compares(s, scan, o) -> CreateFrom(s, scan, o)
      [] Dereferences(s, scan, o) -> [s EXCEPT !.dead = TRUE]
      [] Found(s, o) -> CreateFrom(GiveUp(s, o), scan, o)
      [] OTHER -> s

\* Contexts and sensors of earlier scans are dropped first.
Before(scan) ==
    [sensors |-> IF Scan.clears /\ scan.listed THEN [o \in Objects |-> NoSensor] ELSE sensors,
     changed |-> changed, stolen |-> {}, dead |-> FALSE]

\* The whole loop, in the order the directories or objects were found.
Loop(scan, order) ==
    LET after[n \in 0 .. Len(order)] ==
            IF n = 0 THEN Before(scan) ELSE Visit(after[n - 1], scan, order[n])
    IN  after[Len(order)]

-----------------------------------------------------------------------------
\* The process starts: its first scan knows no earlier sensors.
Boot ==
    /\ sensors = [o \in Objects |-> NoSensor]
    /\ changed = {} /\ timer = FALSE /\ cpuTimer = FALSE
    /\ scans = <<NewScan(Event.first, FALSE, FALSE)>>
    /\ alive = TRUE

Start(d) ==
    /\ daemon = d
    /\ config = [o \in Objects |-> Published("good", 0)]
    /\ cpu = ~Event.cpu /\ host = TRUE
    /\ events = 0
    /\ missed = {}
    /\ Boot

Init == \E d \in Daemons : Start(d)

\* The configuration of an object appears, changes or goes, and the signal
\* arrives: its path is recorded and the timer starts again.
Change(o) ==
    /\ alive /\ events < MaxEvents
    /\ \E kind \in Kinds :
          /\ kind = "absent" => config[o].kind # "absent"
          /\ config' = [config EXCEPT ![o] = Published(kind, events + 1)]
          /\ IF kind = "absent"
             THEN /\ sensors' = IF Event.removed /\ HasSensor(sensors[o])
                                THEN [sensors EXCEPT ![o] = NoSensor] ELSE sensors
                  /\ UNCHANGED <<changed, timer>>
             ELSE /\ changed' = IF Scan.select = "all" THEN changed ELSE changed \cup {o}
                  /\ timer' = TRUE
                  /\ UNCHANGED sensors
    /\ events' = events + 1
    /\ missed' = missed \ {o}
    /\ UNCHANGED <<daemon, cpu, host, cpuTimer, scans, alive>>

\* filterTimer expires.
FilterTimer ==
    /\ alive /\ timer /\ Len(scans) < MaxScans
    /\ timer' = FALSE
    /\ StartScan(FALSE, FALSE, FALSE)
    /\ UNCHANGED <<daemon, config, cpu, host, sensors, changed, cpuTimer, alive, events, missed>>

\* A processor appears; its timer starts a scan like the first.
CpuAppears ==
    /\ alive /\ Event.cpu /\ ~cpu /\ events < MaxEvents
    /\ cpu' = TRUE /\ cpuTimer' = TRUE /\ events' = events + 1
    /\ UNCHANGED <<daemon, config, host, sensors, changed, timer, scans, alive, missed>>

CpuTimer ==
    /\ alive /\ cpuTimer /\ Len(scans) < MaxScans
    /\ cpuTimer' = FALSE
    /\ StartScan(TRUE, FALSE, TRUE)
    /\ UNCHANGED <<daemon, config, cpu, host, sensors, changed, timer, alive, events, missed>>

\* The host goes off: active sensors are deactivated.  On: a scan activates.
PowerOff ==
    /\ alive /\ Event.power /\ host /\ events < MaxEvents
    /\ host' = FALSE
    /\ sensors' = [o \in Objects |-> IF sensors[o].state = "live" THEN Inactive(sensors[o])
                                     ELSE sensors[o]]
    /\ events' = events + 1
    /\ UNCHANGED <<daemon, config, cpu, changed, timer, cpuTimer, scans, alive, missed>>

PowerOn ==
    /\ alive /\ Event.power /\ ~host /\ Len(scans) < MaxScans
    /\ host' = TRUE
    /\ StartScan(TRUE, TRUE, FALSE)
    /\ UNCHANGED <<daemon, config, cpu, sensors, changed, timer, cpuTimer, alive, events, missed>>

-----------------------------------------------------------------------------
\* The answer to GetSubTree: every object there is, is asked.
List(i) ==
    /\ alive /\ ~Scan.managed /\ ~scans[i].listed
    /\ scans' = [scans EXCEPT ![i].listed = TRUE,
                 ![i].got = [o \in Objects |-> IF config[o].kind = "absent" THEN Unlisted
                                               ELSE Asked]]
    /\ UNCHANGED <<daemon, config, cpu, host, sensors, changed, timer, cpuTimer, alive,
                   events, missed>>

\* The answer to GetAll of one object; an object that went answers no more.
GetAll(i, o) ==
    /\ alive /\ scans[i].got[o] = Asked
    /\ scans' = [scans EXCEPT ![i].got[o] = IF config[o].kind = "absent" THEN Failed
                                            ELSE config[o]]
    /\ UNCHANGED <<daemon, config, cpu, host, sensors, changed, timer, cpuTimer, alive,
                   events, missed>>

\* A call failed, and its repetitions with it.  The objects are then not seen.
CallFails(i) ==
    /\ alive /\ events < MaxEvents
    /\ \/ /\ ~scans[i].listed
          /\ scans' = [scans EXCEPT ![i].listed = TRUE,
                                    ![i].got = [o \in Objects |-> Failed]]
       \/ \E o \in Objects :
             /\ scans[i].got[o] = Asked
             /\ scans' = [scans EXCEPT ![i].got[o] = Failed]
    /\ events' = events + 1
    /\ UNCHANGED <<daemon, config, cpu, host, sensors, changed, timer, cpuTimer, alive, missed>>

\* What is in the map and the history after scan i ran its loop.
Ran(i, scan, order) ==
    LET s == Loop(scan, order)
    IN  /\ IF s.dead
           THEN /\ alive' = FALSE /\ scans' = <<>> /\ changed' = {}
                /\ timer' = FALSE /\ cpuTimer' = FALSE
                /\ sensors' = [o \in Objects |-> NoSensor]
           ELSE /\ sensors' = s.sensors /\ changed' = s.changed
                /\ scans' = RemoveAt(scans, i)
                /\ UNCHANGED <<alive, timer, cpuTimer>>
        /\ missed' = (missed \cup s.stolen
                        \cup {o \in Objects : scan.got[o] # config[o] \/ (Event.power /\ ~host)})
                     \ {o \in Objects : sensors'[o] = Live(config[o].version)}
        /\ UNCHANGED <<daemon, config, cpu, host, events>>

\* The last answer is in: the callback runs as the request is destroyed.
Gathered(scan) == scan.listed /\ \A o \in Objects : scan.got[o] # Asked

Callback(i) ==
    /\ alive /\ Gathered(scans[i])
    /\ \E order \in SetToSeqs(Objects) : Ran(i, scans[i], order)

\* The answer to GetManagedObjects is the whole configuration at once.
ManagedObjects(i) ==
    /\ alive /\ Scan.managed /\ ~scans[i].listed
    /\ \E order \in SetToSeqs(Objects) :
          Ran(i, [scans[i] EXCEPT !.listed = TRUE, !.got = config], order)

\* systemd starts the daemon again.
Restart ==
    /\ ~alive
    /\ sensors' = [o \in Objects |-> NoSensor]
    /\ changed' = {} /\ timer' = FALSE /\ cpuTimer' = FALSE
    /\ scans' = <<NewScan(Event.first, FALSE, FALSE)>>
    /\ alive' = TRUE /\ missed' = {}
    /\ UNCHANGED <<daemon, config, cpu, host, events>>

Next ==
    \/ \E o \in Objects : Change(o)
    \/ FilterTimer \/ CpuAppears \/ CpuTimer \/ PowerOff \/ PowerOn \/ Restart
    \/ \E i \in DOMAIN scans :
          \/ List(i) \/ CallFails(i) \/ Callback(i) \/ ManagedObjects(i)
          \/ \E o \in Objects : GetAll(i, o)

\* Timers expire, calls are answered and systemd restarts what ended; the
\* host comes back.
Progress ==
    \/ FilterTimer \/ CpuTimer \/ PowerOn \/ Restart
    \/ \E i \in DOMAIN scans :
          \/ List(i) \/ Callback(i) \/ ManagedObjects(i)
          \/ \E o \in Objects : GetAll(i, o)

Fairness == WF_scanVars(Progress)

Spec == Init /\ [][Next]_scanVars /\ Fairness

-----------------------------------------------------------------------------
TypeOK ==
    /\ config \in [Objects -> [kind : {"absent", "unmatched", "bad", "good"},
                               version : 0..MaxEvents]]
    /\ sensors \in [Objects -> [state : {"none", "null", "live", "inactive"},
                                version : 0..MaxEvents]]
    /\ changed \subseteq Objects /\ missed \subseteq Objects
    /\ Len(scans) <= MaxScans
    /\ {cpu, host, timer, cpuTimer, alive} \subseteq BOOLEAN

(* An object in use has a sensor made from its current configuration; one  *)
(* that is gone has none, where the daemon follows removals.               *)
Wanted(o) == config[o].kind = "good" /\ (Scan.needs # "no" /\ o \in NeedsCpu => cpu)

InStep(o) ==
    /\ Wanted(o) => sensors[o] \in {Live(config[o].version), Inactive(Live(config[o].version))}
    /\ config[o].kind = "absent" /\ Event.removed => ~HasSensor(sensors[o])

(* When the configuration stops changing, every sensor ends in step with   *)
(* it, except where a scan went by without the current configuration - it  *)
(* was overtaken by the change, a call failed, the host was off, or the    *)
(* path was taken for that of a sensor with a shorter name - and where a   *)
(* guarded daemon holds an entry whose sensor an unusable configuration    *)
(* took away: it is never looked at again.                                 *)
FollowsConfig == \A o \in Objects : InStep(o) \/ o \in missed \/ sensors[o] = NullSensor
SensorsFollowConfig == <>[]FollowsConfig

(* A rescan leaves alone every working sensor that no signal named.        *)
OnlySignalledChange ==
    [][\A o \in Objects :
          /\ alive' /\ scans # <<>> /\ Len(scans') < Len(scans)
          /\ Scan.select # "all" /\ \A i \in DOMAIN scans : ~scans[i].first
          /\ sensors[o].state = "live" /\ EndsWith[o] \cap changed = {}
          => sensors'[o] = sensors[o]]_scanVars
=============================================================================
