# TLA+ models of dbus-sensors

dbus-sensors is a set of small daemons of a BMC.  Each reads hardware, or talks
to a device over MCTP, I2C, IPMB or shared memory, and shows what it learns as
D-Bus objects.  All of them are event-driven: one thread, one boost.asio
`io_context`, handlers that run to their end.  What is hard in them is not data
races but *order*: what a handler may assume when a reply, a timer, a signal or
a removal comes before or after it was expected.  The models are about that.

Reading order: this file, `RequestChannel` and `MctpRequester`, then any module.
Every action names the function it stands for in its comment or in the map of
`PROJECT.json`; a model keeps the function's guards, early returns and
assignments and abstracts its data.

## 1. The system

| Component (sources under `src/src/`) | State | Operations | What is hard | What makes it correct | Modelled |
|---|---|---|---|---|---|
| GPU requester `nvidia-gpu/MctpRequester` | per endpoint: queue, instance identifier, timer; one socket, one buffer | `sendRecvMsg`, `processQueue`, `handleSendMsgCompletion`, `processRecvMsg`, timer, `handleResult` | late responses, timers that cannot be cancelled any more, a shared buffer, drop paths | requests of an endpoint completed once, in order, with their own answer | `MctpRequester` |
| GPU long-running commands `SerialQueue`, `NvidiaLongRunningHandler`, `NvidiaGpuLongRunningCommand` | slot, queue of tasks, awaited results and their timers | `submit`, `release`, `registerResponseHandler`, `handler`, `onTimeout`, `update` | the slot is freed by a destructor, on any of a dozen paths; events in time, late, lost | one command at a time, in order, none stuck | `LongRunning` |
| GPU clock and power limits `NvidiaGpuClockSpeedControl`, `NvidiaGpuPowerControl` | pending writes, mirror of the device, gate, debounce timer, request buffer | property setters, timer, set and get responses, poll | mirror older than the device; polls between a set and its read-back | the device ends with what was asked; nothing waits for ever | `GpuClockLimit`, `GpuPowerLimit` |
| GPU device manager `DeviceManager`, `NvidiaGpuSensorMain` | devices by name, rescan timer | scan, removal, change | scans that a removal or a change overtakes | devices are those of the configuration | `GpuDeviceManager` |
| GPU, NIC and SMA devices `NvidiaGpuDevice`, `NvidiaPcieDevice`, `NvidiaSmaDevice`, `Inventory`, `NvidiaEventReporting`, telemetry sensors | pending properties, thresholds read, event sources, sensors | chains of requests, each sent by the callback of the one before; polls | any of them fails; timers beside requests; answers with fewer values than before | each chain comes to its end, once; what is shown was told last | `GpuDevice`, `GpuTelemetry` |
| NSM/OCP codecs `NvidiaGpuMctpVdm`, `OcpMctpVdm` | none | encode, decode | answers that are late, cut, of another command, or announce another size | what is decoded was sent | `NsmCodec` |
| MCTP reactor `mctp/MCTPReactor`, `MCTPDeviceRepository`, `MCTPReactorMain` | state per inventory item, failure counts, repository, associations, generations | publish, withdraw, tick, setup, track, removal, defer | replies to devices that are gone, two setups at once, endpoints lost before they are tracked | an item never waits for a reply that does not come; associations go with their endpoint | `MCTPReactor` |
| MCTP devices and endpoints `mctp/MCTPEndpoint` | endpoint, matches, subscription, health | `setup`, `remove`, `onDiscoveryNotify`, `performDiscovery`, `endpointRemoved`, health check, recovery | weak callbacks, signals against replies, pings that overlap | as above; an endpoint is watched unless it is being recovered | `MCTPReactor`, `MctpHealth` |
| MCTP bridge pools, custom devices, heartbeat, USB and IST recovery (`mctp/`) | polling state, failure counts, addresses | timers, retries, resets, commands | retries against answers, removal during a reset, commands that fail half-way | what is associated exists, heartbeats are expected, tests are not disturbed | `BridgePool`, `UsbGadget`, `Heartbeat`, `UsbRecovery` |
| Sensor base `sensor.hpp`, `Thresholds` | value, error count, alarms, hysteresis, delay timers | `updateValue`, `incrementError`, `checkThresholds` | alarms against delayed assertions, availability against power state | an alarm tells whether the value is beyond the threshold | `Sensor` |
| Configuration scans of the sensor daemons `*Main.cpp`, `Utils` | calls under way, paths that changed, sensors | scan, retry, filter timer, signals | scans that overlap, retries that end late, names that end alike | sensors are those of the configuration | `ConfigScan` |
| ADC and hwmon sensors | file, poll timer, power state | poll, activate, deactivate | deactivation against a read under way | as for the base | `Sensor` |
| CPU sensors `intel-cpu/` | CPUs found, PECI clients, timers | ping, rescan, creation, export | one CPU's timer against another's, clients deleted under sensors | a ready CPU has its sensors; detection goes on | `CpuDetect` |
| Fan sensors `fan/` | presence lines, statuses, redundancy, LED | poll, edge, redundancy | waits on a line that rotors share | the daemon waits for edges only where they come | `Fans` |
| External sensors `external/` | age of each value, one timer | write, reap | one timer for all, a wait that ends while it is set anew | values perish, and not early | `ExternalReaper` |
| NVMe and NVMe-MI sensors `nvme/`, `nvmemi/` | list and cursor, context, thread and pipes | poll, pause, degrade, rediscover | removal while a request is out, discoveries that overlap | drives show what they tell; the cursor is valid | `NvmeBasic`, `NvmeMi` |
| Exit-air, MCU, PLX, SMBPBI, PSU readings | readings, poll timers | poll | | | their scans only |
| PSU events `PSUEvent` | what is asserted, per event and combined | poll | sub-events of one event flap between polls | functional iff no file says otherwise | `PsuEvents` |
| PSU redundancy `PSURedundancy` | number of supplies that work | property change | counts changes instead of reading states | redundancy is what the supplies say | `PsuRedundancy` |
| IPMB sensors and status | one request each, initialisation | `read`, `init` retry | calls that overlap, host power against initialisation | polling goes on; a word shown is the reading it means | `IpmbPoll`, in part |
| Chassis intrusion `intrusion/` | status, override, rearm mode | poll, GPIO, rearm | latch against rearm | an intrusion is shown until rearmed | `Intrusion` |
| Leak detection (three daemons) | detector states, shutdown timer, log | GPIO edge, ADC read, policy, shutdown | a leak that clears while the timer runs; two tasks of one detector | a leak leads to the configured reaction, nothing else does | `GpioLeak`, `VoltageLeak`, `DiscreteLeak` |
| Satellite and shared-memory reader `satellite/` | mapping, epoch, sequence numbers | `tryMap`, `readSensor` | torn reads, a writer that restarts | a reading is one the writer published | `ShmSensor` |
| Firmware write protection `nvidia-fw-write-protect/` | reactive graph, domains, pending links | configure, GPIO edge, set | sources that change during a cool-off, entities in any order | protection is what the graph computes | `WriteProtect` |
| nvidia-info | inventory, file | upload, persist, publish | crash between persist and publish | what was accepted is published after a restart | `InfoStore` |
| Cable monitor `cable-monitor/` | expected and connected cables, entries in the log | file event, inventory signal, reconcile | tasks of one cable that cross | an entry is open while its cable is missing | `CableMonitor` |
| OpenOCD forwarder `OpenOCDPortForward*` | listeners, sessions | enable, accept, relay | a start that fails half-way | enabled ports are served, others are not | `PortForward` |
| HMC readiness, synthesized, system, GPIO and status daemons, port control, debug port | one property each | poll or edge | | | no |
| Shared helpers `Utils`, `DeviceMgmt`, `AsyncSet`, `NotifyWatch`, `EntityManagerInterface` | retry deadline, devices, watches | retry, instantiate | retry after success | | with their clients, in part |

Interactions.  The GPU sensor daemon is a manager that owns devices, each device
owns sensors and controls, and all of them send through the one requester; their
callbacks hold weak pointers.  The MCTP reactor follows entity-manager's
configuration and drives mctpd; the GPU daemon's discovery reads what the
reactor published.  The other daemons share only D-Bus and the helpers.

`docs/mctp` of the repository holds a TLA+ specification of its own for the
reactor's design; `MCTPReactor` here is read from the code.

## 2. Modules

| Module | Models | Variables against the code |
|---|---|---|
| `RequestChannel` | what the requester promises | `pending`, `completed`: requests per endpoint |
| `MctpRequester` | the requester | `queue`, `iid`, timers: `EidContext`; `ready`: the io_context; `wire`, `inbox`: the socket |
| `MctpRequesterProofs` | theorems | |
| `MCTPReactor` | one inventory item, its device objects, mctpd | `state`, `failing`, `repo`, `endpoint`, `associated`, generations; `calls`, `inbox`: D-Bus |
| `SerialService` | what a serial queue promises | `line`, `begun` |
| `LongRunning` | queue, awaited results, command helper, poll | `inFlight`, `pending`, `entries`; `ready`: the io_context |
| `GpuClockLimit`, `GpuPowerLimit` | the two controls | the members of the classes; `chan`: the requester; `device`: the hardware |
| `GpuDeviceManager` | which devices there are | `devices`: the three maps; `em`, `subtree`, `getall`, `queries`: the steps of scans; `armed`, `expired`: `configTimer` |
| `GpuDevice` | how one device is set up and polled | `pending`, `tries`, `retry`: `Inventory`; `limits`, `tlimit`: the thermal parameters; `events`: `NvidiaEventReportingConfig`; `chan`: the requester |
| `Sensor` | `struct Sensor`, thresholds, the ADC and hwmon loops, the host's power | `sensor`: the object, its D-Bus properties, its `ThresholdTimer`; `open`, `reads`, `waiting`: the loop; `onTimer`: the wait after power-on |
| `PsuEvents` | the events of one power supply | as in the code; `file`: the hwmon files |
| `ConfigScan` | the scans of fourteen sensor daemons | two records per daemon say how its `createSensors` and `main` differ |
| `NsmCodec` | requests and answers as bytes | `wire`: the message; `got`: what was decoded |
| `GpuTelemetry` | one polled sensor, metric or inventory item | `class`: which; `store`: a vector that outlives the answer; `shown`: D-Bus |
| `MctpHealth` | pings and recovery of an endpoint | members of `MCTPDDevice`; `pings`, `requests`: calls under way |
| `BridgePool` | an endpoint behind a bridge | `predicted`, `introspecting`: the members; `published`, `endpoints`: mctpd |
| `UsbGadget` | the gadget towards a host | `gadget`: the kernel; `gadgetState`: the reactor's state of it |
| `Heartbeat` | the heartbeat process and its ERoT | `doing`, `startup`, `beatTimer`: the process; `socket`, `late`: answers |
| `UsbRecovery` | clear-halt and in-system tests | `usbFailures`, `istInProgress`: the maps and flags; `istNews`: the queue |
| `GpioLeak`, `VoltageLeak`, `DiscreteLeak` | the three leak detectors | members of the classes; `line`, `volt`, `pin`: the hardware |
| `Intrusion` | the chassis sensor | `phase`, `monitor`: the object; `opened`, `alarm`, `edge`: the hardware |
| `PsuRedundancy` | the count of supplies | `workable`, `previous`: the members; `functional`: the supplies; `signals`: D-Bus |
| `WriteProtect` | graph, groups, monitors | `graph`, `links`: as in the code; `setting`: a set and its read-back |
| `ShmSensor` | sequence lock and its sensor | `files`, `written`: the writer's; `mapping`, `reader`: the reader's |
| `InfoStore` | uploads and the file | `file`, `durable`, `temp`: what is on disk, what survives, what is written |
| `NvmeBasic`, `NvmeMi` | drives of a bus; one NVMe-MI endpoint | `polled`, `pollCursor`: the list; `context`, `job`: what `createSensors` makes and does |
| `CpuDetect`, `Fans`, `ExternalReaper`, `IpmbPoll` | those sensors | members of the classes, timers *armed* and *queued* |
| `CableMonitor` | expected cables and their log entries | `pendingCables`, `entries`: the members; `logCalls`: tasks at the logging service |
| `PortForward` | listeners and sessions | `listeners`, `sessions`; `forgotten`: listeners the service let go of |
| `MCDaemons` | one of the modules from `ConfigScan` on at a time | `part`: which one moves |
| `MCTPReactorProofs`, `GpuControlsProofs`, `GpuDevicesProofs`, `SensorsProofs`, `DaemonsProofs`, `ShownProofs` | theorems, section 4 | |
| other `MC...` | the instances TLC checks | |

Conventions.  `ready`, where a module has it, is the FIFO of handlers the event
loop has to run; a handler that is queued cannot be cancelled.  A timer is
*armed*, then its handler is queued, then it runs.  `Fail` of a request covers a
refused, unsent, lost, late and undecodable one.  Constants named `Max...` are
bounds of the model and appear only in guards of environment actions, and of
steps that would start another delayed alarm.

`MCGpuControls`, `MCGpuDevices`, `MCSensors` and `MCDaemons` instantiate
components that share no state and do not call each other.  A behaviour of such a
module exercises one of them; the others start without input and stay still.
Every behaviour of each component is there, and the states add up instead of
multiplying.

The invariants of `MCDaemons` name those of its parts: `ShownIsTrue` what
codecs and telemetry decode and what protection, shared memory, the chassis,
redundancy and IPMB show, `EndpointsAreWatched` those of section 2.7,
`ServiceGoesOn` that what a daemon has to do next is arranged for (sections 2.9
and 2.11), `StoreSurvives` the stored inventory, `ShutdownsAreDue` the leak
detectors.

### 2.1 The requester

`MctpRequester` keeps one FIFO of requests per endpoint.  The front is sent with
the next instance identifier, its timer is armed when the send completed, and it
leaves the queue with a result: a response whose identifier matches, a timeout,
a send error.  A request is copied when it is submitted, so its owner may reuse
its buffer.  All of this goes through one socket with one receive buffer and
one sender address.  A receive is *performed* when its handler is queued: the
handler brings the length of its own datagram (`size`), and finds the bytes and
the sender as the last receive left them (`buffer`).  `buffer.head` is the
datagram that the byte with the identifier is of: an empty datagram overwrites
the sender and leaves that byte.  A fatal error ends the process, which systemd
restarts.

With two receives pending a callback may therefore be told success with bytes
that are not one datagram: cut off or with a foreign tail (`"mixed"`), or a
header of one datagram under the sender of a shorter one (`"patched"`); and a
valid response may be dropped, its length being another's.  The code does this,
and `AnswerMatchesRequest` says exactly when: only when another datagram was
received behind the one whose handler runs.  In every other case the answer is
whole and the request's own; a mixed one still begins with the request's own
response, a patched one may be another's.

It implements `RequestChannel`: completion once, in order, nothing lost but with
the process.  The other GPU modules use that abstraction: a request in their
`chan` or `outstanding` is completed once.

Two statements in the code do not hold (`requester_listening`,
`requester_timeout`): the drop paths do not receive again, and a queued timer
handler can time out the request after its own.  The model also takes a step
that no run asks about: `handleResult` can meet an empty queue (a queued timer
handler after the response, or two receives of one datagram), takes its front
all the same, and the process is taken to end there.

### 2.2 The MCTP reactor

One inventory item is modelled: items are independent, but for
`isRetrying(0)`, which asks for any, and the loop of `tick`.  `Unmanaged` is an
item without state.  The device objects of successive publications are told
apart: callbacks hold weak pointers, and `repo`, `failing`, the cycle between a
device and its subscribed endpoint, or a `Remove` under way keep one alive.
mctpd serves calls in order; replies and signals come in order on one
connection.  A setup that timed out but succeeded later is an error reply with
an endpoint published.  A republication at another address throws in
`addDevice` and changes nothing.  The setup that a failed health check asks for
is the one `DiscoveryNotify` asks for without an endpoint.  An mctpd restart
makes the reactor exit: `Init`.

`CHECK_DEADLOCK FALSE`: device objects that are never released use up the
bounded pool `Devices`, and a crash (`Crashed`) stops the system.

`reactor_stuck` shows an item that stays Recovering with nothing under way: its
setup was answered with an endpoint that `DiscoveryNotify` had made before.
With a bus owner's discovery or failing subscriptions the model also reaches, as
the code does: a failure counted for a device that was terminated, which keeps
its object; an item Quarantined by a subscription that fails after a setup that
succeeded; a device object kept by its endpoint whose late reply moves the state
of its successor; and the exception for a device the repository does not know.
The passing runs are therefore in two groups: without discovery every property
holds; with it the ones that do not depend on the item being answered.

### 2.3 Long-running commands

The slot of `SerialQueue` is held by a move-only handle.  The model does not
keep the handle but the places that can capture it: a posted task (which makes
it), the callback of a request, an awaited result.  `SlotHeldOnce` says that
exactly one of them exists when the slot is taken; every early return of the
command helper is a way to break it.  Commands implement `SerialService`.
Destroying the GPU at any point destroys the queue, unless a posted task keeps
it; the map of awaited results survives, held by the static event handlers.

`try_emplace` never finds its key taken: that follows from `SlotHeldOnce`, so
its branch is in the model but never taken.

### 2.4 Clock and power limits

Both gather the two writes of a PATCH with a debounce timer and send one set at
a time, behind a gate (`OneSetOutstanding`).  The clock control keeps the gate
closed until the read-back, and with one set at a time the device ends with what
was asked for (`ClockAppliedAsAsked`, while nothing failed).  The power control
opens its gate with the response to the set: an enable without a cap may then be
filled up from a mirror that is older than the last set.  `clock_gate` shows
that the answer to a poll queued between a set and its read-back opens the gate
as well.  A timer whose handler is queued runs even if a write re-armed the
timer; `queued` counts such handlers.

The device sets the limits it is given and tells them when read; after a revert
it may tell the old one-shot limit or none.

### 2.5 Devices of the GPU daemon

A scan is a tree of calls: the configurations, the endpoints for each, the
properties of each endpoint, the identification of each device.  Nothing tells
the steps of a scan that a removal or another scan came in between.
`OnlyOvertakenSurvive` says how far that goes: a device without configuration is
there only if its removal met a scan for it under way (which makes it again), or
is still to be handled.  `EndpointsAreFound` says that a scan that is asked for
finds what is there.  Endpoints that are published after a scan are not looked
for: nothing in the daemon watches them.

`GpuDevice` follows one device.  Its chains (inventory, thermal parameters, event
sources) have one continuation each until they end (`OneContinuation`), and end
whatever fails (`SetUpCompletes`).  The queries of a NIC and of an SMA are made
once: after one failure the device stays without the sensors they describe.
Polls do not wait for the answers to the last one, so the requests of a silent
device pile up; the model bounds the polls.

### 2.6 Sensors

`Sensor` puts the base class, its thresholds and two pollers in one module,
because what is hard is how they call each other: `markAvailable(false)` sets a
property whose setter calls `updateValue(NaN)`, which marks the sensor
unavailable again.  Each such operation is an operator from a sensor to a
sensor, and an action applies one.  Low alarms of ADC sensors are raised five
seconds late, so that a host that goes off raises none; their ends are delayed
too while one is waiting (`delays`).

A sensor that is off or failing is blank (`UnavailableIsBlank`), with two
exceptions that the code has.  A client's new threshold makes it forget the
value but not what it shows: when it then becomes unavailable, the value to
withdraw is taken for withdrawn already (`invalidated`).  And the handler of
the ten-second wait after power-on may be queued when the host goes off again:
it runs, and the host counts as on until a later signal.  `misled` remembers for
good that this happened, because a delayed alarm raised meanwhile outlives the
next signal.

A hwmon sensor that is deactivated while a read is pending goes on polling until
it finds the file closed; one activated meanwhile has two loops, which meet at
the one timer.  An ADC sensor whose file cannot be opened again is never read
again.

`PsuEvents`: a file that clears while another of its event is set keeps its
value 1, so its next assertion is no change; when the other clears, the event is
deasserted for good (`psu_event`).

### 2.7 MCTP endpoints: health, pools, gadget, heartbeat, recovery

`MctpHealth`.  Pings do not wait for the answers to the last ones, so failures and
successes of two checks interleave.  `IsWatched` says that an endpoint that is set
up has its health timer, or a recovery and its timer, or was degraded by mctpd;
`OneLog` that an outage is logged once.  One history (`unwatched`) is exempt: a
failure starts the recovery and the other ping's success ends recovery mode, while
the health timer stays cancelled.  After a recovery timeout a single failure
recovers again.  A failure of a removed endpoint's ping that was one short of the
threshold still counts.  `MCTPEndpoint.hpp:368` says "never removed";
`endpointRemoved` clears the set.  The EID of a pool is not learned again.

`BridgePool`.  mctpd sets these endpoints up; the device predicts the EID and
waits for it.  `AssociatedExists`: no association outlives its endpoint
unnoticed.  `FollowsPool`: at rest the item has the endpoint at its place, but for
a device that is `misled`: a failed `Introspect` counts as "not present", and a
device goes on waiting for the old EID when `PoolStart` changes.  An item
withdrawn in Quarantine is associated later; withdrawal in Recovered does nothing.

`UsbGadget`.  `AssignedIsSetUp` relates what the reactor associated to what the
kernel has, `HostIsNotified` says of which changes the host is told, and
`IsServed` that an item that is published is served in the end.  A Discovery
Notify fails at its socket, the socket's option, the interface or the datagram with
a line in the log and is not sent again: the host is left behind until the next
change (`unheard`).  Nor is it told of a change of an endpoint that was an
address of the BMC when mctpd was asked; an error of that call leaves none known, and
each change is told.  The setup reports
`errno`, which may be of an earlier call: `EEXIST` makes it associate an endpoint
without address, 0 makes it report success without an endpoint, and the item stays
Assigning.  A netfilter rule that fails ends the rules but not the setup;
`remove()` undoes nothing; `netLocalEIDs` are the BMC's addresses at the
time of the last setup.

`Heartbeat`.  The answer that is first in the socket is the command's, so a late
one is taken for the next command's (`mistaken`).  Answers of an ERoT that went
away stay in the socket or come later; the model keeps them apart as `"old"`,
because one that is taken for the answer to a command of the ERoT that is there
now is a mistake as well, though the command is the same.  A send that fails
does not read the socket.  `BeatsAreExpected` says that heartbeats go to an ERoT
that was told to expect them, or whose signal is still to be handled.  A start-up that fails, at a command, at the look for
the endpoint or because the service cannot make its socket, leaves no heartbeat
until the endpoint is added again (`gaveUp`).  A timer handler queued at
`stop()` goes on heartbeating.  `EndIsTold` says that an ERoT which expects
heartbeats is told of the restart when SIGTERM comes.

`UsbRecovery`.  `TestIsKnown` says that the reactor knows of an in-system test
that runs, unless a call to its service failed or is still to be answered.  A
re-attachment that fails leaves a device without driver until it is plugged
again; a mapper or `Get` that fails lets the clear-halt through;
`ForceUSBRecovery` does not ask about tests.

### 2.8 Scans, codecs, telemetry

`ConfigScan` describes fourteen daemons by two records each, because they share
the skeleton and differ in the guards.  `OnlySignalledChange` says that a rescan
touches a working sensor only when a signal named it or one whose path ends with
its name (`EndsWith`: the comparison is `ends_with`), `FollowsConfig` that the
sensors are those of the configuration in the end, unless the last scan went by
without it (`missed`).  A scan that waits ten seconds to repeat a call ends after
one that was started later.  An external sensor that cannot be built leaves a null
entry, which the next rescan dereferences before it looks which one changed.

`NsmCodec`: `DecodedIsSent`.  What is decoded is the answer to the command that
was asked, as the device sent it, whatever was cut off or came late.  Two
decoders check less: power draw ignores the command code of the answer, the
driver version the announced size.  `GpuTelemetry`: `ShownIsLastSeen`, except
where an answer has fewer values than the vector that outlives it.

### 2.9 Leaks, intrusion, redundancy, fans, cables

`GpioLeak`: the task that reads the line once and the task that waits for edges
give way while the log and systemd answer, and cross (`overlapped`): an entry
stays open, or the wrong unit is started.  Otherwise `LineIsShown`.  A removal may
erase the detector while a task waits for such an answer.  The task goes on with
freed memory, which the model takes as any unit or none started, or the process
ended and started again (`Dangles`); what it does with the log before is well
defined, and may cross the tasks of the next detector.

`VoltageLeak`: `OffIsDue`, `LeakIsOff`.  A steady voltage counts once, because a
reading equal to the last is not looked at; a fault between two readings does not
reset the count, though `LeakDetectSensor.cpp:285` says "3 or more consecutive";
a queued handler outlives its detector.

`DiscreteLeak`: generations withdraw a shutdown whose handler cannot be
cancelled (`ShutdownIsDue`).  The policy is looked for once: a mapper that fails, or
a policy that comes later, leaves the detector without one for good, and no leak
it finds turns anything off; a match that cannot be installed leaves it with the
policy as it was read then.  `LeakIsOff` is about detectors that have a policy
and know its last change.

`Intrusion`: `IntrusionIsShown`, `ChassisIsShown`.  With manual rearm a GPIO
line does not report an intrusion after open, close, rearm, open; an open
chassis is not read when the sensor is created; a new configuration may leave
the daemon without its GPIO sensor.

`PsuRedundancy`: `RedundancyIsCounted`, for the signals that were seen.
`RedundancyLost` stays TRUE when redundancy is regained, and becomes FALSE when the
count leaves bare sufficiency upwards and is still too low.

`Fans`: the rotors of a fan share one `EventPresenceGpio`, and each asks it to
monitor.  One edge completes all waits; the first handler reads the event, the
second blocks in `event_read`, and the whole daemon with it, until the next edge,
though `PresenceGpio.cpp:124` says "Read is invoked when an edge event is
detected".  `EdgesAreAwaited` says that this is the only way to block, that no
line loses its wait, and that the redundancy is that of the statuses;
`FansAreShown` what is shown at rest.  Low alarms are delayed, so a slow fan never
counts as failed; fans that are absent or unreadable keep their last status;
`createRedundancySensor` forgets statuses until the next readings.

`CableMonitor`: `FileIsWatched`, `CablesAreShown`.  Entries stay open when tasks
of one cable cross, when it is logged missing twice (every update logs a missing
cable again, and `emplace` keeps the first entry), when a call fails, and when
it was taken away while not expected.

### 2.10 Protection, shared memory, storage, drives

`WriteProtect`: `ShownIsCombined` at every step - an output is the AND or OR of
its sources in whatever order the entities came -, `FollowsInputs` at rest: an
edge during the cool-off is read afterwards.

`ShmSensor`: `ShownIsWhole`, a reading is a record the writer published.  Exempt
is what the sequence lock cannot see: a writer that crashed in the middle of a
record and whose successor comes back to the same number while a reading
crosses.

`InfoStore`: `AcceptedIsPublished`.  What an upload was told is stored is in its
file and published, restart or not, and what is published agrees in its counts.
Two things are said of where this ends.  `unpublished`: a socket is not published in
this run of the daemon when an upload of it failed, or when its file could not be
opened or read, was refused, or failed to be published while the daemon started; a
failure that is no `InfoError` leaves all files behind it as well.  The file stays
in all these cases but the refusal, so a later start publishes it.  `atOdds`: an
upload is compared with what is published, not with what is stored, so files of
unpublished sockets may come to disagree, and then one of them is removed at a
restart although it was accepted.  `NvidiaInfo.cpp:651` rolls back "so [D-Bus
state] still matches [on-disk state] (the previous good file, or none)": after an
upload that cannot be stored D-Bus has nothing while the older file stays, and a
restart publishes it.  The directory is not synced, so a loss of power may bring
back the file before, or none; what counts as accepted is then what is there.

`NvmeBasic`: `CursorIsValid`, `ShowsWhatTheyTell`.  A drive removed while its
request is out stops the polling of its bus until the next configuration.  A
failed ioctl for the PEC would send the last answer again.

`NvmeMi`: `Follows`, but for what `excused` marks (a call that failed - the list
of configurations may then lack some, or all -, changes it did not listen to) and for a drive that is not heard any more.  Degraded closes
the ends of the pipes and Available only restarts the timer, so nothing is read
until a new configuration, though `NVMeMiSensorMain.cpp:622` says "resume normal
polling".  Three failures end polling with the last values shown.  A discovery
that ends after a later `createSensors` installs old settings.  An endpoint added
while `createSensors` runs with a removal pending is lost, and configuration
changes during it are ignored.  The manager's thread holds the mutex of the
contexts while it sleeps.

### 2.11 Processors, external values, IPMB, forwarding

`CpuDetect`: `DetectionGoesOn`, `PollsUnlessExported`, `ShowsCpus`.  A PECI lock
that fails drops the creation timer of an earlier CPU; a CPU once READY stays
so; a configuration that cannot be read empties the list; exporting again
deletes the client under sensors, which keep their last value.

`ExternalReaper`: `ReaperIsSet` - a value that perishes has a wait that ends in
time, or a handler queued - and `AllReaped`.

`IpmbPoll`: `PollingGoesOn`, `ShownIsMeant`, `FollowsHost`.  Calls overlap when
the device is slow.  The word 0xFFFF of a nine-bit reading is −1 and taken as
missing.  A failed initialisation is only logged.

`PortForward`: `EnabledIsServed`.  A start that fails at one port leaves the
listeners before it accepting (`forgotten`), also while disabled, and their
ports taken until a restart.  A handler queued at the disabling starts a session
after it (`lateSessions`).

## 3. Runs

| Run | Bounds | Shows |
|---|---|---|
| `requester` | 2 endpoints, 2 requests, 2 identifiers, 1 stray datagram, 4 lengths (none, short of a header, a header, with data), 1 error | matching, nothing stranded, implements the channel, every request completes |
| `reactor` | 3 device objects, 3 endpoints, 3 calls, no discovery | waiting items have a setup, associations have endpoints, published items get associated, withdrawn ones released |
| `reactor_discovery` | 2, 2, 2, with `DiscoveryNotify` and failing subscriptions | types; a lost item is bare |
| `gpu_controls` | 3 commands (one without a request), 6 submissions; 3 writes, 1 poll, 1 failure, 2 queued handlers of each control | one holder of the slot, serial service, every submission ends; applied as asked, one set, no resurrected cap, nothing waits |
| `gpu_devices` | 2 configurations, 1 endpoint, 2 types, 3 signals, 1 loss; 2 properties, 2 event types, 2 ports, 3 attempts, 2 polls, 4 failures | only overtaken devices survive, endpoints are found; one continuation, set-up ends |
| `sensors` | 4 readings around 1 threshold, 2 delayed alarms, 3 signals, 2 writes; 3 files of 2 events, 5 changes | unavailable is blank, alarms in order and eventually right; a clear supply is functional |
| `daemons` | see below | all that section 2.7 and the following name: what is decoded, shown, stored and turned off is true at every step, and everything follows its inputs when they rest |
| `requester_listening`, `requester_timeout`, `reactor_stuck`, `clock_gate`, `psu_event` | as above or smaller | findings |

Why the bounds are enough.  Endpoints of the requester interact through the
socket and its buffer, so two show every interaction; two requests are one in
flight and one waiting, or one submitted by a callback; with two identifiers an
old response meets a wrapped identifier at once.  Device objects of the reactor
are a device, its successor and the one after.  Six submissions are two rounds of
commands: the second meets what is left of the first.  Two limits and three
writes give each bound a first value, a different one and a write in between.
Endpoints of the GPU daemon are independent but for the order of configurations,
so one endpoint and two configurations show what scans do to each other; four
failures are a property given up and one more.  The readings are clear of the
threshold, within the hysteresis, within the publication hysteresis and beyond,
for both directions.  Five changes let two files of an event assert, one clear
and assert again, and the other clear.  Error limits (five reads, ten reads) are
lowered to two.

Bounds of `daemons`.  Two scans are enough for one to overtake the other; two
objects of which one needs the CPUs and ends with the other's name show both
filters, for each of fourteen daemons.  Two events are a change and one that meets
the scan for it.  Instance identifiers 0 and 32 differ in the bit that is masked
off.  The graph of `WriteProtect` has an input, a setting, a group of both and a
domain of the group and of one of its sources, so an output is reached on two
ways.  Four supplies with redundancy at three and sufficiency at one cross each
limit.  Two sockets can disagree; three uploads replace one.  Two drives are one
whose removal meets the cursor at the other.  Two discoveries and two pings
overlap.  Two pool starts are a pool that moves.  Two CPUs, two fans (on one line
or two) and two ports (one that fails after one that did not) show what one does
to the other; cables do not interact but through the file, so one is enough.
External values are good for one tick, two, and ever.  Words of IPMB are the
corners of each format.  Thresholds and retries are two, or three where the code
fixes them.  The bounds on events leave room for a fault, its repair and a second
one.

`CHECK_DEADLOCK FALSE` in `daemons`, `reactor...`, and wherever a cfg says so:
daemons rest when nothing happens, and the environment's events are bounded.

Fairness.  The event loop runs what is ready, time passes, reads end, and (of a
client of the requester) every request completes, which `requester` shows of the
requester.  The devices run assumes that calls on D-Bus are answered, with an
error at worst; the reactor run that mctpd answers calls and the clock ticks.
In `daemons` each part has weak fairness of its own handlers, timers and
answers, by kinds where one kind could starve another (timers of `MctpHealth`
against answers, the polls of `NvmeMi` and of each fan, the tasks of
`CableMonitor`); the endpoint's signals of `Heartbeat` have strong fairness,
because blocking commands disable them again and again while the kernel keeps
them queued.  Of devices, D-Bus clients, entity-manager, the host and the files
nothing is assumed.

## 4. Proofs

Every theorem holds for all values of the constants: any number of endpoints,
devices, sockets, fans or processors, and any value of the bounds, which are
natural numbers and no more in the proofs.  The assumptions are the named
`...Assumption`s of the modules, which TLC evaluates on every run.  They are
types, and what follows: the commands of a long-running poll form a non-empty
sequence that one poll submits within the bound; `Configs`, `Eids`, `FanNames`,
`Objects` and `Drives` are finite (they are counted, or put in a sequence); there
is a drive and a word of IPMB; the daemons of `ConfigScan` are among those its
tables describe, and one scan at least is allowed (each starts with one); a
heartbeat is attempted once at least; the number of instance identifiers is
positive.

An invariant is proved by a stronger one that is inductive, with one lemma for
each operation that several actions share and one step for each action.

### 4.1 The requester (`MctpRequesterProofs`)

- `TypeCorrect`; `NeverStranded` (`NoRequestStranded`): each queued request has a
  send completion, a timer or a queued timer handler to come; `OneAtATime`: only
  the front of a queue is on the wire without a result.  The invariant says which
  of the three the front of each endpoint has.
- `Refinement`: every step is a step of `RequestChannel` or changes nothing in it,
  by `QueueInv`: requests in queues are distinct, issued, without result.
- `AnswersMatch` (`AnswerMatchesRequest`, an action property): under `[]Prompt`,
  the answer a client is given is that to its request, and whole unless another
  receive has overtaken its handler.  `BufferInv` gives the second half: the last
  receive handler in the queue brings the length of the datagram in the buffer.  `AnswerInv` says of every response under way, at
  the device, in the socket or in the buffer, that the distance of its identifier
  from the endpoint's current one is the number of requests sent to the endpoint
  since, modulo `NumIids`.  Identifiers are reused, so the property is false
  without a hypothesis: a response older than `NumIids` requests matches by
  chance.  `Prompt` excludes just that, at the moment such a response is in the
  buffer; identifiers of the code are of 5 bits, so it takes 32 requests that time out
  or complete while one response is under way.
- `FewRequestsMatch`: with at most `NumIids` requests `Prompt` always holds, which
  is the instance that `requester` checks.

### 4.2 The reactor (`MCTPReactorProofs`)

- `TypeCorrect`, and `LostHasNoAssociation` (`LostIsBare`), with everything on.
- `WaitingIsAnswered` (`WaitingHasSetup`), without `DiscoveryNotify` and failing
  subscriptions (`~Discovery /\ ~Faults`, the settings of `reactor`).  Neither
  hypothesis is for convenience: `reactor_stuck` shows that it fails with
  `DiscoveryNotify`, and section 2.2 what a subscription that fails does.
- Without `DiscoveryNotify`, failing subscriptions included (`~Discovery`):
  `AssociationsAreOwned` (`AssociationIsTracked`), `SetUpIsAssociated`
  (`AssignedIsAssociated`), `NoRemoveDuringSetup` (`RemoveNeverRacesSetup`).  With
  `DiscoveryNotify` TLC finds the first two violated; the third it finds to hold at
  the constants of `reactor_discovery`, and the proof does not cover it.

`FlightInv` says that at most one setup is under way, for the device of an item
that waits for it, and that nothing of a discovery is.  `OwnerInv` says in which
states the device has an endpoint, that the endpoint is tracked and associated
where the item counts as set up, and that no two devices have the same one.  After
a subscription that failed, a waiting item has no setup under way and its device
an endpoint that is not tracked: `OwnerInv` says of that case only this, and
`WaitingHasSetup`, which it breaks, is not part of it.

### 4.3 The GPU daemon

`GpuControlsProofs`, of the long-running commands:

- `TypeCorrect` with `Budget`: at most one poll is in the event loop and what it
  submits is within the bound.
- `SlotIsHeldOnce`: `SlotHeldOnce` is not inductive, because the end of the queue
  hides the holders.  `Slot` keeps them apart by their places (`outstanding`, the
  handlers that hold the handle, the awaited results): at most one place has a
  member, and only one, whether the queue exists or not.
- `SerialRefinement`: every step is a step of `SerialService` or changes nothing
  in it.  `Slot` gives the line its shape: no job is under way, or one waits for
  its posted task, or one runs, with `pending` behind it (`LineOf`, `ShapeOf`).

The same module, of the composition with the two controls:

- `ClockEndsAsAsked` (`ClockAppliedAsAsked`), by `ClockInv`: what the gate lets out
  (`ClockGate`), and what each phase knows of the limits asked, in the buffer and at
  the device (`ClockKept`).
- `DisabledCapIsForgotten` (`DisabledCapForgotten`, an action property), by
  `PowerInv`: the same for the cap, with where a forgotten cap can still be.
- `OneSetIsOutstanding` and `ControlsTypeCorrect` from both and `TypeInv`.

`GpuDevicesProofs`:

- `NoDeviceReturns` (`OnlyOvertakenSurvive`), by `SurviveInv`: every configuration in
  a list, a path, a query or a device is there, or its removal is still queued
  behind, or it met the scan and is marked.
- `ChainsGoOn` (`OneContinuation`), by `DeviceInv`: of each chain what may be in the
  channel, in the timer and in the pending set (`Chains`), and that properties
  asked for are pending (`AsksPending`), from which `DevicesTypeCorrect` follows:
  the retry counter stays within its bound because a property that was given up is
  not asked for again.

### 4.4 Sensors (`SensorsProofs`)

- `UnavailableShowsNothing` (`UnavailableIsBlank`) and `AlarmsFollow`
  (`AlarmsInOrder`, an action property), for all readings and thresholds, by
  `SensorInv`: what every operation of `sensor.hpp` keeps of the sensor's record,
  proved for each operator once.
- `SensorsTypeCorrect`.

### 4.5 The small daemons (`DaemonsProofs`, `ShownProofs`)

`DaemonsProofs`:

- `AcceptedOutlivesRestarts` (`StoreSurvives`), by `StoreInv`: as long as the
  files agree in their counts, what was accepted is in the file, and what is
  published is what the file says, is about to, or belongs to a socket that this run
  withdrew or passed over, whatever failed on the way.
- `OffOnlyForLeaks` (`ShutdownsAreDue`, an action property), by `DiscreteInv`: a
  timer armed or queued of the current generation belongs to a leak; and
  `VoltageInv`: a shutdown pending belongs to a detector in leak.
- `ServicesGoOn` (`ServiceGoesOn`), by `ServicesInv`: `CpuInv` (a CPU that is due has
  the ping timer, or the creation timer with the flag that pings afterwards),
  `IpmbInv` (one wait, and calls and handlers that are one or two with it),
  `CableInv`, `ReaperInv`, `ForwardInv` (sessions are finitely many and within
  the limit), `FanInv` (a line of one rotor has exactly one wait or read, and a read
  has its edge).
- `EndpointsStayWatched` (`EndpointsAreWatched`), by `EndpointsInv`: `WatchInv` and
  `LogInv` of `MctpHealth` (which of the two timers is set in each state; the
  failure count while an endpoint is recovered), `PoolInv` (the last queued signal
  tells whether the endpoint exists), `UsbInv` (the last of the news and replies
  under way tells the state of the test), `GadgetInv` (a reply is awaited once, and an
  address not yet notified is known, in the mail, or one whose own notification
  failed), `HeartInv`.  While the process
  runs, `RunInv`: an answer to "enable" in the socket is one of an ERoT that
  expects heartbeats, and an ERoT that is there has "added" last in the queue.  Once
  SIGTERM came, `EndInv`: an answer to "restart" is one of an ERoT that started
  again, and nothing is sent after it that would make it expect heartbeats.  Without
  a service, because no endpoint was met or its socket failed, nothing is sent at
  all (`QuietInv`).

Two of these attempts failed for a good reason and corrected a model: in
`Sensor`, `misled` was forgotten at the next signal although its delayed alarm
was not, and the types let more verdicts through than there are; in `Heartbeat`,
`BeatsAreExpected` did not hold with more than three events, because an answer of
an ERoT that had gone counted for its successor.  `MaxBeatEvents` is 4 since.

`ShownProofs`:

- `ShownStaysTrue` (`ShownIsTrue`, but of codecs and protection), by one invariant
  of each part.  `TelemetryInv`: what is not shown as it was seen last has a place
  in the vector of earlier answers.  `ShmInv`: a reader that has taken an even
  sequence number and finds the same at the end has copied what the writer had
  under it, over unmapping, restarts of the writer and any number of retries.
  `ChassisInv`: what the sensor shows in each phase of its monitoring.  `PsuInv`: the
  count is that of the supplies that work, corrected by the signals still under
  way, unless a signal was not seen.  `IpmbValueInv`: each word shown is what the
  format means by it; the definition by the code, with masks and shifts, and the
  one by two's complement are proved equal over all 16-bit words.
- `RescansAreQuiet` (`OnlySignalledChange`, an action property), by `ScanInv`.  A scan
  ends in a loop over the configurations, each of which may change the sensors,
  the paths that changed and what was found.  The loop is a recursive function of
  the position, and what it keeps of one sensor is proved by induction on that
  position: well-founded induction over sets of naturals (`AllNumbers`), because
  the induction theorem with an operator parameter cannot be used.
- `TypesAreKept` (`DaemonsTypeOK`, of the eight parts in `TypedParts`): from those
  invariants and three more.  `ProtectInv` says that no node of the graph is left
  between two steps; `BasicInv` that no drive is twice in the list of a bus and that the
  cursor is in it, whichever drive is removed while a request is out; `IpmbCounts`
  that calls and waits are at most two.

What the proofs changed in the models: `Loop` of `ConfigScan` was a fold and is a
recursive function; the removal of a drive in `NvmeBasic` erases at the position
that was found, as the code does, and not every equal element; the cases of
`PsuRedundancy` are disjoint.  The behaviours are the same.

### 4.6 What TLC checks alone

- Liveness under fairness (`EveryRequestCompletes`, `EveryJobEnds`,
  `DaemonsSettle` and the others): out of the prover's reach.
- `ShownIsTrue` of the codecs and of protection.  The codecs are folds over
  concrete messages, which are evaluated, not reasoned about; the outputs of
  `WriteProtect` by a recursion over the graph and a queue of nodes, which ends
  because groups form no cycle: both are induction over data.
- `DaemonsTypeOK` of the other parts: what the invariants of `DaemonsProofs` need
  of it is part of them.
- The findings, which are counterexamples.

## 5. Plan

In order of importance:

1. Proofs: the types of the other small modules; `RemoveNeverRacesSetup` of the
   reactor with `DiscoveryNotify`, where two setups may be under way; the
   requester without `Prompt`, for identifiers that are not used again while a
   response to them is under way.
2. `MCTPReactor` composed with `UsbRecovery` and `BridgePool` in one state, now
   that each is checked with the part of the reactor it meets.
3. The IPMB status daemon and the SDR walk, the NVMe status daemons, port control.

Not modelled, and why:

- exit air, CFM and PSU readings: arithmetic in floating point, on data whose
  protocol is that of `Sensor`;
- parsing of configurations, thresholds, SDRs and schemas: functions of text;
- `PwmSensor`, presence by polling, MCU, PLX, SMBPBI poll loops: blocking
  reads behind a timer, one handler each;
- the walk of remote SDRs: `sdrHandler` takes the map of devices by value
  (`IpmbSensorMain.cpp:32`), so its device object is gone before the first answer
  and there is nothing after the first request; `IpmbStatus` reads through a
  connection whose event loop does not run;
- HMC readiness, synthesized and system sensors, the GPIO and status daemons,
  port control and the debug port: one bit or unit state copied to one property;
- `DeviceMgmt` and `AsyncSet`: a blocking write to sysfs, and one call with a
  wait;
- the network links of the intrusion daemon, `triggerInventoryRefresh`, the
  attributes of the USB gadget: steps nothing modelled depends on.
