------------------------------- MODULE NvmeMi -------------------------------
(***************************************************************************)
(* A drive read over NVMe-MI (src/src/nvmemi).  Its MCTP endpoint comes    *)
(* and goes, and is degraded at times.  A configuration that changes or an *)
(* endpoint that appears starts createSensors, after a delay that gathers  *)
(* events, unless it is running; that closes what there was, and looks for *)
(* the endpoint anew.  A context polls the drive by a thread behind two    *)
(* pipes; pausing it closes its ends of them.                              *)
(***************************************************************************)
EXTENDS Naturals, SequencesExt

CONSTANTS
    MiErrors,           \* errorThreshold
    MaxFailures,        \* maxConsecutiveFailures
    ErrorTicks, StatusTicks,    \* polls between two samples: in error; of the status
    MaxDiscoveries,     \* bound: discoveries under way
    MaxMiEvents         \* bound: events from outside, and failures

MiAssumption ==
    /\ {MiErrors, MaxFailures, ErrorTicks, StatusTicks, MaxDiscoveries} \subseteq Nat \ {0}
    /\ MaxMiEvents \in Nat

VARIABLES
    settings,           \* the sensors configured
    endpoint,           \* "gone", "available" or "degraded"
    reply, hostOn,      \* what the drive answers; the host is on
    creating,           \* createSensorsInProgress
    job, listed,        \* createSensors: where it is, and what it found configured
    filterTimer,
    debounce,           \* the timers for endpoints added and removed, in their order
    leaving,            \* pendingRemovedEids
    knownPath,          \* eidToMctpPath
    paused,             \* pausedEids
    discoveries,        \* discoverMctpEndpoint under way: the step, the sensors to create
    context,            \* in nvmeDeviceMap and commManager
    excused,            \* history: a call failed; a change came while it was not listened
                        \* to; or a discovery ended after the next one was called for
    miEvents

miVars == <<settings, endpoint, reply, hostOn, creating, job, listed, filterTimer, debounce,
            leaving, knownPath, paused, discoveries, context, excused, miEvents>>

drive == <<settings, endpoint, reply, hostOn>>
create == <<creating, job, listed>>
timers == <<filterTimer, debounce, leaving>>

Kinds == {"temperature", "status"}
Replies == {"good", "fault", "nodata", "mute"}
Read == "read"          \* a temperature
NaN == "nan"

NoContext == [sensors |-> {}, open |-> FALSE, timer |-> FALSE, command |-> "none",
              aborted |-> FALSE, failures |-> 0, value |-> NaN, errCount |-> 0, scanDelay |-> 0,
              functional |-> FALSE, statusDelay |-> 0]

Start ==
    /\ settings = Kinds /\ endpoint = "available" /\ reply = "good" /\ hostOn = TRUE
    /\ creating = FALSE /\ job = "posted" /\ listed = {}
    /\ filterTimer = FALSE /\ debounce = <<>> /\ leaving = FALSE /\ knownPath = FALSE
    /\ paused = FALSE /\ discoveries = <<>> /\ context = NoContext
    /\ excused = FALSE /\ miEvents = 0

Init == Start

Event == miEvents < MaxMiEvents /\ miEvents' = miEvents + 1
Exists == context # NoContext

-----------------------------------------------------------------------------
(* createSensors, and handleSensorConfigurations at its end.               *)
Create ==
    /\ job = "posted" /\ job' = "getting" /\ creating' = TRUE
    /\ UNCHANGED <<listed, knownPath, paused, discoveries, context, excused, miEvents>>
    /\ UNCHANGED <<drive, timers>>

\* GetSensorConfiguration.  When the mapper fails, or an object after its
\* repetitions, the callback is given less.
List ==
    /\ job = "getting" /\ job' = "got"
    /\ \/ listed' = settings /\ UNCHANGED <<excused, miEvents>>
       \/ Event /\ listed' \in (SUBSET settings) \ {settings} /\ excused' = TRUE
    /\ UNCHANGED <<creating, knownPath, paused, discoveries, context>>
    /\ UNCHANGED <<drive, timers>>

HandleSensorConfigurations ==
    /\ job = "got" /\ Len(discoveries) < MaxDiscoveries
    /\ job' = "none" /\ creating' = FALSE /\ context' = NoContext
    /\ discoveries' = IF listed = {} THEN discoveries
                      ELSE Append(discoveries, [step |-> "tree", sensors |-> listed])
    /\ UNCHANGED <<listed, knownPath, paused, excused, miEvents>> /\ UNCHANGED <<drive, timers>>

\* addContext refuses a second context.
AddContext(sensors) ==
    IF Exists THEN context
    ELSE [NoContext EXCEPT !.sensors = sensors, !.open = TRUE, !.timer = TRUE]

(* discoverMctpEndpoint: GetSubTree, GetAll.  The new context is polled    *)
(* whether the endpoint is paused or not.                                  *)
Discovered(d) ==
    /\ knownPath' = TRUE
    /\ context' = AddContext(d.sensors)
    /\ excused' = (excused \/ (job # "got" /\ context'.sensors # listed))

Discover ==
    /\ \E i \in DOMAIN discoveries :
          LET d == discoveries[i]
          IN  \/ /\ endpoint # "gone" /\ d.step = "tree"
                 /\ discoveries' = [discoveries EXCEPT ![i].step = "properties"]
                 /\ UNCHANGED <<knownPath, context, excused, miEvents>>
              \/ /\ discoveries' = RemoveAt(discoveries, i)
                 /\ \/ endpoint # "gone" /\ d.step = "properties" /\ Discovered(d)
                       /\ UNCHANGED miEvents
                    \/ endpoint = "gone" /\ UNCHANGED <<knownPath, context, excused, miEvents>>
                    \/ Event /\ excused' = TRUE /\ UNCHANGED <<knownPath, context>>
    /\ UNCHANGED <<paused>> /\ UNCHANGED <<drive, create, timers>>

-----------------------------------------------------------------------------
(* NVMeMiContext.  A drive's temperature and status sensor share a poll.   *)
Blank(c) == [c EXCEPT !.value = NaN, !.errCount = 0]

IncrementError(c) ==
    IF ~hostOn THEN Blank(c)
    ELSE IF c.errCount >= MiErrors THEN c
    ELSE IF c.errCount + 1 = MiErrors THEN [c EXCEPT !.value = NaN, !.errCount = MiErrors]
    ELSE [c EXCEPT !.errCount = @ + 1]

UpdateValue(c, v) == IF hostOn THEN [c EXCEPT !.value = v, !.errCount = 0] ELSE Blank(c)

\* sample of either sensor; that of a temperature forgets no delay when the error is gone.
SampleTemperature(c) ==
    IF "temperature" \notin c.sensors THEN c
    ELSE IF ~hostOn THEN Blank(c)
    ELSE IF c.errCount < MiErrors THEN c
    ELSE [c EXCEPT !.scanDelay = (IF @ = 0 THEN ErrorTicks ELSE @) - 1]

SampleStatus(c) ==
    IF "status" \notin c.sensors THEN c
    ELSE [c EXCEPT !.statusDelay = (IF @ = 0 THEN StatusTicks ELSE @) - 1]

Due(c) ==
    \/ "temperature" \in c.sensors /\ hostOn /\ c.scanDelay = 0
    \/ "status" \in c.sensors /\ c.statusDelay = 0

\* readAndProcessNVMeSensor; on a stream that is closed the write fails, and polls again.
Poll ==
    /\ context.timer
    /\ LET c == SampleStatus(SampleTemperature(context))
       IN  context' = [c EXCEPT !.timer = ~(Due(c) /\ c.open),
                                !.command = IF Due(c) /\ c.open THEN "sent" ELSE @]
    /\ UNCHANGED <<knownPath, paused, discoveries, excused, miEvents>>
    /\ UNCHANGED <<drive, create, timers>>

\* processMiCommand, on the manager's thread.
ProcessMiCommand ==
    /\ context.command = "sent"
    /\ context' = [context EXCEPT !.command = IF endpoint = "gone" THEN "mute" ELSE reply]
    /\ UNCHANGED <<knownPath, paused, discoveries, excused, miEvents>>
    /\ UNCHANGED <<drive, create, timers>>

\* processResponse, for an answer of each kind.
TemperatureRead(c, r) ==
    IF "temperature" \notin c.sensors THEN c
    ELSE IF r = "nodata" THEN IncrementError(c)
    ELSE UpdateValue(c, Read)

StatusRead(c, r) == IF "status" \in c.sensors THEN [c EXCEPT !.functional = (r # "fault")] ELSE c

ProcessedOnce(c, r) == StatusRead(TemperatureRead(c, r), r)

ProcessResponse(c, r) ==
    IF r = "mute"
    THEN [c EXCEPT !.failures = @ + 1, !.timer = (c.failures + 1 < MaxFailures)]
    ELSE [StatusRead(TemperatureRead(c, r), r) EXCEPT !.failures = 0, !.timer = TRUE]

Response ==
    /\ context.command \in Replies
    /\ context' = ProcessResponse([context EXCEPT !.command = "none"], context.command)
    /\ UNCHANGED <<knownPath, paused, discoveries, excused, miEvents>>
    /\ UNCHANGED <<drive, create, timers>>

\* A read that is aborted starts the timer, too.
Aborted ==
    /\ context.aborted
    /\ context' = [context EXCEPT !.aborted = FALSE, !.timer = TRUE]
    /\ UNCHANGED <<knownPath, paused, discoveries, excused, miEvents>>
    /\ UNCHANGED <<drive, create, timers>>

\* close; the handler of a read that is complete may be queued already.
Closed(c, queued) ==
    [c EXCEPT !.open = FALSE, !.timer = FALSE, !.command = IF queued THEN @ ELSE "none",
              !.aborted = @ \/ (c.command # "none" /\ ~queued)]

-----------------------------------------------------------------------------
(* The events of main.                                                     *)

\* PropertiesChanged of the configuration; it is not heard while sensors are created.
ConfigChanges ==
    /\ Event
    /\ settings' \in (SUBSET Kinds) \ {settings}
    /\ filterTimer' = (filterTimer \/ ~creating)
    /\ excused' = (excused \/ job = "got")
    /\ UNCHANGED <<endpoint, reply, hostOn, debounce, leaving, knownPath, paused, discoveries,
                   context>> /\ UNCHANGED create

FilterTimer ==
    /\ filterTimer /\ filterTimer' = FALSE /\ job # "posted"
    /\ IF creating THEN UNCHANGED create
       ELSE creating' = TRUE /\ job' = "posted" /\ UNCHANGED listed
    /\ UNCHANGED <<debounce, leaving, knownPath, paused, discoveries, context, excused, miEvents>>
    /\ UNCHANGED drive

Restarted(t) == Append(SelectSeq(debounce, LAMBDA e : e # t), t)

EndpointAdded ==
    /\ Event /\ endpoint = "gone"
    /\ endpoint' = "available"
    /\ debounce' = IF creating THEN debounce ELSE Restarted("added")
    /\ excused' = (excused \/ (creating /\ leaving))
    /\ UNCHANGED <<settings, reply, hostOn, filterTimer, leaving, knownPath, paused, discoveries,
                   context>> /\ UNCHANGED create

EndpointRemoved ==
    /\ Event /\ endpoint # "gone"
    /\ endpoint' = "gone"
    /\ leaving' = (leaving \/ knownPath)
    /\ debounce' = Restarted("removed")
    /\ UNCHANGED <<settings, reply, hostOn, filterTimer, knownPath, paused, discoveries, context,
                   excused>> /\ UNCHANGED create

AddedTimer ==
    /\ debounce # <<>> /\ Head(debounce) = "added" /\ job # "posted"
    /\ debounce' = Tail(debounce)
    /\ IF creating THEN UNCHANGED create
       ELSE creating' = TRUE /\ job' = "posted" /\ UNCHANGED listed
    /\ UNCHANGED <<filterTimer, leaving, knownPath, paused, discoveries, context, excused, miEvents>>
    /\ UNCHANGED drive

\* handleMctpEndpointRemoved.
RemovedTimer ==
    /\ debounce # <<>> /\ Head(debounce) = "removed"
    /\ debounce' = Tail(debounce) /\ leaving' = FALSE
    /\ IF leaving THEN context' = NoContext /\ knownPath' = FALSE /\ paused' = FALSE
       ELSE UNCHANGED <<context, knownPath, paused>>
    /\ UNCHANGED <<filterTimer, discoveries, excused, miEvents>> /\ UNCHANGED <<drive, create>>

\* handleMctpConnectivityChange: stopPollingForEid and resumePollingForEid.
Degraded ==
    /\ Event /\ endpoint = "available" /\ endpoint' = "degraded"
    /\ IF knownPath /\ Exists
       THEN /\ paused' = TRUE
            /\ \E queued \in {FALSE, context.command \in Replies} : context' = Closed(context, queued)
       ELSE UNCHANGED <<paused, context>>
    /\ UNCHANGED <<settings, reply, hostOn, knownPath, discoveries, excused>>
    /\ UNCHANGED <<create, timers>>

Available ==
    /\ Event /\ endpoint = "degraded" /\ endpoint' = "available"
    /\ IF knownPath THEN paused' = FALSE ELSE UNCHANGED paused
    /\ context' = IF knownPath /\ paused /\ Exists THEN [context EXCEPT !.timer = TRUE]
                                                   ELSE context
    /\ UNCHANGED <<settings, reply, hostOn, knownPath, discoveries, excused>>
    /\ UNCHANGED <<create, timers>>

DriveChanges ==
    /\ Event
    /\ \/ reply' \in Replies \ {reply} /\ UNCHANGED hostOn
       \/ hostOn' = ~hostOn /\ UNCHANGED reply
    /\ UNCHANGED <<settings, endpoint, knownPath, paused, discoveries, context, excused>>
    /\ UNCHANGED <<create, timers>>

Creates == Create \/ List \/ HandleSensorConfigurations \/ Discover
Polls == Poll \/ ProcessMiCommand \/ Response \/ Aborted
\* The drive is polled for ever; the rest comes to an end.
Proceeds == Creates \/ FilterTimer \/ AddedTimer \/ RemovedTimer

Next == Proceeds \/ Polls \/ ConfigChanges \/ EndpointAdded \/ EndpointRemoved
        \/ Degraded \/ Available \/ DriveChanges

Spec ==
    /\ Init /\ [][Next]_miVars
    /\ WF_miVars(Proceeds) /\ WF_miVars(Polls)

-----------------------------------------------------------------------------
TypeOK ==
    /\ settings \in SUBSET Kinds /\ listed \in SUBSET Kinds /\ reply \in Replies
    /\ job \in {"none", "posted", "getting", "got"}
    /\ {creating, hostOn, filterTimer, leaving, knownPath, paused, excused} \subseteq BOOLEAN
    /\ Len(discoveries) <= MaxDiscoveries /\ Len(debounce) <= 2
    /\ context.command \in Replies \cup {"none", "sent"} /\ context.failures \in 0..MaxFailures
    /\ context.errCount \in 0..MiErrors /\ context.value \in {NaN, Read}

\* The context hears the drive: it was not paused, did not give up, and no delay of an error
\* outlived the error.
Hears ==
    /\ context.open /\ context.failures < MaxFailures
    /\ context.scanDelay > 0 => context.errCount = MiErrors

Tells ==
    /\ "temperature" \in context.sensors =>
          context.value = IF ~hostOn \/ reply = "nodata" THEN NaN ELSE Read
    /\ "status" \in context.sensors => context.functional = (reply # "fault")

(* When nothing changes any more, the configured sensors exist exactly if  *)
(* the endpoint does, and as long as the drive is heard, they show what it *)
(* answers.                                                                *)
Follows ==
    ~excused => /\ context.sensors = IF endpoint = "gone" THEN {} ELSE settings
                /\ Exists /\ Hears => Tells
DriveIsRead == <>[]Follows
=============================================================================
