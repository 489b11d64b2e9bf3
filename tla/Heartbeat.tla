------------------------------ MODULE Heartbeat ------------------------------
(***************************************************************************)
(* The heartbeat of an ERoT (src/src/mctp/MCTPHeartBeatApp.cpp).  When its *)
(* endpoint is there, and a socket for the service can be made, it is told *)
(* that the boot is complete, to expect heartbeats, and then one every so  *)
(* often.  Commands block the process; each is sent again when no answer   *)
(* comes in time, and the first answer in the socket is taken for the      *)
(* command's.  SIGTERM interrupts what is under way to tell the ERoT that  *)
(* the BMC restarts.                                                       *)
(***************************************************************************)
EXTENDS Naturals, Sequences

CONSTANTS
    MaxAttempts,        \* maxRetries
    MaxBeatEvents       \* bound: what the ERoT and the link do

HeartbeatAssumption == MaxAttempts \in Nat \ {0} /\ MaxBeatEvents \in Nat

VARIABLES
    erot,               \* "absent", "started", "booted", or "expecting" heartbeats
    looking,            \* the first look for the endpoint is under way
    endpointSignals,    \* queued: the endpoint was added or removed
    beatTimer,          \* armed or not, and handlers queued
    doing,              \* the commands under way: the one that SIGTERM interrupts, and it
    startup,            \* the commands of run(), or the timer's
    socket,             \* the answers in the socket: the commands they are to, or "old"
    late,               \* answers that come when their command was given up
    running,            \* gRunning
    service,            \* gHeartbeatService was made
    mistaken,           \* history: since run() or the end began, an answer was taken for another's, or was old
    gaveUp,             \* history: run() ended without a heartbeat, or did not begin
    survived,           \* history: a handler was queued when the timer was cancelled last
    interrupted,        \* history: SIGTERM came during run()
    untold,             \* history: the restart was not told, or nothing was there to be told
    beatEvents

beatVars == <<erot, looking, endpointSignals, beatTimer, doing, startup, socket, late, running,
              service, mistaken, gaveUp, survived, interrupted, untold, beatEvents>>

events == <<looking, endpointSignals>>
link == <<socket, late>>
ended == <<running, service, interrupted, untold>>
histories == <<mistaken, gaveUp, survived>>

Idle == doing = <<>>
Happens == beatEvents < MaxBeatEvents /\ beatEvents' = beatEvents + 1
First(c) == [name |-> c, attempt |-> 1]

StartWith(found) ==
    /\ erot = found /\ looking = TRUE /\ endpointSignals = <<>>
    /\ beatTimer = [armed |-> FALSE, queued |-> FALSE] /\ doing = <<>> /\ startup = FALSE
    /\ socket = <<>> /\ late = <<>> /\ running = TRUE /\ service = FALSE
    /\ mistaken = FALSE /\ gaveUp = FALSE /\ survived = FALSE
    /\ interrupted = FALSE /\ untold = FALSE /\ beatEvents = 0
Start == StartWith("absent")

(* The ERoT may know an earlier run of the process. *)
Init == \E found \in {"absent", "started", "expecting"} : StartWith(found)

-----------------------------------------------------------------------------
(* What a command makes of the ERoT that gets it. *)
Told(c) ==
    CASE c = "boot" -> IF erot = "started" THEN "booted" ELSE erot
      [] c = "enable" -> "expecting"
      [] c = "beat" -> erot
      [] c = "restart" -> "started"

(* scheduleNextHeartbeat. *)
Scheduled == [beatTimer EXCEPT !.armed = running \/ @]

AfterAny(c) == "beat"

After(c) == CASE c = "boot" -> "enable" [] c = "enable" -> "beat"

(* The end of a command, which was answered or given up. *)
Completed(c, answered) ==
    \/ /\ c = "restart"
       /\ doing' = Tail(doing)
       /\ untold' = ~answered
       /\ UNCHANGED <<startup, beatTimer, gaveUp>>
    \/ /\ c # "restart" /\ startup /\ answered /\ c # "beat"
       /\ doing' = <<First(After(c))>>
       /\ UNCHANGED <<startup, beatTimer, gaveUp, untold>>
    \/ /\ c # "restart" /\ startup /\ ~answered
       /\ doing' = <<>> /\ startup' = FALSE /\ gaveUp' = TRUE
       /\ UNCHANGED <<beatTimer, untold>>
    \/ /\ c = "beat" /\ (startup => answered)
       /\ doing' = <<>> /\ startup' = FALSE
       /\ beatTimer' = Scheduled
       /\ UNCHANGED <<gaveUp, untold>>

(* mctpQueryVdmCommandWithRetry, one attempt: an answer to an earlier one  *)
(* is there at once.  The socket is not read when the send fails.          *)
Attempt ==
    /\ ~Idle
    /\ \E fate \in {"answered", "late", "lost", "unsent"} :
         LET c == Head(doing).name
             answers == IF fate = "answered" THEN Append(socket, c) ELSE socket
         IN
         /\ fate \in {"lost", "unsent"} \/ erot # "absent"
         /\ IF fate = "answered" \/ erot = "absent" THEN UNCHANGED beatEvents ELSE Happens
         /\ erot' = IF fate \in {"answered", "late"} THEN Told(c) ELSE erot
         /\ late' = IF fate = "late" THEN Append(late, c) ELSE late
         /\ IF answers # <<>> /\ fate # "unsent"
              THEN /\ socket' = Tail(answers)
                   /\ mistaken' = (mistaken \/ Head(answers) # c)
                   /\ Completed(c, TRUE)
              ELSE /\ socket' = answers /\ UNCHANGED mistaken
                   /\ \/ /\ Head(doing).attempt < MaxAttempts
                         /\ doing' = <<[Head(doing) EXCEPT !.attempt = @ + 1]>> \o Tail(doing)
                         /\ UNCHANGED <<startup, beatTimer, gaveUp, untold>>
                      \/ /\ Head(doing).attempt = MaxAttempts
                         /\ Completed(c, FALSE)
    /\ UNCHANGED <<events, running, service, survived, interrupted>>

(* A late answer reaches the socket, or is dropped with its tag. *)
LateAnswer ==
    /\ late # <<>> /\ late' = Tail(late)
    /\ \/ socket' = Append(socket, Head(late)) /\ UNCHANGED beatEvents
       \/ Happens /\ UNCHANGED socket
    /\ UNCHANGED <<erot, events, beatTimer, doing, startup, ended, histories>>

-----------------------------------------------------------------------------
(* The event loop; it ends with SIGTERM. *)
Loop == Idle /\ running

(* addedSPIEndpoint and run().  Without a socket there is no service, and   *)
(* no other attempt until the endpoint is added again.                     *)
Run ==
    /\ \/ /\ doing' = <<First("boot")>> /\ startup' = TRUE
          /\ service' = TRUE /\ gaveUp' = FALSE /\ mistaken' = FALSE
          /\ UNCHANGED beatEvents
       \/ /\ ~service /\ Happens /\ gaveUp' = TRUE
          /\ UNCHANGED <<doing, startup, service, mistaken>>
    /\ UNCHANGED <<erot, beatTimer, link, running, survived, interrupted, untold>>

EndpointAdded ==
    /\ Loop
    /\ endpointSignals # <<>> /\ Head(endpointSignals) = "added"
    /\ endpointSignals' = Tail(endpointSignals)
    /\ Run
    /\ UNCHANGED looking

(* stop(false): a handler that is queued runs all the same. *)
EndpointRemoved ==
    /\ Loop
    /\ endpointSignals # <<>> /\ Head(endpointSignals) = "removed"
    /\ endpointSignals' = Tail(endpointSignals)
    /\ beatTimer' = [beatTimer EXCEPT !.armed = FALSE]
    /\ survived' = beatTimer.queued
    /\ UNCHANGED <<erot, looking, doing, startup, link, ended, mistaken, gaveUp, beatEvents>>

TimerExpires ==
    /\ beatTimer.armed /\ ~beatTimer.queued
    /\ beatTimer' = [armed |-> FALSE, queued |-> TRUE]
    /\ UNCHANGED <<erot, events, doing, startup, link, ended, histories, beatEvents>>

Beat ==
    /\ Loop
    /\ beatTimer.queued
    /\ beatTimer' = [beatTimer EXCEPT !.queued = FALSE]
    /\ doing' = <<First("beat")>>
    /\ UNCHANGED <<erot, events, startup, link, ended, histories, beatEvents>>

(* signalHandler, which interrupts whatever runs. *)
Terminate ==
    /\ running /\ running' = FALSE
    /\ doing' = IF service THEN <<First("restart")>> \o doing ELSE doing
    /\ beatTimer' = [beatTimer EXCEPT !.armed = FALSE]
    /\ interrupted' = startup
    /\ untold' = (untold \/ erot = "absent") /\ mistaken' = FALSE
    /\ UNCHANGED <<erot, events, startup, link, service, gaveUp, survived, beatEvents>>

-----------------------------------------------------------------------------
(* mctpd: the reply of checkExistingEndpoint, which may be an error, and   *)
(* the endpoint's signals.                                                 *)
CheckExisting ==
    /\ looking /\ looking' = FALSE
    /\ \/ /\ endpointSignals' = IF erot = "absent" THEN endpointSignals
                                ELSE Append(endpointSignals, "added")
          /\ UNCHANGED <<gaveUp, beatEvents>>
       \/ Happens /\ gaveUp' = (gaveUp \/ ~service) /\ UNCHANGED endpointSignals
    /\ UNCHANGED <<erot, beatTimer, doing, startup, link, ended, mistaken, survived>>

(* Answers of an ERoT that went away: nothing tells them from later ones.  *)
Outdated(answers) == [i \in DOMAIN answers |-> "old"]

EndpointChanges ==
    /\ Happens
    /\ \/ /\ erot = "absent" /\ erot' = "started"
          /\ endpointSignals' = Append(endpointSignals, "added")
          /\ UNCHANGED link
       \/ /\ erot # "absent" /\ erot' = "absent"
          /\ endpointSignals' = Append(endpointSignals, "removed")
          /\ socket' = Outdated(socket) /\ late' = Outdated(late)
    /\ UNCHANGED <<looking, beatTimer, doing, startup, ended, histories>>

\* The loop comes to every queued signal, whatever the timer does.
Signals == EndpointAdded \/ EndpointRemoved
Proceeds == Attempt \/ LateAnswer \/ TimerExpires \/ Beat \/ CheckExisting

Next == Proceeds \/ Signals \/ Terminate \/ EndpointChanges
Spec == Init /\ [][Next]_beatVars /\ WF_beatVars(Proceeds) /\ SF_beatVars(Signals)

-----------------------------------------------------------------------------
Commands == {"boot", "enable", "beat", "restart"}

TypeOK ==
    /\ erot \in {"absent", "started", "booted", "expecting"}
    /\ endpointSignals \in Seq({"added", "removed"})
    /\ beatTimer \in [armed : BOOLEAN, queued : BOOLEAN]
    /\ doing \in Seq([name : Commands, attempt : 1 .. MaxAttempts]) /\ Len(doing) <= 2
    /\ socket \in Seq(Commands \cup {"old"}) /\ late \in Seq(Commands \cup {"old"})
    /\ {looking, startup, running, service, mistaken, gaveUp, survived, interrupted, untold}
         \subseteq BOOLEAN

Beating == beatTimer.armed \/ beatTimer.queued

(* Heartbeats go to an ERoT that was told to expect them, unless it        *)
(* started again and that is being handled.                                *)
BeatsAreExpected ==
    Beating /\ erot # "absent" /\ running =>
        \/ erot = "expecting"
        \/ startup \/ endpointSignals # <<>>
        \/ mistaken \/ gaveUp

(* When the process has ended, the ERoT does not expect it any more.       *)
EndIsTold ==
    ~running /\ Idle /\ service =>
        erot # "expecting" \/ interrupted \/ untold \/ mistaken

(* When nothing changes, an endpoint that is there gets heartbeats, and    *)
(* one that is not does not.                                               *)
FollowsEndpoint ==
    \/ ~running
    \/ IF erot = "absent"
         THEN survived \/ ~Beating
         ELSE gaveUp \/ Beating \/ ~Idle
Follows == <>[]FollowsEndpoint
=============================================================================
