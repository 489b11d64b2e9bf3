----------------------------- MODULE LongRunning -----------------------------
(***************************************************************************)
(* The long-running commands of one GPU (src/nvidia-gpu): the SerialQueue  *)
(* that runs them one at a time, the helper that sends a command and       *)
(* awaits its result (NvidiaGpuLongRunningCommand), the map of awaited     *)
(* results (NvidiaLongRunningResponseHandler) and the poll that submits    *)
(* every command again (GpuDevice::readLongRunning).                       *)
(*                                                                         *)
(* The slot of the queue is held by a move-only ReleaseHandle: the slot is *)
(* free again when the handle is destroyed, wherever that happens.  So the *)
(* model keeps no handle but the places a handle can be captured in: the   *)
(* callback of the request, and the awaited result.                        *)
(*                                                                         *)
(* `ready' is the io_context's FIFO of handlers; an action Run... is its   *)
(* head run to its end.  A submission within readLongRunning is a step of  *)
(* its own, during which no other handler runs.  A request is completed    *)
(* exactly once, later (module RequestChannel).                            *)
(***************************************************************************)
EXTENDS Naturals, Sequences

CONSTANTS Order,     \* the commands of a GPU in the order they are polled
          Unencoded, \* the commands whose request could not be encoded
          Iids,      \* instance identifiers
          NoJob,     \* no job
          MaxJobs    \* bound: submissions in one behaviour

Commands == {Order[i] : i \in DOMAIN Order}

ASSUME LongRunningAssumption ==
    /\ Order # <<>>
    /\ Order \in Seq(Commands)
    /\ Unencoded \subseteq Commands
    /\ MaxJobs \in Nat
    /\ Len(Order) <= MaxJobs  \* the first poll is within the bound

(***************************************************************************)
(* A job is one submission of a command.                                   *)
(***************************************************************************)
Jobs == [id : 1..MaxJobs, cmd : Commands]
Keys == Commands \X Iids

ASSUME NoJobAssumption == NoJob \notin Jobs

Outcomes == {"failed", "success", "accepted"}

Handlers ==
    [kind : {"task"}, job : Jobs]
      \cup [kind : {"reply"}, job : Jobs, outcome : Outcomes, iid : Iids]
      \cup [kind : {"event"}, key : Keys]
      \cup [kind : {"timer"}, key : Keys, job : Jobs]
      \cup [kind : {"poll"}]

VARIABLES
    alive,       \* the GpuDevice and the command objects it owns exist
    inFlight,    \* SerialQueue: the slot is taken
    pending,     \* SerialQueue: the tasks that wait, oldest first
    ready,       \* the handlers the event loop has to run, oldest first
    outstanding, \* the jobs whose request the requester has not completed
    entries,     \* [Keys -> Jobs \cup {NoJob}]: the awaited results
    armed,       \* [Keys -> Jobs \cup {NoJob}]: the timers that have not expired
    toPoll,      \* what readLongRunning has still to submit
    working,     \* the commands the device accepted and has not answered
    issued       \* number of submissions so far

queueVars == <<inFlight, pending>>
vars == <<alive, inFlight, pending, ready, outstanding, entries, armed, toPoll,
          working, issued>>

TypeOK ==
    /\ alive \in BOOLEAN
    /\ inFlight \in BOOLEAN
    /\ pending \in Seq(Jobs)
    /\ ready \in Seq(Handlers)
    /\ outstanding \in SUBSET Jobs
    /\ entries \in [Keys -> Jobs \cup {NoJob}]
    /\ armed \in [Keys -> Jobs \cup {NoJob}]
    /\ \A k \in Keys : armed[k] \in {entries[k], NoJob}   \* the timer is part of the entry
    /\ toPoll \in Seq(Commands)
    /\ working \in SUBSET Keys
    /\ issued \in 0..MaxJobs

\* makeSensors ends in readLongRunning.
Init ==
    /\ alive = TRUE
    /\ inFlight = FALSE
    /\ pending = <<>>
    /\ ready = <<>>
    /\ outstanding = {}
    /\ entries = [k \in Keys |-> NoJob]
    /\ armed = [k \in Keys |-> NoJob]
    /\ toPoll = Order
    /\ working = {}
    /\ issued = 0

-----------------------------------------------------------------------------
(* SerialQueue                                                             *)

Posted(rdy) == {i \in DOMAIN rdy : rdy[i].kind = "task"}

\* The device's objects share the queue; a posted task keeps it as well.
QueueExists == alive \/ Posted(ready) # {}

TaskHandler(j) == [kind |-> "task", job |-> j]

ReleaseUnguarded(rest) ==
    /\ inFlight' = FALSE
    /\ ready' = IF pending = <<>> THEN rest ELSE Append(rest, TaskHandler(Head(pending)))
    /\ pending' = IF pending = <<>> THEN <<>> ELSE Tail(pending)

\* release: rest is what is ready after the handler that lets the slot go.
Release(rest) ==
    IF pending = <<>>
      THEN /\ inFlight' = FALSE
           /\ ready' = rest
           /\ UNCHANGED pending
      ELSE /\ ready' = Append(rest, TaskHandler(Head(pending)))
           /\ pending' = Tail(pending)
           /\ UNCHANGED inFlight

\* ~ReleaseHandle: nothing is left to do when the queue is gone.
DestroyHandle(rest) ==
    IF QueueExists
      THEN Release(rest)
      ELSE ready' = rest /\ UNCHANGED queueVars

\* doUpdate of a job: what the task does once it has the slot.
Sends(j) == alive /\ j.cmd \notin Unencoded

RunNowUnmarked(j) ==
    /\ outstanding' = IF Sends(j) THEN outstanding \cup {j} ELSE outstanding
    /\ UNCHANGED inFlight

\* The task of a command without a request returns, and the slot is free.
RunNow(j) ==
    IF Sends(j)
      THEN outstanding' = outstanding \cup {j} /\ inFlight' = TRUE
      ELSE UNCHANGED <<outstanding, inFlight>>

\* submit, of the next command readLongRunning has to update.
Submit ==
    LET j == [id |-> issued + 1, cmd |-> Head(toPoll)]
    IN  /\ toPoll # <<>>
        /\ toPoll' = Tail(toPoll)
        /\ issued' = issued + 1
        /\ IF inFlight
             THEN pending' = Append(pending, j) /\ UNCHANGED <<outstanding, inFlight>>
             ELSE RunNow(j) /\ UNCHANGED pending
        /\ UNCHANGED <<alive, ready, entries, armed, working>>

-----------------------------------------------------------------------------
(* Handlers                                                                *)

Running(kind) == toPoll = <<>> /\ ready # <<>> /\ Head(ready).kind = kind

\* The posted task of release: a command that is gone, or has no request,
\* gives the slot back at once.
RunTask ==
    /\ Running("task")
    /\ IF Sends(Head(ready).job)
         THEN /\ outstanding' = outstanding \cup {Head(ready).job}
              /\ ready' = Tail(ready)
              /\ UNCHANGED queueVars
         ELSE Release(Tail(ready)) /\ UNCHANGED outstanding
    /\ UNCHANGED <<alive, entries, armed, toPoll, working, issued>>

ArmNever(key, j) == UNCHANGED armed
DisarmNever(key) == UNCHANGED armed
Arm(key, j) == armed' = [armed EXCEPT ![key] = j]
Disarm(key) == armed' = [armed EXCEPT ![key] = NoJob]

\* processResponse of a command that was accepted: registerResponseHandler.
\* try_emplace fails for a key that is taken, and the handle goes with the
\* handler that was to be registered.
Register(key, j) ==
    IF entries[key] = NoJob
      THEN /\ entries' = [entries EXCEPT ![key] = j]
           /\ Arm(key, j)
           /\ ready' = Tail(ready)
           /\ UNCHANGED queueVars
      ELSE DestroyHandle(Tail(ready)) /\ UNCHANGED <<entries, armed>>

RunReply ==
    LET h == Head(ready)
    IN  /\ Running("reply")
        /\ IF alive /\ h.outcome = "accepted"
             THEN Register(<<h.job.cmd, h.iid>>, h.job)
             ELSE DestroyHandle(Tail(ready)) /\ UNCHANGED <<entries, armed>>
        /\ UNCHANGED <<alive, outstanding, toPoll, working, issued>>

\* The entry is erased, its timer with it, and the handle with its handler.
Resolve(key) ==
    IF entries[key] # NoJob
      THEN /\ entries' = [entries EXCEPT ![key] = NoJob]
           /\ Disarm(key)
           /\ DestroyHandle(Tail(ready))
      ELSE ready' = Tail(ready) /\ UNCHANGED <<entries, armed, inFlight, pending>>

\* NvidiaLongRunningResponseHandler::handler
RunEvent ==
    /\ Running("event")
    /\ Resolve(Head(ready).key)
    /\ UNCHANGED <<alive, outstanding, toPoll, working, issued>>

\* onTimeout
RunTimer ==
    /\ Running("timer")
    /\ Resolve(Head(ready).key)
    /\ UNCHANGED <<alive, outstanding, toPoll, working, issued>>

\* The wait of readLongRunning is over.
RunPoll ==
    /\ Running("poll")
    /\ toPoll' = IF alive THEN Order ELSE <<>>
    /\ ready' = Tail(ready)
    /\ UNCHANGED <<alive, inFlight, pending, outstanding, entries, armed, working, issued>>

-----------------------------------------------------------------------------
(* What the event loop gets to run                                         *)

Arrives(h) == ready' = Append(ready, h)

\* The requester completes a request: timed out, failed or undecodable; done
\* at once; or accepted, so that the result comes as an event.  The device
\* may also be at work on a request that is given up.
Complete(j, outcome, iid, accepted) ==
    /\ j \in outstanding
    /\ outcome = "accepted" => accepted
    /\ outcome = "success" => ~accepted
    /\ outstanding' = outstanding \ {j}
    /\ working' = IF accepted THEN working \cup {<<j.cmd, iid>>} ELSE working
    /\ Arrives([kind |-> "reply", job |-> j, outcome |-> outcome, iid |-> iid])
    /\ UNCHANGED <<alive, inFlight, pending, entries, armed, toPoll, issued>>

CompleteRequest(j) ==
    \E outcome \in Outcomes, iid \in Iids, accepted \in BOOLEAN :
        Complete(j, outcome, iid, accepted)

\* The result of a command arrives, in time or late.
DeviceEvent(key) ==
    /\ key \in working
    /\ working' = working \ {key}
    /\ Arrives([kind |-> "event", key |-> key])
    /\ UNCHANGED <<alive, inFlight, pending, outstanding, entries, armed, toPoll, issued>>

\* longRunningResponseTimeout; from now on cancel() comes too late.
TimerExpires(key) ==
    /\ armed[key] # NoJob
    /\ Arrives([kind |-> "timer", key |-> key, job |-> armed[key]])
    /\ armed' = [armed EXCEPT ![key] = NoJob]
    /\ UNCHANGED <<alive, inFlight, pending, outstanding, entries, toPoll, working, issued>>

\* longRunningSensorPollRate: whether the commands of the last poll have
\* ended or not.
PollExpires ==
    /\ alive
    /\ toPoll = <<>>
    /\ \A i \in DOMAIN ready : ready[i].kind # "poll"
    /\ issued + Len(Order) <= MaxJobs
    /\ Arrives([kind |-> "poll"])
    /\ UNCHANGED <<alive, inFlight, pending, outstanding, entries, armed, toPoll,
                   working, issued>>

\* The GPU leaves the configuration: its objects are destroyed.  The map of
\* awaited results stays, held by the event handlers of the endpoint.
Destroy ==
    /\ alive
    /\ toPoll = <<>>
    /\ alive' = FALSE
    /\ IF Posted(ready) # {}
         THEN UNCHANGED queueVars
         ELSE pending' = <<>> /\ inFlight' = FALSE
    /\ UNCHANGED <<ready, outstanding, entries, armed, toPoll, working, issued>>

RunHandler == RunTask \/ RunReply \/ RunEvent \/ RunTimer \/ RunPoll

Next ==
    \/ Submit
    \/ RunHandler
    \/ \E j \in outstanding : CompleteRequest(j)
    \/ \E key \in Keys : DeviceEvent(key) \/ TimerExpires(key)
    \/ PollExpires
    \/ Destroy

Spec == Init /\ [][Next]_vars

(***************************************************************************)
(* The event loop runs what is ready, the requester completes every        *)
(* request, and time passes.  Nothing is assumed of the device, nor of the *)
(* poll.                                                                   *)
(***************************************************************************)
Fairness ==
    /\ WF_vars(Submit \/ RunHandler)
    /\ WF_vars(\E j \in outstanding : CompleteRequest(j))
    /\ \A key \in Keys : WF_vars(TimerExpires(key))

FairSpec == Spec /\ Fairness
-----------------------------------------------------------------------------
(* Properties                                                              *)

\* Where the handle of the slot is: a task that is posted and will make it,
\* the callback of a request, the reply to it, an awaited result.
Holders ==
    {<<"request", j>> : j \in outstanding}
      \cup {<<"handler", i>> : i \in {n \in DOMAIN ready : ready[n].kind \in {"task", "reply"}}}
      \cup {<<"entry", k>> : k \in {x \in Keys : entries[x] # NoJob}}

(***************************************************************************)
(* The slot of the SerialQueue is taken exactly when one continuation      *)
(* holds its handle: never two, so commands of a GPU do not overlap, and   *)
(* never none, so the queue does not stall (the life of ReleaseHandle over *)
(* every return of doUpdate, processResponse, handler and onTimeout).      *)
(***************************************************************************)
SlotHeldOnce ==
    /\ \A a, b \in Holders : a = b
    /\ QueueExists => (inFlight <=> Holders # {})
    /\ pending # <<>> => inFlight

(***************************************************************************)
(* The queue and its clients implement a serial service: commands begin in *)
(* the order they were submitted, although release posts the next task     *)
(* and other handlers, submitting more, run before it.                     *)
(***************************************************************************)
ReadyJobs(kind) == {ready[i].job : i \in {n \in DOMAIN ready : ready[n].kind = kind}}
RunningJobs ==
    outstanding \cup ReadyJobs("reply") \cup ({entries[k] : k \in Keys} \ {NoJob})
OneOf(S) == IF S = {} THEN <<>> ELSE <<CHOOSE j \in S : TRUE>>

Line ==
    IF QueueExists THEN OneOf(RunningJobs) \o OneOf(ReadyJobs("task")) \o pending ELSE <<>>
Begun == QueueExists /\ RunningJobs # {}

Service == INSTANCE SerialService WITH Tasks <- Jobs, line <- Line, begun <- Begun

ServiceSafety == Service!LineSpec

(***************************************************************************)
(* Every submission ends, although the device may never answer a request   *)
(* nor send the result of one it accepted (longRunningResponseTimeout).    *)
(***************************************************************************)
Unfinished(n) ==
    \/ \E i \in DOMAIN pending : pending[i].id = n
    \/ \E j \in RunningJobs \cup ReadyJobs("task") : j.id = n

EveryJobEnds == \A n \in 1..MaxJobs : Unfinished(n) ~> ~Unfinished(n)
=============================================================================
