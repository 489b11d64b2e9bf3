---------------------------- MODULE GpuClockLimit ----------------------------
(***************************************************************************)
(* The clock limit of a GPU as a D-Bus client sets it                      *)
(* (src/nvidia-gpu/NvidiaGpuClockSpeedControl.cpp): the writes of the two  *)
(* bounds are gathered by a debounce timer and sent as one SetClockLimit,  *)
(* behind a gate that stays closed until the device was read back.         *)
(*                                                                         *)
(* The requester is its abstraction (module RequestChannel): `chan' is the *)
(* queue of the endpoint, and its head is completed once, well or badly.   *)
(* A limit is in MHz; `Unread' is the zero the mirror starts with.         *)
(***************************************************************************)
EXTENDS Naturals, Sequences

CONSTANTS Limits,       \* the limits within the hardware's range
          Unread,       \* not a limit: the initial mirror
          NoLimit,      \* not a limit: nothing asked
          MaxWrites,    \* bound: accepted writes
          MaxPolls,     \* bound: periodic updates
          MaxFailures,  \* bound: requests that fail
          MaxQueued     \* bound: timer handlers queued and not run

ClockAssumption ==
    /\ Unread \notin Limits
    /\ NoLimit \notin Limits
    /\ Unread # NoLimit
    /\ {MaxWrites, MaxPolls, MaxFailures, MaxQueued} \subseteq Nat

Bounds == {"min", "max"}
Optional == Limits \cup {NoLimit}
Mirrored == Limits \cup {Unread}
Requests ==
    [kind : {"set"}, limits : [Bounds -> Mirrored]] \cup [kind : {"poll", "readback"}]

VARIABLES
    pending,   \* pendingMinHz, pendingMaxHz
    requested, \* requestedMinHz, requestedMaxHz: mirror of the device
    inflight,  \* setClockLimitInflight: the gate is closed
    readback,  \* setClockLimitReadbackPending
    armed,     \* setLimitTimer runs
    queued,    \* its handlers that are queued and can no longer be cancelled
    chan,      \* the requests the requester has not completed
    served,    \* the device has served the head of chan
    answer,    \* what it answered, when that was a read
    device,    \* the limits of the device
    asked,     \* history: the last accepted write of each bound
    writes, polls, failures

vars == <<pending, requested, inflight, readback, armed, queued, chan,
          served, answer, device, asked, writes, polls, failures>>

TypeOK ==
    /\ pending \in [Bounds -> Optional]
    /\ requested \in [Bounds -> Mirrored]
    /\ inflight \in BOOLEAN /\ readback \in BOOLEAN
    /\ armed \in BOOLEAN /\ queued \in 0..MaxQueued
    /\ chan \in Seq(Requests)
    /\ served \in BOOLEAN
    /\ answer \in [Bounds -> Mirrored] /\ device \in [Bounds -> Mirrored]
    /\ asked \in [Bounds -> Optional]
    /\ writes \in 0..MaxWrites /\ polls \in 0..MaxPolls /\ failures \in 0..MaxFailures
    /\ readback => inflight

Start ==
    /\ pending = [b \in Bounds |-> NoLimit]
    /\ requested = [b \in Bounds |-> Unread]
    /\ inflight = FALSE /\ readback = FALSE
    /\ armed = FALSE /\ queued = 0
    /\ chan = <<>> /\ served = FALSE
    /\ device \in [Bounds -> Limits]
    /\ answer = device
    /\ asked = [b \in Bounds |-> NoLimit]

Init == Start /\ writes = 0 /\ polls = 0 /\ failures = 0

-----------------------------------------------------------------------------
(* D-Bus and timer handlers                                                *)

\* armSetLimitTimer: a wait that is over already is not taken back.
ArmSetLimitTimer == armed' = TRUE

\* handleRequestedSpeedLimitMinHzSet, ...MaxHzSet: a write in range, accepted.
\* A write the inventory rejects changes nothing.
Write(b, v) ==
    /\ writes < MaxWrites
    /\ writes' = writes + 1
    /\ pending' = [pending EXCEPT ![b] = v]
    /\ asked' = [asked EXCEPT ![b] = v]
    /\ ArmSetLimitTimer
    /\ UNCHANGED <<requested, inflight, readback, queued, chan, served, answer,
                   device, polls, failures>>

TimerExpires ==
    /\ armed /\ queued < MaxQueued
    /\ armed' = FALSE
    /\ queued' = queued + 1
    /\ UNCHANGED <<pending, requested, inflight, readback, chan, served, answer,
                   device, asked, writes, polls, failures>>

\* A timer handler finds the gate closed.
GateOpenAlways == TRUE
GateOpen == ~inflight

RetryLater ==
    /\ queued > 0 /\ ~GateOpen
    /\ queued' = queued - 1
    /\ ArmSetLimitTimer
    /\ UNCHANGED <<pending, requested, inflight, readback, chan, served, answer,
                   device, asked, writes, polls, failures>>

\* value_or
OrRequested(b) == IF pending[b] # NoLimit THEN pending[b] ELSE requested[b]

\* applyPendingClockLimit, sendSetClockLimitRequest
ApplyPendingClockLimit ==
    /\ queued > 0 /\ GateOpen
    /\ queued' = queued - 1
    /\ pending' = [b \in Bounds |-> NoLimit]
    /\ inflight' = TRUE
    /\ chan' = Append(chan, [kind |-> "set", limits |-> [b \in Bounds |-> OrRequested(b)]])
    /\ UNCHANGED <<requested, readback, armed, served, answer, device, asked, writes,
                   polls, failures>>

\* update, of every poll
Update ==
    /\ polls < MaxPolls
    /\ polls' = polls + 1
    /\ chan' = Append(chan, [kind |-> "poll"])
    /\ UNCHANGED <<pending, requested, inflight, readback, armed, queued, served,
                   answer, device, asked, writes, failures>>

-----------------------------------------------------------------------------
(* The device and its replies                                              *)

Serve ==
    /\ chan # <<>> /\ ~served
    /\ served' = TRUE
    /\ IF Head(chan).kind = "set"
         THEN device' = Head(chan).limits /\ UNCHANGED answer
         ELSE answer' = device /\ UNCHANGED device
    /\ UNCHANGED <<pending, requested, inflight, readback, armed, queued, chan,
                   asked, writes, polls, failures>>

\* handleGetClockLimitResponse first opens the gate for a read-back.
OpenGateOnSuccess(ok) ==
    /\ readback' = (readback /\ ~ok)
    /\ inflight' = (inflight /\ ~(readback /\ ok))
OpenGate(ok) ==
    /\ readback' = FALSE
    /\ inflight' = (inflight /\ ~readback)

HandleGetResponse(ok) ==
    /\ Head(chan).kind \in {"poll", "readback"}
    /\ OpenGate(ok)
    /\ requested' = IF ok THEN answer ELSE requested
    /\ chan' = Tail(chan)

\* handleSetClockLimitResponse: a set that succeeded is read back.
ReadBackUngated(ok) ==
    /\ chan' = IF ok THEN Append(Tail(chan), [kind |-> "readback"]) ELSE Tail(chan)
    /\ inflight' = FALSE
    /\ UNCHANGED readback
ReadBack(ok) ==
    /\ chan' = IF ok THEN Append(Tail(chan), [kind |-> "readback"]) ELSE Tail(chan)
    /\ inflight' = (inflight /\ ok)
    /\ readback' = (readback \/ ok)

HandleSetResponse(ok) ==
    /\ Head(chan).kind = "set"
    /\ ReadBack(ok)
    /\ UNCHANGED requested

HandleResponse(ok) ==
    /\ HandleGetResponse(ok) \/ HandleSetResponse(ok)
    /\ served' = FALSE
    /\ UNCHANGED <<pending, armed, queued, answer, device, asked, writes, polls>>

Reply ==
    /\ chan # <<>> /\ served
    /\ HandleResponse(TRUE)
    /\ UNCHANGED failures

\* Refused, not sent, lost or timed out; a set may have been served.
Fail ==
    /\ chan # <<>> /\ failures < MaxFailures
    /\ failures' = failures + 1
    /\ HandleResponse(FALSE)

Next ==
    \/ \E b \in Bounds, v \in Limits : Write(b, v)
    \/ TimerExpires \/ RetryLater \/ ApplyPendingClockLimit
    \/ Update
    \/ Serve \/ Reply \/ Fail

Spec == Init /\ [][Next]_vars

(***************************************************************************)
(* The timer expires, queued handlers run, and every request is completed  *)
(* (RequestChannel).                                                       *)
(***************************************************************************)
Fairness ==
    /\ WF_vars(TimerExpires)
    /\ WF_vars(RetryLater \/ ApplyPendingClockLimit)
    /\ WF_vars(Serve)
    /\ WF_vars(Reply \/ Fail)

FairSpec == Spec /\ Fairness

-----------------------------------------------------------------------------
(* Properties                                                              *)

(***************************************************************************)
(* The gate lets one SetClockLimit out at a time: a second one would be    *)
(* filled up from a mirror that does not show the first.                   *)
(***************************************************************************)
OneSetOutstanding ==
    \A i, j \in DOMAIN chan : chan[i].kind = "set" /\ chan[j].kind = "set" => i = j

(***************************************************************************)
(* When nothing is under way and nothing failed, the device has, for each  *)
(* bound, the limit that was last accepted: gathering two writes and       *)
(* filling up a single one from the mirror never undoes an earlier write.  *)
(***************************************************************************)
Quiescent == chan = <<>> /\ ~armed /\ queued = 0

AppliedAsAsked ==
    Quiescent /\ failures = 0 =>
        \A b \in Bounds : asked[b] # NoLimit => device[b] = asked[b]

(***************************************************************************)
(* Neither the gate nor a write waits for ever, although the read-back may *)
(* fail (handleGetClockLimitResponse opens the gate before its error       *)
(* returns).                                                               *)
(***************************************************************************)
WritesDispatched == \A b \in Bounds : pending[b] # NoLimit ~> pending[b] = NoLimit

(***************************************************************************)
(* "Only that read-back response clears setClockLimitInflight"             *)
(* (NvidiaGpuClockSpeedControl.hpp), as opposed to that of a poll.         *)
(***************************************************************************)
ReadBackOpensGate ==
    [][inflight /\ ~inflight' /\ chan # <<>> => Head(chan).kind # "poll"]_vars
=============================================================================
