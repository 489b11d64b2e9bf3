---------------------------- MODULE MctpRequester ----------------------------
(***************************************************************************)
(* The request/response engine of the GPU sensor daemon                    *)
(* (src/nvidia-gpu/MctpRequester.cpp): one AF_MCTP socket shared by every  *)
(* endpoint, one FIFO queue, instance identifier and timer per endpoint.   *)
(*                                                                         *)
(* The daemon is single threaded.  What interleaves is the order in which  *)
(* boost.asio completes operations: `ready' is the io_context's FIFO of    *)
(* completion handlers, each action Run... is the head handler run to its  *)
(* end.  A receive is PERFORMED (the datagram is copied to the one shared  *)
(* buffer) when its handler is queued, not when the handler runs: the      *)
(* handler brings the length of its own datagram and finds the bytes and   *)
(* the sender as the last receive left them.  A timer whose handler is     *)
(* queued can no longer be cancelled.                                      *)
(*                                                                         *)
(* A client callback may itself call sendRecvMsg.  Doing so is the same as *)
(* a Submit just before the handler runs: the request joins its queue      *)
(* behind the head, or is sent, before the head is popped.                 *)
(***************************************************************************)
EXTENDS Naturals, Sequences

CONSTANTS Eids,         \* endpoint identifiers the daemon talks to
          NoEid,        \* not an endpoint
          MaxRequests,  \* bound: requests submitted in one behaviour
          NumIids,      \* instance identifiers (instanceIdBitMask + 1)
          MaxStray,     \* bound: datagrams that are no response
          MaxErrors     \* bound: receive errors and restarts

ASSUME RequesterAssumption ==
    /\ NoEid \notin Eids
    /\ MaxRequests \in Nat
    /\ NumIids \in Nat \ {0}
    /\ MaxStray \in Nat
    /\ MaxErrors \in Nat

Requests == 1..MaxRequests
NoRequest == 0
Iids == 0..(NumIids - 1)
NoIid == NumIids        \* the initial 0xFF: no request sent to this endpoint

(***************************************************************************)
(* Error codes: of timed_out and host_unreachable the client is told, any  *)
(* other one is fatal.                                                     *)
(***************************************************************************)
ErrorCodes == {"ok", "timed_out", "host_unreachable", "other"}
IsFatalError(ec) == ec \notin {"ok", "timed_out", "host_unreachable"}
SendErrors == {"ok", "host_unreachable", "other"}

(***************************************************************************)
(* A datagram: its sender (NoEid: of a foreign message type or address     *)
(* family, also what an untouched sender endpoint is), what the byte with  *)
(* the instance identifier says (a response, an event, a request, which    *)
(* is not supported, or an acknowledgment), the request it answers and its *)
(* length in units: the bytes up to that one, the rest of the header, the  *)
(* data.  Fields of a stray that nothing reads are fixed.  The kernel      *)
(* routes no whole response that answers nothing.                          *)
(***************************************************************************)
Kinds == {"response", "event", "request", "ack"}
HeaderSize == 2         \* messageHeaderSize, in units
Sizes == 0..(HeaderSize + 1)
Responses == [eid : Eids, kind : {"response"}, iid : Iids, req : Requests,
              size : HeaderSize..(HeaderSize + 1)]
Strays == {d \in [eid : Eids \cup {NoEid}, kind : Kinds, iid : Iids, req : {NoRequest},
                  size : 0..HeaderSize] :
             /\ d.kind = "response" => d.size < HeaderSize \/ d.eid = NoEid
             /\ d.kind # "response" => d.iid = 0
             /\ d.size = 0 => d.kind = "ack"}
Datagrams == Responses \cup Strays
NoDatagram == [eid |-> NoEid, kind |-> "ack", iid |-> 0, req |-> NoRequest, size |-> 0]

(***************************************************************************)
(* The shared buffer and sender endpoint: the datagram received last, and  *)
(* the one the byte with the identifier is of (an empty datagram leaves    *)
(* that of the one before).  What lies beyond the last datagram's length   *)
(* is of earlier ones.                                                     *)
(***************************************************************************)
Buffers == [from : Datagrams, head : Datagrams]
NothingReceived == [from |-> NoDatagram, head |-> NoDatagram]

Handlers ==
    [kind : {"sent", "timer"}, eid : Eids, ec : ErrorCodes, req : Requests]
      \cup [kind : {"recv"}, eid : {NoEid}, ec : ErrorCodes, req : {NoRequest}, size : Sizes]

(***************************************************************************)
(* What a callback is given: the error, the request the event that caused  *)
(* it belonged to, and the bytes: one whole datagram, a header with a cut  *)
(* off or foreign tail ("mixed"), or a header that is itself of another    *)
(* datagram than the sender's ("patched").                                 *)
(***************************************************************************)
Bytes == {"none", "whole", "mixed", "patched"}
Answers == [ec : ErrorCodes, about : Requests \cup {NoRequest}, bytes : Bytes]
Failed(ec, r) == [ec |-> ec, about |-> r, bytes |-> "none"]
Results == [ec : ErrorCodes \cup {"none", "lost"}, about : Requests \cup {NoRequest},
            bytes : Bytes]
NoResult == Failed("none", NoRequest)
Lost == Failed("lost", NoRequest)

VARIABLES
    status,     \* "running", "aborted" (exception), "undefined" (front() of an empty queue)
    issued,     \* number of requests submitted so far
    dest,       \* [Requests -> Eids \cup {NoEid}]: the endpoint of a request
    result,     \* [Requests -> Results]: what the callback got
    queue,      \* [Eids -> Seq(Requests)]: EidContext::queue
    iid,        \* [Eids -> Iids \cup {NoIid}]: EidContext::iid
    timer,      \* [Eids -> Requests \cup {NoRequest}]: the pending wait, armed for a request
    receives,   \* pending async_receive_from operations
    buffer,     \* the shared receive buffer and sender endpoint
    ready,      \* queued completion handlers
    sockq,      \* datagrams queued in the socket
    wire,       \* requests sent and not answered by their device
    strays,     \* number of datagrams sent that are no response
    errors      \* number of receive errors and restarts

vars == <<status, issued, dest, result, queue, iid, timer, receives, buffer,
          ready, sockq, wire, strays, errors>>

Frame == [eid : Eids, iid : Iids, req : Requests]

TypeOK ==
    /\ status \in {"running", "aborted", "undefined"}
    /\ issued \in 0..MaxRequests
    /\ dest \in [Requests -> Eids \cup {NoEid}]
    /\ result \in [Requests -> Results]
    /\ queue \in [Eids -> Seq(Requests)]
    /\ iid \in [Eids -> Iids \cup {NoIid}]
    /\ timer \in [Eids -> Requests \cup {NoRequest}]
    /\ receives \in Nat
    /\ buffer \in Buffers
    /\ ready \in Seq(Handlers)
    /\ sockq \in Seq(Datagrams)
    /\ wire \in SUBSET Frame
    /\ strays \in 0..MaxStray
    /\ errors \in 0..MaxErrors

Init ==
    /\ status = "running"
    /\ issued = 0
    /\ dest = [r \in Requests |-> NoEid]
    /\ result = [r \in Requests |-> NoResult]
    /\ queue = [e \in Eids |-> <<>>]
    /\ iid = [e \in Eids |-> NoIid]
    /\ timer = [e \in Eids |-> NoRequest]
    /\ receives = 1         \* the constructor calls startReceive
    /\ buffer = NothingReceived
    /\ ready = <<>>
    /\ sockq = <<>>
    /\ wire = {}
    /\ strays = 0
    /\ errors = 0

NextIidUnmasked(i) == i + 1
NextIid(i) == IF i = NoIid THEN 0 ELSE (i + 1) % NumIids

\* queue.pop_front()
PopBack(q) == SubSeq(q, 1, Len(q) - 1)
PopFront(q) == Tail(q)

-----------------------------------------------------------------------------
(***************************************************************************)
(* processQueue(eid), q being the queue and rdy the handlers queued when   *)
(* it is called: take the next instance identifier, put it in the head     *)
(* request and send it.  The send is performed at once; its handler is     *)
(* queued.  (getNextIid and injectIid fail only for an unknown endpoint or *)
(* a message shorter than its header, which no encoder produces.)          *)
(***************************************************************************)
ProcessQueue(e, q, rdy) ==
    \/ /\ q = <<>>
       /\ ready' = rdy
       /\ UNCHANGED <<iid, wire>>
    \/ /\ q # <<>>
       /\ iid' = [iid EXCEPT ![e] = NextIid(@)]
       /\ \E ec \in SendErrors :
            /\ wire' = IF ec = "ok"
                         THEN wire \cup {[eid |-> e, iid |-> NextIid(iid[e]), req |-> Head(q)]}
                         ELSE wire
            /\ ready' = Append(rdy, [kind |-> "sent", eid |-> e, ec |-> ec, req |-> Head(q)])

(***************************************************************************)
(* The process ends: its memory and socket are gone, whatever was queued   *)
(* is lost.  main() returns on an exception, systemd restarts the daemon.  *)
(***************************************************************************)
Die(why, res) ==
    /\ status' = why
    /\ result' = [r \in Requests |->
                    IF dest[r] # NoEid /\ res[r] = NoResult THEN Lost ELSE res[r]]
    /\ queue' = [e \in Eids |-> <<>>]
    /\ iid' = [e \in Eids |-> NoIid]
    /\ timer' = [e \in Eids |-> NoRequest]
    /\ receives' = 0
    /\ buffer' = NothingReceived
    /\ ready' = <<>>
    /\ sockq' = <<>>
    /\ wire' = {}

(***************************************************************************)
(* handleResult(eid, answer): cancel the timer, call the callback of the  *)
(* request at the front, throw if the error is fatal, start another        *)
(* receive, pop the request and send the next one.  front() of an empty    *)
(* devector is undefined (the callback of a destroyed request is called);  *)
(* the model follows it no further than the end of the process.            *)
(***************************************************************************)
HandleResult(e, answer) ==
    LET res == [result EXCEPT ![Head(queue[e])] = answer]
    IN  \/ /\ iid[e] = NoIid            \* requestContextQueues has no entry for e
           /\ receives' = receives + 1
           /\ ready' = Tail(ready)
           /\ UNCHANGED <<status, result, queue, iid, timer, buffer, sockq, wire>>
        \/ /\ iid[e] # NoIid /\ queue[e] = <<>>
           /\ Die("undefined", result)
        \/ /\ queue[e] # <<>> /\ IsFatalError(answer.ec)
           /\ Die("aborted", res)
        \/ /\ queue[e] # <<>> /\ ~IsFatalError(answer.ec)
           /\ result' = res
           /\ timer' = [timer EXCEPT ![e] = NoRequest]
           /\ receives' = receives + 1
           /\ queue' = [queue EXCEPT ![e] = PopFront(@)]
           /\ ProcessQueue(e, PopFront(queue[e]), Tail(ready))
           /\ UNCHANGED <<status, buffer, sockq>>

(***************************************************************************)
(* sendRecvMsg(eid, ...).                                                  *)
(***************************************************************************)
Idle(e) == queue[e] = <<>>

Submit(e) ==
    /\ status = "running"
    /\ issued < MaxRequests
    /\ issued' = issued + 1
    /\ dest' = [dest EXCEPT ![issued + 1] = e]
    /\ queue' = [queue EXCEPT ![e] = Append(@, issued + 1)]
    /\ \/ /\ Idle(e)
          /\ ProcessQueue(e, Append(queue[e], issued + 1), ready)
       \/ /\ ~Idle(e)
          /\ UNCHANGED <<iid, wire, ready>>
    /\ UNCHANGED <<status, result, timer, receives, buffer, sockq, strays, errors>>

Running(kind) ==
    /\ status = "running"
    /\ ready # <<>>
    /\ Head(ready).kind = kind
    /\ UNCHANGED <<issued, dest, strays, errors>>

(***************************************************************************)
(* handleSendMsgCompletion: an error is the result of the request at the   *)
(* front; otherwise the endpoint's timer is (re)armed for two seconds.     *)
(***************************************************************************)
TimerNotArmed(e, r) == UNCHANGED timer
ArmTimer(e, r) == timer' = [timer EXCEPT ![e] = r]

HandleSendMsgCompletion ==
    LET h == Head(ready) IN
    /\ Running("sent")
    /\ \/ /\ h.ec # "ok"
          /\ HandleResult(h.eid, Failed(h.ec, h.req))
       \/ /\ h.ec = "ok"
          /\ ArmTimer(h.eid, h.req)
          /\ ready' = Tail(ready)
          /\ UNCHANGED <<status, result, queue, iid, receives, buffer, sockq, wire>>

TimerHandler ==
    LET h == Head(ready) IN
    /\ Running("timer")
    /\ HandleResult(h.eid, Failed("timed_out", h.req))

(***************************************************************************)
(* processRecvMsg(ec, length).  The length is the handler's, the bytes and *)
(* the sender are those of the shared buffer when it runs.  Every path     *)
(* that returns early leaves without calling startReceive; only an event   *)
(* and a handled result start another receive.                             *)
(***************************************************************************)
IidUnchecked(b) ==
    b.head.kind = "response" /\ iid[b.from.eid] # NoIid
IidMatches(b) ==
    b.head.kind = "response" /\ iid[b.from.eid] # NoIid /\ b.head.iid = iid[b.from.eid]

Failing(h) == buffer.from.eid # NoEid /\ h.ec # "ok"
Decoded(h) == buffer.from.eid # NoEid /\ h.ec = "ok" /\ h.size >= HeaderSize
IsEvent(h) == Decoded(h) /\ buffer.head.kind = "event"
IsAnswer(h) == Decoded(h) /\ IidMatches(buffer)

ResponseBuffer(h) ==
    [ec |-> "ok", about |-> buffer.head.req,
     bytes |-> IF h.size = buffer.from.size THEN "whole"
               ELSE IF buffer.from.size >= HeaderSize THEN "mixed" ELSE "patched"]

ProcessRecvMsg ==
    LET h == Head(ready)
    IN  /\ Running("recv")
        /\ \/ /\ Failing(h)
              /\ HandleResult(buffer.from.eid, Failed(h.ec, NoRequest))
           \/ /\ IsAnswer(h)
              /\ HandleResult(buffer.from.eid, ResponseBuffer(h))
           \/ /\ IsEvent(h)
              /\ receives' = receives + 1
              /\ ready' = Tail(ready)
              /\ UNCHANGED <<status, result, queue, iid, timer, buffer, sockq, wire>>
           \/ /\ ~Failing(h) /\ ~IsAnswer(h) /\ ~IsEvent(h)
              /\ ready' = Tail(ready)
              /\ UNCHANGED <<status, result, queue, iid, timer, receives, buffer, sockq, wire>>

-----------------------------------------------------------------------------
(***************************************************************************)
(* boost.asio and the kernel.                                              *)
(***************************************************************************)
Fill(d) == [from |-> d, head |-> IF d.size = 0 THEN buffer.head ELSE d]
Received(ec, size) ==
    [kind |-> "recv", eid |-> NoEid, ec |-> ec, req |-> NoRequest, size |-> size]

PerformReceive ==
    /\ status = "running"
    /\ receives > 0
    /\ \/ /\ sockq # <<>>
          /\ buffer' = Fill(Head(sockq))
          /\ sockq' = Tail(sockq)
          /\ ready' = Append(ready, Received("ok", Head(sockq).size))
          /\ UNCHANGED errors
       \/ /\ errors < MaxErrors
          /\ errors' = errors + 1
          /\ ready' = Append(ready, Received("other", 0))
          /\ UNCHANGED <<buffer, sockq>>
    /\ receives' = receives - 1
    /\ UNCHANGED <<status, issued, dest, result, queue, iid, timer, wire, strays>>

TimerExpires(e) ==
    /\ status = "running"
    /\ timer[e] # NoRequest
    /\ ready' = Append(ready, [kind |-> "timer", eid |-> e, ec |-> "ok", req |-> timer[e]])
    /\ timer' = [timer EXCEPT ![e] = NoRequest]
    /\ UNCHANGED <<status, issued, dest, result, queue, iid, receives, buffer,
                   sockq, wire, strays, errors>>

(***************************************************************************)
(* A device answers a request at any time, or never; the kernel routes one *)
(* response per request to the socket (its tag is released with it).       *)
(***************************************************************************)
Response(w, n) ==
    [eid |-> w.eid, kind |-> "response", iid |-> w.iid, req |-> w.req, size |-> n]

DeviceResponds ==
    /\ status = "running"
    /\ \E w \in wire, n \in HeaderSize..(HeaderSize + 1) :
        /\ sockq' = Append(sockq, Response(w, n))
        /\ wire' = wire \ {w}
    /\ UNCHANGED <<status, issued, dest, result, queue, iid, timer, receives, buffer,
                   ready, strays, errors>>

StrayArrives ==
    /\ status = "running"
    /\ strays < MaxStray
    /\ strays' = strays + 1
    /\ \E d \in Strays : sockq' = Append(sockq, d)
    /\ UNCHANGED <<status, issued, dest, result, queue, iid, timer, receives, buffer,
                   ready, wire, errors>>

Restart ==
    /\ status # "running"
    /\ errors < MaxErrors
    /\ status' = "running"
    /\ receives' = 1
    /\ errors' = errors + 1
    /\ UNCHANGED <<issued, dest, result, queue, iid, timer, buffer, ready, sockq,
                   wire, strays>>

RunHandler == HandleSendMsgCompletion \/ TimerHandler \/ ProcessRecvMsg

Next ==
    \/ \E e \in Eids : Submit(e) \/ TimerExpires(e)
    \/ HandleSendMsgCompletion
    \/ TimerHandler
    \/ ProcessRecvMsg
    \/ PerformReceive
    \/ DeviceResponds
    \/ StrayArrives
    \/ Restart

Spec == Init /\ [][Next]_vars

(***************************************************************************)
(* The event loop keeps running handlers and the clock keeps running.      *)
(* Devices, clients and strays owe nothing.                                *)
(***************************************************************************)
Fairness ==
    /\ WF_vars(RunHandler)
    /\ \A e \in Eids : WF_vars(TimerExpires(e))

FairSpec == Spec /\ Fairness
-----------------------------------------------------------------------------
(***************************************************************************)
(* Properties.                                                             *)
(***************************************************************************)

(* The bytes a callback is given as a success are the response to its own  *)
(* request: late responses and recycled instance identifiers never pair a  *)
(* request with the answer to another one.  The code does not keep the     *)
(* shared buffer for the handler that runs: when another datagram has been *)
(* received behind it, the bytes may be cut off or have a foreign tail,    *)
(* and a datagram shorter than its header may lend its sender to the       *)
(* header of the one before.  Nothing else makes them other than whole.    *)
IsReceived(h) == h.kind = "recv" /\ h.ec = "ok"
Overtaken == \E i \in DOMAIN ready : i > 1 /\ IsReceived(ready[i])
Fits(r, answer) ==
    /\ answer.bytes = "patched" \/ answer.about = r
    /\ answer.bytes = "whole" \/ Overtaken
AnswerMatchesRequest ==
    [][\A r \in Requests :
         result[r] = NoResult /\ result'[r].ec = "ok" => Fits(r, result'[r])]_vars

(* A queued request is never stranded: whatever was dropped, timed out or  *)
(* failed, a send completion, an armed timer or an expired timer of its    *)
(* endpoint is still to come and will call handleResult.                   *)
Wakes(e, h) == h.eid = e /\ h.kind \in {"sent", "timer"}
NoRequestStranded ==
    \A e \in Eids : queue[e] # <<>> =>
        timer[e] # NoRequest \/ \E i \in DOMAIN ready : Wakes(e, ready[i])

(* One request at a time per endpoint: of the requests on the wire, only   *)
(* the front of the queue still waits for its result.                      *)
OnlyFrontOnWire ==
    \A w \in wire : result[w.req] = NoResult => queue[w.eid] # <<>> /\ w.req = Head(queue[w.eid])

(* The requester implements the abstract request channel: in order and     *)
(* exactly once per endpoint; with fairness every request is completed.    *)
Chan == INSTANCE RequestChannel WITH
            pending <- queue,
            completed <- {r \in Requests : result[r] # NoResult}
ChannelSafety == Chan!ChanInit /\ [][Chan!ChanNext]_Chan!chanVars
EveryRequestCompletes ==
    \A r \in Requests : dest[r] # NoEid ~> result[r] # NoResult

(* processRecvMsg's comments (MctpRequester.cpp:110 and :182) say that a   *)
(* packet dropped on the floor is followed by rebinding receive_from:      *)
(* while the daemon runs, a receive is pending or its handler is queued.   *)
AlwaysListening ==
    status = "running" => receives > 0 \/ \E i \in DOMAIN ready : ready[i].kind = "recv"

(* The timer notifies the client whose request went unanswered             *)
(* (MctpRequester.cpp:139): a request is told timed_out only when two      *)
(* seconds passed since that request was sent.                             *)
TimeoutIsOwn ==
    \A r \in Requests : result[r].ec = "timed_out" => result[r].about = r
=============================================================================
