------------------------- MODULE MctpRequesterProofs -------------------------
(***************************************************************************)
(* Theorems about MctpRequester, for every set of endpoints, every number  *)
(* of requests and every number of instance identifiers.                   *)
(***************************************************************************)
EXTENDS MctpRequester, SequenceTheorems, FiniteSetTheorems, TLAPS

-----------------------------------------------------------------------------
(* Types.  Each of the two operators a handler is built from is treated    *)
(* once; the actions then follow.                                          *)

(* NextIid stays within the instance identifiers. *)
LEMMA NextIidType == \A i \in Iids \cup {NoIid} : NextIid(i) \in Iids
  BY RequesterAssumption DEF Iids, NoIid, NextIid

(* The fixed results and datagrams are of their types; an answer is none   *)
(* of the fixed results.                                                   *)
LEMMA ConstantTypes ==
    /\ NoRequest \notin Requests
    /\ NoResult \in Results
    /\ Lost \in Results
    /\ Lost # NoResult
    /\ NoDatagram \in Strays
    /\ NothingReceived \in Buffers
<1>1. NoDatagram \in Strays
  BY RequesterAssumption DEF NoDatagram, Strays, Kinds, Iids, HeaderSize
<1>2. NothingReceived \in Buffers
  BY <1>1 DEF NothingReceived, Buffers, Datagrams
<1> QED BY <1>1, <1>2
        DEF NoRequest, Requests, NoResult, Lost, Failed, Results, Bytes

LEMMA AnswerTypes ==
    /\ \A ec \in ErrorCodes, r \in Requests \cup {NoRequest} : Failed(ec, r) \in Answers
    /\ \A answer \in Answers : answer \in Results /\ answer # NoResult
  BY DEF Failed, Answers, Results, NoResult, ErrorCodes, Bytes

(* What is in the buffer is a datagram whose sender, unless it is foreign, *)
(* is an endpoint.                                                         *)
LEMMA BufferTypes ==
  ASSUME TypeOK
  PROVE  /\ buffer.from \in Datagrams /\ buffer.head \in Datagrams
         /\ buffer.from.eid # NoEid => buffer.from.eid \in Eids
         /\ buffer.head.req \in Requests \cup {NoRequest}
  BY DEF TypeOK, Buffers, Datagrams, Responses, Strays

(* processQueue keeps the types of what it changes, given a queue of       *)
(* requests.                                                               *)
LEMMA ProcessQueueType ==
  ASSUME TypeOK, NEW e \in Eids, NEW q \in Seq(Requests), NEW rdy \in Seq(Handlers),
         ProcessQueue(e, q, rdy)
  PROVE  /\ iid' \in [Eids -> Iids \cup {NoIid}]
         /\ ready' \in Seq(Handlers)
         /\ wire' \in SUBSET Frame
<1>1. CASE q = <<>>
  BY <1>1 DEF ProcessQueue, TypeOK
<1>2. CASE q # <<>>
  <2>1. Head(q) \in Requests
    BY <1>2
  <2>2. iid[e] \in Iids \cup {NoIid}
    BY DEF TypeOK
  <2>3. NextIid(iid[e]) \in Iids
    BY <2>2, NextIidType
  <2>4. iid' = [iid EXCEPT ![e] = NextIid(@)]
    BY <1>2 DEF ProcessQueue
  <2>5. iid' \in [Eids -> Iids \cup {NoIid}]
    BY <2>3, <2>4 DEF TypeOK
  <2>6. PICK ec \in SendErrors :
            /\ wire' = IF ec = "ok"
                         THEN wire \cup {[eid |-> e, iid |-> NextIid(iid[e]), req |-> Head(q)]}
                         ELSE wire
            /\ ready' = Append(rdy, [kind |-> "sent", eid |-> e, ec |-> ec, req |-> Head(q)])
    BY <1>2 DEF ProcessQueue
  <2>7. [eid |-> e, iid |-> NextIid(iid[e]), req |-> Head(q)] \in Frame
    BY <2>1, <2>3 DEF Frame
  <2>8. [kind |-> "sent", eid |-> e, ec |-> ec, req |-> Head(q)] \in Handlers
    BY <2>1 DEF Handlers, SendErrors, ErrorCodes
  <2>9. wire' \in SUBSET Frame
    BY <2>6, <2>7 DEF TypeOK
  <2>10. ready' \in Seq(Handlers)
    BY <2>6, <2>8
  <2> QED BY <2>5, <2>9, <2>10
<1> QED BY <1>1, <1>2

(* The end of the process leaves every variable of its type. *)
LEMMA DieType ==
  ASSUME TypeOK, NEW why \in {"aborted", "undefined"}, NEW res \in [Requests -> Results],
         Die(why, res), UNCHANGED <<issued, dest, strays, errors>>
  PROVE  TypeOK'
<1>1. result' \in [Requests -> Results]
  BY ConstantTypes DEF Die
<1>2. NoIid \in Iids \cup {NoIid}
  OBVIOUS
<1>3. buffer' \in Buffers
  BY ConstantTypes DEF Die
<1> QED BY <1>1, <1>2, <1>3, RequesterAssumption DEF TypeOK, Die

(* handleResult keeps the types, whoever calls it. *)
LEMMA HandleResultType ==
  ASSUME TypeOK, NEW e \in Eids, NEW answer \in Answers,
         ready # <<>>, HandleResult(e, answer), UNCHANGED <<issued, dest, strays, errors>>
  PROVE  TypeOK'
<1> DEFINE r == Head(queue[e])
           res == [result EXCEPT ![r] = answer]
<1>1. Tail(ready) \in Seq(Handlers)
  BY DEF TypeOK
<1>2. answer \in Results
  BY AnswerTypes
<1>3. res \in [Requests -> Results]
  BY <1>2 DEF TypeOK
<1>4. queue[e] \in Seq(Requests)
  BY DEF TypeOK
<1>5. CASE /\ iid[e] = NoIid
           /\ receives' = receives + 1
           /\ ready' = Tail(ready)
           /\ UNCHANGED <<status, result, queue, iid, timer, buffer, sockq, wire>>
  BY <1>1, <1>5 DEF TypeOK
<1>6. CASE /\ iid[e] # NoIid /\ queue[e] = <<>>
           /\ Die("undefined", result)
  <2>1. result \in [Requests -> Results]
    BY DEF TypeOK
  <2> QED BY <1>6, <2>1, DieType
<1>7. CASE /\ queue[e] # <<>> /\ IsFatalError(answer.ec)
           /\ Die("aborted", res)
  BY <1>3, <1>7, DieType
<1>8. CASE /\ queue[e] # <<>> /\ ~IsFatalError(answer.ec)
           /\ result' = res
           /\ timer' = [timer EXCEPT ![e] = NoRequest]
           /\ receives' = receives + 1
           /\ queue' = [queue EXCEPT ![e] = PopFront(@)]
           /\ ProcessQueue(e, PopFront(queue[e]), Tail(ready))
           /\ UNCHANGED <<status, buffer, sockq>>
  <2>1. PopFront(queue[e]) \in Seq(Requests)
    BY <1>4, <1>8 DEF PopFront
  <2>2. queue' \in [Eids -> Seq(Requests)]
    BY <1>8, <2>1 DEF TypeOK
  <2>3. timer' \in [Eids -> Requests \cup {NoRequest}]
    BY <1>8 DEF TypeOK
  <2>4. /\ iid' \in [Eids -> Iids \cup {NoIid}]
        /\ ready' \in Seq(Handlers)
        /\ wire' \in SUBSET Frame
    BY <1>1, <1>8, <2>1, ProcessQueueType
  <2>5. receives' \in Nat
    BY <1>8 DEF TypeOK
  <2> QED BY <1>3, <1>8, <2>2, <2>3, <2>4, <2>5 DEF TypeOK
<1> QED BY <1>5, <1>6, <1>7, <1>8 DEF HandleResult

(* processRecvMsg handles a result, or changes nothing but the queue of    *)
(* handlers and the number of receives.                                    *)
LEMMA ReceiveOutcomes ==
  ASSUME TypeOK, ProcessRecvMsg
  PROVE  /\ ready # <<>> /\ Head(ready).kind = "recv" /\ UNCHANGED <<issued, dest, strays, errors>>
         /\ \/ \E e \in Eids, answer \in Answers : HandleResult(e, answer)
            \/ /\ receives' \in {receives, receives + 1}
               /\ ready' = Tail(ready)
               /\ UNCHANGED <<status, result, queue, iid, timer, buffer, sockq, wire>>
<1> DEFINE h == Head(ready)
<1>1. ready # <<>> /\ h.kind = "recv" /\ UNCHANGED <<issued, dest, strays, errors>>
  BY DEF ProcessRecvMsg, Running
<1>2. h.ec \in ErrorCodes
  BY <1>1 DEF TypeOK, Handlers
<1>3. CASE Failing(h) /\ HandleResult(buffer.from.eid, Failed(h.ec, NoRequest))
  BY <1>1, <1>2, <1>3, BufferTypes, AnswerTypes DEF Failing
<1>4. CASE IsAnswer(h) /\ HandleResult(buffer.from.eid, ResponseBuffer(h))
  <2>1. ResponseBuffer(h) \in Answers
    BY BufferTypes DEF ResponseBuffer, Answers, ErrorCodes, Bytes
  <2> QED BY <1>1, <1>4, <2>1, BufferTypes DEF IsAnswer, Decoded
<1> QED BY <1>1, <1>3, <1>4 DEF ProcessRecvMsg

(* Every action keeps the types. *)
LEMMA TypeStep ==
  ASSUME TypeOK, [Next]_vars
  PROVE  TypeOK'
<1>1. ASSUME NEW e \in Eids, Submit(e) PROVE TypeOK'
  <2>1. issued + 1 \in Requests /\ issued' \in 0..MaxRequests
    BY <1>1, RequesterAssumption DEF Submit, TypeOK, Requests
  <2>2. Append(queue[e], issued + 1) \in Seq(Requests)
    BY <2>1 DEF TypeOK
  <2>3. queue' \in [Eids -> Seq(Requests)] /\ dest' \in [Requests -> Eids \cup {NoEid}]
    BY <1>1, <2>1, <2>2 DEF Submit, TypeOK
  <2>4. /\ iid' \in [Eids -> Iids \cup {NoIid}]
        /\ ready' \in Seq(Handlers)
        /\ wire' \in SUBSET Frame
    <3>1. CASE ProcessQueue(e, Append(queue[e], issued + 1), ready)
      <4>1. ready \in Seq(Handlers)
        BY DEF TypeOK
      <4> QED BY <2>2, <3>1, <4>1, ProcessQueueType
    <3>2. CASE UNCHANGED <<iid, wire, ready>>
      BY <3>2 DEF TypeOK
    <3> QED BY <1>1, <3>1, <3>2 DEF Submit
  <2> QED BY <1>1, <2>1, <2>3, <2>4 DEF Submit, TypeOK
<1>2. ASSUME NEW e \in Eids, TimerExpires(e) PROVE TypeOK'
  <2>1. [kind |-> "timer", eid |-> e, ec |-> "ok", req |-> timer[e]] \in Handlers
    BY <1>2 DEF TimerExpires, TypeOK, Handlers, ErrorCodes
  <2>2. ready' \in Seq(Handlers)
    BY <1>2, <2>1 DEF TimerExpires, TypeOK
  <2> QED BY <1>2, <2>2 DEF TimerExpires, TypeOK
<1>3. ASSUME HandleSendMsgCompletion PROVE TypeOK'
  <2> DEFINE h == Head(ready)
  <2>1. h \in Handlers /\ Tail(ready) \in Seq(Handlers)
    BY <1>3 DEF HandleSendMsgCompletion, Running, TypeOK
  <2>2. h.ec \in ErrorCodes /\ h.req \in Requests /\ h.eid \in Eids
    BY <1>3, <2>1 DEF Handlers, HandleSendMsgCompletion, Running
  <2>3. ready # <<>> /\ UNCHANGED <<issued, dest, strays, errors>>
    BY <1>3 DEF HandleSendMsgCompletion, Running
  <2>4. CASE HandleResult(h.eid, Failed(h.ec, h.req))
    BY <2>2, <2>3, <2>4, AnswerTypes, HandleResultType
  <2>5. CASE /\ ArmTimer(h.eid, h.req)
             /\ ready' = Tail(ready)
             /\ UNCHANGED <<status, result, queue, iid, receives, buffer, sockq, wire>>
    BY <2>1, <2>2, <2>3, <2>5 DEF TypeOK, ArmTimer
  <2> QED BY <1>3, <2>4, <2>5 DEF HandleSendMsgCompletion
<1>4. ASSUME TimerHandler PROVE TypeOK'
  <2> DEFINE h == Head(ready)
  <2>1. h \in Handlers
    BY <1>4 DEF TimerHandler, Running, TypeOK
  <2>2. h.req \in Requests /\ h.eid \in Eids /\ "timed_out" \in ErrorCodes
    BY <1>4, <2>1 DEF Handlers, TimerHandler, Running, ErrorCodes
  <2>3. /\ ready # <<>> /\ UNCHANGED <<issued, dest, strays, errors>>
        /\ HandleResult(h.eid, Failed("timed_out", h.req))
    BY <1>4 DEF TimerHandler, Running
  <2> QED BY <2>2, <2>3, AnswerTypes, HandleResultType
<1>5. ASSUME ProcessRecvMsg PROVE TypeOK'
  <2>1. Tail(ready) \in Seq(Handlers) /\ ready # <<>>
    BY <1>5, ReceiveOutcomes DEF TypeOK
  <2>2. CASE /\ receives' \in {receives, receives + 1}
             /\ ready' = Tail(ready)
             /\ UNCHANGED <<status, result, queue, iid, timer, buffer, sockq, wire>>
    BY <1>5, <2>1, <2>2, ReceiveOutcomes DEF TypeOK
  <2> QED BY <1>5, <2>1, <2>2, ReceiveOutcomes, HandleResultType
<1>6. ASSUME PerformReceive PROVE TypeOK'
  <2>1. sockq \in Seq(Datagrams) /\ ready \in Seq(Handlers) /\ buffer \in Buffers
    BY DEF TypeOK
  <2>2. \A d \in Datagrams : d.size \in Sizes /\ Fill(d) \in Buffers
    BY <2>1 DEF Datagrams, Responses, Strays, Sizes, HeaderSize, Fill, Buffers
  <2>3. \A ec \in ErrorCodes, n \in Sizes : Received(ec, n) \in Handlers
    BY DEF Received, Handlers
  <2>4. ready' \in Seq(Handlers) /\ sockq' \in Seq(Datagrams) /\ buffer' \in Buffers
    <3>1. CASE sockq # <<>> /\ buffer' = Fill(Head(sockq)) /\ sockq' = Tail(sockq)
               /\ ready' = Append(ready, Received("ok", Head(sockq).size))
      <4>1. Head(sockq) \in Datagrams /\ Tail(sockq) \in Seq(Datagrams) /\ "ok" \in ErrorCodes
        BY <2>1, <3>1 DEF ErrorCodes
      <4>2. Received("ok", Head(sockq).size) \in Handlers /\ Fill(Head(sockq)) \in Buffers
        BY <2>2, <2>3, <4>1
      <4> QED BY <2>1, <3>1, <4>1, <4>2
    <3>2. CASE UNCHANGED <<buffer, sockq>> /\ ready' = Append(ready, Received("other", 0))
      <4>1. Received("other", 0) \in Handlers
        BY <2>3 DEF ErrorCodes, Sizes, HeaderSize
      <4> QED BY <2>1, <3>2, <4>1
    <3> QED BY <1>6, <3>1, <3>2 DEF PerformReceive
  <2>5. errors' \in 0..MaxErrors /\ receives' \in Nat
    BY <1>6, RequesterAssumption DEF PerformReceive, TypeOK
  <2> QED BY <1>6, <2>4, <2>5 DEF PerformReceive, TypeOK
<1>7. ASSUME DeviceResponds PROVE TypeOK'
  <2>1. PICK w \in wire, n \in HeaderSize..(HeaderSize + 1) :
            /\ sockq' = Append(sockq, Response(w, n))
            /\ wire' = wire \ {w}
    BY <1>7 DEF DeviceResponds
  <2>2. w \in Frame
    BY DEF TypeOK
  <2>3. Response(w, n) \in Datagrams
    BY <2>2 DEF Response, Datagrams, Responses, Frame
  <2> QED BY <1>7, <2>1, <2>3 DEF DeviceResponds, TypeOK
<1>8. ASSUME StrayArrives PROVE TypeOK'
  <2>1. PICK d \in Strays : sockq' = Append(sockq, d)
    BY <1>8 DEF StrayArrives
  <2>2. d \in Datagrams
    BY DEF Datagrams
  <2> QED BY <1>8, <2>1, <2>2, RequesterAssumption DEF StrayArrives, TypeOK
<1>9. ASSUME Restart PROVE TypeOK'
  BY <1>9, RequesterAssumption DEF Restart, TypeOK
<1>10. CASE UNCHANGED vars
  BY <1>10 DEF TypeOK, vars
<1> QED BY <1>1, <1>2, <1>3, <1>4, <1>5, <1>6, <1>7, <1>8, <1>9, <1>10 DEF Next

(* Type correctness of the requester. *)
THEOREM TypeCorrect == Spec => []TypeOK
<1>1. Init => TypeOK
  BY ConstantTypes, RequesterAssumption DEF Init, TypeOK
<1>2. TypeOK /\ [Next]_vars => TypeOK'
  BY TypeStep
<1> QED BY <1>1, <1>2, PTL DEF Spec

-----------------------------------------------------------------------------
(* No request is stranded.  The invariant is inductive once it is known    *)
(* that an endpoint without an instance identifier has an empty queue:     *)
(* handleResult ignores such an endpoint without looking at its queue.     *)

Untouched == \A e \in Eids : iid[e] = NoIid => queue[e] = <<>>
StrandedInv == TypeOK /\ Untouched /\ NoRequestStranded

(* processQueue appends at most one handler to those it is given, the      *)
(* completion of a send if its queue is not empty.                         *)
LEMMA ProcessQueueWakes ==
  ASSUME NEW e \in Eids, NEW q \in Seq(Requests), NEW rdy \in Seq(Handlers),
         ProcessQueue(e, q, rdy)
  PROVE  /\ q # <<>> => \E i \in DOMAIN ready' : Wakes(e, ready'[i])
         /\ \A x \in Eids : (\E i \in DOMAIN rdy : Wakes(x, rdy[i]))
                                => \E i \in DOMAIN ready' : Wakes(x, ready'[i])
<1>1. CASE q = <<>>
  BY <1>1 DEF ProcessQueue
<1>2. CASE q # <<>>
  <2>1. PICK ec \in SendErrors :
            ready' = Append(rdy, [kind |-> "sent", eid |-> e, ec |-> ec, req |-> Head(q)])
    BY <1>2 DEF ProcessQueue
  <2> DEFINE h == [kind |-> "sent", eid |-> e, ec |-> ec, req |-> Head(q)]
  <2>2. h \in Handlers
    BY <1>2 DEF Handlers, SendErrors, ErrorCodes
  <2>3. /\ Len(ready') = Len(rdy) + 1
        /\ \A i \in DOMAIN rdy : i \in DOMAIN ready' /\ ready'[i] = rdy[i]
        /\ ready'[Len(rdy) + 1] = h /\ Len(rdy) + 1 \in DOMAIN ready'
    BY <2>1, <2>2
  <2>4. Wakes(e, h)
    BY DEF Wakes
  <2> QED BY <2>3, <2>4
<1> QED BY <1>1, <1>2

(* Popping a handler that wakes nobody else leaves everybody else awake. *)
LEMMA TailWakes ==
  ASSUME NEW s \in Seq(Handlers), s # <<>>, NEW x \in Eids, ~Wakes(x, Head(s)),
         NEW i \in DOMAIN s, Wakes(x, s[i])
  PROVE  \E j \in DOMAIN Tail(s) : Wakes(x, Tail(s)[j])
<1>1. i # 1
  OBVIOUS
<1>2. i - 1 \in DOMAIN Tail(s) /\ Tail(s)[i - 1] = s[i]
  BY <1>1
<1> QED BY <1>2

(* handleResult for an endpoint, run by a handler that wakes no other one. *)
LEMMA HandleResultWakes ==
  ASSUME StrandedInv, NEW e \in Eids, NEW answer \in Answers, ready # <<>>,
         \A x \in Eids \ {e} : ~Wakes(x, Head(ready)), HandleResult(e, answer)
  PROVE  Untouched' /\ NoRequestStranded'
<1> DEFINE Awake(x, tmr, rdy) == tmr[x] # NoRequest \/ \E i \in DOMAIN rdy : Wakes(x, rdy[i])
<1>1. /\ ready \in Seq(Handlers) /\ Tail(ready) \in Seq(Handlers)
      /\ queue \in [Eids -> Seq(Requests)] /\ iid \in [Eids -> Iids \cup {NoIid}]
      /\ timer \in [Eids -> Requests \cup {NoRequest}]
  BY DEF StrandedInv, TypeOK
<1>2. \A x \in Eids : queue[x] # <<>> => Awake(x, timer, ready)
  BY DEF StrandedInv, NoRequestStranded
<1>3. \A x \in Eids \ {e} : queue[x] # <<>> => Awake(x, timer, Tail(ready))
  BY <1>1, <1>2, TailWakes
<1>4. CASE /\ iid[e] = NoIid
           /\ ready' = Tail(ready)
           /\ UNCHANGED <<queue, iid, timer>>
  <2>1. queue[e] = <<>>
    BY <1>4 DEF StrandedInv, Untouched
  <2>2. \A x \in Eids : queue'[x] # <<>> => Awake(x, timer', ready')
    BY <1>3, <1>4, <2>1
  <2> QED BY <1>4, <2>2 DEF StrandedInv, Untouched, NoRequestStranded
<1>5. CASE queue' = [x \in Eids |-> <<>>]
  BY <1>5 DEF Untouched, NoRequestStranded
<1>6. CASE /\ queue[e] # <<>>
           /\ timer' = [timer EXCEPT ![e] = NoRequest]
           /\ queue' = [queue EXCEPT ![e] = PopFront(@)]
           /\ ProcessQueue(e, PopFront(queue[e]), Tail(ready))
  <2>1. PopFront(queue[e]) \in Seq(Requests)
    BY <1>1, <1>6 DEF PopFront
  <2>2. queue'[e] # <<>> => \E i \in DOMAIN ready' : Wakes(e, ready'[i])
    BY <1>1, <1>6, <2>1, ProcessQueueWakes
  <2>3. \A x \in Eids \ {e} : queue'[x] = queue[x] /\ timer'[x] = timer[x]
    BY <1>1, <1>6
  <2>4. \A x \in Eids \ {e} : queue[x] # <<>> => Awake(x, timer, ready')
    BY <1>1, <1>3, <1>6, <2>1, ProcessQueueWakes
  <2>5. NoRequestStranded'
    BY <2>2, <2>3, <2>4 DEF NoRequestStranded
  <2>6. Untouched'
    <3>1. \A x \in Eids \ {e} : iid'[x] = iid[x]
      BY <1>1, <1>6 DEF ProcessQueue
    <3>2. iid[e] # NoIid
      BY <1>6 DEF StrandedInv, Untouched
    <3>3. iid'[e] # NoIid
      <4>1. iid[e] \in Iids /\ NextIid(iid[e]) \in Iids
        BY <1>1, <3>2, NextIidType
      <4>2. NoIid \notin Iids
        BY RequesterAssumption DEF Iids, NoIid
      <4> QED BY <1>1, <1>6, <3>2, <4>1, <4>2 DEF ProcessQueue
    <3> QED BY <2>3, <3>1, <3>3 DEF StrandedInv, Untouched
  <2> QED BY <2>5, <2>6
<1> QED BY <1>4, <1>5, <1>6 DEF HandleResult, Die

(* One step keeps every queued request awake. *)
LEMMA StrandedStep ==
  ASSUME StrandedInv, [Next]_vars
  PROVE  Untouched' /\ NoRequestStranded'
<1> USE DEF StrandedInv
<1> DEFINE h == Head(ready)
           Awake(x, tmr, rdy) == tmr[x] # NoRequest \/ \E i \in DOMAIN rdy : Wakes(x, rdy[i])
<1>1. /\ ready \in Seq(Handlers) /\ queue \in [Eids -> Seq(Requests)]
      /\ iid \in [Eids -> Iids \cup {NoIid}]
      /\ timer \in [Eids -> Requests \cup {NoRequest}]
  BY DEF TypeOK
<1>2. \A x \in Eids : queue[x] # <<>> => Awake(x, timer, ready)
  BY DEF NoRequestStranded
<1>3. ASSUME NEW e \in Eids, Submit(e) PROVE Untouched' /\ NoRequestStranded'
  <2>1. issued + 1 \in Requests
    BY <1>3, RequesterAssumption DEF Submit, TypeOK, Requests
  <2>2. /\ Append(queue[e], issued + 1) \in Seq(Requests)
        /\ Append(queue[e], issued + 1) # <<>>
    BY <1>1, <2>1, AppendProperties
  <2>3. /\ queue' = [queue EXCEPT ![e] = Append(@, issued + 1)]
        /\ timer' = timer
    BY <1>3 DEF Submit
  <2>4. CASE ProcessQueue(e, Append(queue[e], issued + 1), ready)
    <3>1. \E i \in DOMAIN ready' : Wakes(e, ready'[i])
      BY <1>1, <2>2, <2>4, ProcessQueueWakes
    <3>2. \A x \in Eids \ {e} : queue'[x] # <<>> => Awake(x, timer', ready')
      BY <1>1, <1>2, <2>2, <2>3, <2>4, ProcessQueueWakes
    <3>3. NoRequestStranded'
      BY <3>1, <3>2 DEF NoRequestStranded
    <3>4. iid'[e] # NoIid /\ \A x \in Eids \ {e} : iid'[x] = iid[x]
      <4>1. NextIid(iid[e]) \in Iids
        BY <1>1, NextIidType
      <4>2. NoIid \notin Iids
        BY RequesterAssumption DEF Iids, NoIid
      <4> QED BY <1>1, <2>2, <2>4, <4>1, <4>2 DEF ProcessQueue
    <3>5. Untouched'
      BY <1>1, <2>3, <3>4 DEF Untouched
    <3> QED BY <3>3, <3>5
  <2>5. CASE ~Idle(e) /\ UNCHANGED <<iid, wire, ready>>
    <3>1. queue[e] # <<>> /\ iid[e] # NoIid
      BY <2>5 DEF Idle, Untouched
    <3> QED BY <1>1, <1>2, <2>3, <2>5, <3>1 DEF Untouched, NoRequestStranded
  <2> QED BY <1>3, <2>4, <2>5 DEF Submit
<1>4. ASSUME NEW e \in Eids, TimerExpires(e) PROVE Untouched' /\ NoRequestStranded'
  <2> DEFINE g == [kind |-> "timer", eid |-> e, ec |-> "ok", req |-> timer[e]]
  <2>1. g \in Handlers /\ Wakes(e, g)
    BY <1>1, <1>4 DEF TimerExpires, Handlers, ErrorCodes, Wakes
  <2>2. /\ ready' = Append(ready, g)
        /\ timer' = [timer EXCEPT ![e] = NoRequest]
        /\ UNCHANGED <<queue, iid>>
    BY <1>4 DEF TimerExpires
  <2>3. /\ \A i \in DOMAIN ready : i \in DOMAIN ready' /\ ready'[i] = ready[i]
        /\ Len(ready) + 1 \in DOMAIN ready' /\ ready'[Len(ready) + 1] = g
    BY <1>1, <2>1, <2>2
  <2>4. \A x \in Eids : queue[x] # <<>> => Awake(x, timer', ready')
    BY <1>1, <1>2, <2>1, <2>2, <2>3
  <2> QED BY <2>2, <2>4 DEF Untouched, NoRequestStranded
<1>5. ASSUME HandleSendMsgCompletion PROVE Untouched' /\ NoRequestStranded'
  <2>1. ready # <<>> /\ h.kind = "sent"
    BY <1>5 DEF HandleSendMsgCompletion, Running
  <2>2. h.eid \in Eids /\ h.req \in Requests /\ h.ec \in ErrorCodes
    BY <1>1, <2>1 DEF Handlers
  <2>3. \A x \in Eids \ {h.eid} : ~Wakes(x, h)
    BY DEF Wakes
  <2>4. CASE HandleResult(h.eid, Failed(h.ec, h.req))
    BY <2>1, <2>2, <2>3, <2>4, AnswerTypes, HandleResultWakes
  <2>5. CASE /\ timer' = [timer EXCEPT ![h.eid] = h.req]
             /\ ready' = Tail(ready)
             /\ UNCHANGED <<queue, iid>>
    <3>1. h.req # NoRequest
      BY <2>2, ConstantTypes
    <3>2. \A x \in Eids \ {h.eid} : queue[x] # <<>> => Awake(x, timer, Tail(ready))
      BY <1>1, <1>2, <2>1, <2>3, TailWakes
    <3>3. \A x \in Eids : queue[x] # <<>> => Awake(x, timer', ready')
      BY <1>1, <2>2, <2>5, <3>1, <3>2
    <3> QED BY <2>5, <3>3 DEF Untouched, NoRequestStranded
  <2> QED BY <1>5, <2>4, <2>5 DEF HandleSendMsgCompletion, ArmTimer
<1>6. ASSUME TimerHandler PROVE Untouched' /\ NoRequestStranded'
  <2>1. ready # <<>> /\ h.kind = "timer" /\ HandleResult(h.eid, Failed("timed_out", h.req))
    BY <1>6 DEF TimerHandler, Running
  <2>2. h.eid \in Eids /\ h.req \in Requests /\ "timed_out" \in ErrorCodes
    BY <1>1, <2>1 DEF Handlers, ErrorCodes
  <2>3. \A x \in Eids \ {h.eid} : ~Wakes(x, h)
    BY DEF Wakes
  <2> QED BY <2>1, <2>2, <2>3, AnswerTypes, HandleResultWakes
<1>7. ASSUME ProcessRecvMsg PROVE Untouched' /\ NoRequestStranded'
  <2>1. ready # <<>> /\ \A x \in Eids : ~Wakes(x, h)
    BY <1>7, ReceiveOutcomes DEF Wakes
  <2>2. ASSUME NEW e \in Eids, NEW answer \in Answers, HandleResult(e, answer)
        PROVE  Untouched' /\ NoRequestStranded'
    BY <2>1, <2>2, HandleResultWakes
  <2>3. CASE ready' = Tail(ready) /\ UNCHANGED <<queue, iid, timer>>
    <3>1. \A x \in Eids : queue[x] # <<>> => Awake(x, timer, Tail(ready))
      BY <1>1, <1>2, <2>1, TailWakes
    <3> QED BY <2>3, <3>1 DEF Untouched, NoRequestStranded
  <2> QED BY <1>7, <2>2, <2>3, ReceiveOutcomes
<1>8. ASSUME PerformReceive PROVE Untouched' /\ NoRequestStranded'
  <2>1. PICK ec \in ErrorCodes, n \in Sizes : ready' = Append(ready, Received(ec, n))
    <3>1. sockq \in Seq(Datagrams) /\ \A d \in Datagrams : d.size \in Sizes
      BY DEF TypeOK, Datagrams, Responses, Strays, Sizes, HeaderSize
    <3>2. sockq # <<>> => Head(sockq).size \in Sizes
      BY <3>1
    <3> QED BY <1>8, <3>2 DEF PerformReceive, ErrorCodes, Sizes, HeaderSize
  <2>2. \A i \in DOMAIN ready : i \in DOMAIN ready' /\ ready'[i] = ready[i]
    BY <1>1, <2>1
  <2>3. UNCHANGED <<queue, iid, timer>>
    BY <1>8 DEF PerformReceive
  <2>4. \A x \in Eids : queue[x] # <<>> => Awake(x, timer, ready')
    BY <1>2, <2>2
  <2> QED BY <2>3, <2>4 DEF Untouched, NoRequestStranded
<1>9. CASE UNCHANGED <<queue, iid, timer, ready>>
  BY <1>9 DEF Untouched, NoRequestStranded
<1> QED BY <1>3, <1>4, <1>5, <1>6, <1>7, <1>8, <1>9
        DEF Next, vars, DeviceResponds, StrayArrives, Restart

(* Whatever is dropped, delayed or failed, every queued request still has  *)
(* a completion to come that calls handleResult for its endpoint.          *)
THEOREM NeverStranded == Spec => []NoRequestStranded
<1>1. Init => StrandedInv
  BY ConstantTypes, RequesterAssumption
     DEF Init, StrandedInv, TypeOK, Untouched, NoRequestStranded
<1>2. StrandedInv /\ [Next]_vars => StrandedInv'
  <2> SUFFICES ASSUME StrandedInv, [Next]_vars PROVE StrandedInv'
    OBVIOUS
  <2>1. TypeOK'
    BY TypeStep DEF StrandedInv
  <2> QED BY <2>1, StrandedStep DEF StrandedInv
<1>3. StrandedInv => NoRequestStranded
  BY DEF StrandedInv
<1> QED BY <1>1, <1>2, <1>3, PTL DEF Spec

-----------------------------------------------------------------------------
(* One request at a time per endpoint.  The invariant is inductive as it   *)
(* stands: an endpoint sends only the new front of its queue, and gives    *)
(* the old front its result before it does.                                *)

(* processQueue puts nothing but the front of its queue on the wire. *)
LEMMA ProcessQueueWire ==
  ASSUME NEW e \in Eids, NEW q, NEW rdy, ProcessQueue(e, q, rdy), NEW w \in wire', w \notin wire
  PROVE  q # <<>> /\ w.eid = e /\ w.req = Head(q)
<1>1. q # <<>>
  BY DEF ProcessQueue
<1>2. PICK ec \in SendErrors :
          wire' = IF ec = "ok"
                    THEN wire \cup {[eid |-> e, iid |-> NextIid(iid[e]), req |-> Head(q)]}
                    ELSE wire
  BY <1>1 DEF ProcessQueue
<1>3. w = [eid |-> e, iid |-> NextIid(iid[e]), req |-> Head(q)]
  BY <1>2
<1> QED BY <1>1, <1>3

(* handleResult keeps the invariant. *)
LEMMA HandleResultWire ==
  ASSUME TypeOK, OnlyFrontOnWire, NEW e \in Eids, NEW answer \in Answers, HandleResult(e, answer)
  PROVE  OnlyFrontOnWire'
<1>1. CASE UNCHANGED <<result, queue, wire>>
  BY <1>1 DEF OnlyFrontOnWire
<1>2. CASE wire' = {}
  BY <1>2 DEF OnlyFrontOnWire
<1>3. CASE /\ queue[e] # <<>>
           /\ result' = [result EXCEPT ![Head(queue[e])] = answer]
           /\ queue' = [queue EXCEPT ![e] = PopFront(@)]
           /\ ProcessQueue(e, PopFront(queue[e]), Tail(ready))
  <2> SUFFICES ASSUME NEW w \in wire', result'[w.req] = NoResult
               PROVE  queue'[w.eid] # <<>> /\ w.req = Head(queue'[w.eid])
    BY DEF OnlyFrontOnWire
  <2>1. queue \in [Eids -> Seq(Requests)] /\ result \in [Requests -> Results]
        /\ wire \in SUBSET Frame
    BY DEF TypeOK
  <2>2. queue'[e] = PopFront(queue[e])
    BY <1>3, <2>1
  <2>3. CASE w \notin wire
    BY <1>3, <2>2, <2>3, ProcessQueueWire
  <2>4. CASE w \in wire
    <3>1. w.req \in Requests /\ w.eid \in Eids
      BY <2>1, <2>4 DEF Frame
    <3>2. answer # NoResult
      BY AnswerTypes
    <3>3. w.req # Head(queue[e])
      BY <1>3, <2>1, <3>1, <3>2
    <3>4. result[w.req] = NoResult
      BY <1>3, <2>1, <3>1, <3>3
    <3>5. queue[w.eid] # <<>> /\ w.req = Head(queue[w.eid])
      BY <2>4, <3>4 DEF OnlyFrontOnWire
    <3>6. w.eid # e
      BY <3>3, <3>5
    <3> QED BY <1>3, <2>1, <3>1, <3>5, <3>6
  <2> QED BY <2>3, <2>4
<1> QED BY <1>1, <1>2, <1>3 DEF HandleResult, Die

(* One step keeps the invariant. *)
LEMMA WireStep ==
  ASSUME TypeOK, OnlyFrontOnWire, [Next]_vars
  PROVE  OnlyFrontOnWire'
<1> DEFINE h == Head(ready)
<1>1. ASSUME NEW e \in Eids, Submit(e) PROVE OnlyFrontOnWire'
  <2> DEFINE q == Append(queue[e], issued + 1)
  <2>1. issued + 1 \in Requests
    BY <1>1, RequesterAssumption DEF Submit, TypeOK, Requests
  <2>2. queue \in [Eids -> Seq(Requests)] /\ wire \in SUBSET Frame
    BY DEF TypeOK
  <2>3. queue' = [queue EXCEPT ![e] = q] /\ result' = result
    BY <1>1 DEF Submit
  <2>4. queue[e] # <<>> => q # <<>> /\ Head(q) = Head(queue[e])
    BY <2>1, <2>2, AppendProperties
  <2>5. q # <<>>
    BY <2>1, <2>2, AppendProperties
  <2> SUFFICES ASSUME NEW w \in wire', result'[w.req] = NoResult
               PROVE  queue'[w.eid] # <<>> /\ w.req = Head(queue'[w.eid])
    BY DEF OnlyFrontOnWire
  <2>6. CASE w \in wire
    <3>1. queue[w.eid] # <<>> /\ w.req = Head(queue[w.eid])
      BY <2>3, <2>6 DEF OnlyFrontOnWire
    <3>2. w.eid \in Eids
      BY <2>2, <2>6 DEF Frame
    <3> QED BY <2>2, <2>3, <2>4, <3>1, <3>2
  <2>7. CASE w \notin wire
    <3>1. ProcessQueue(e, q, ready)
      BY <1>1, <2>7 DEF Submit
    <3>2. w.eid = e /\ w.req = Head(q)
      BY <2>7, <3>1, ProcessQueueWire
    <3> QED BY <2>2, <2>3, <2>5, <3>2
  <2> QED BY <2>6, <2>7
<1>2. ASSUME HandleSendMsgCompletion PROVE OnlyFrontOnWire'
  <2>1. h.eid \in Eids /\ h.req \in Requests /\ h.ec \in ErrorCodes
    BY <1>2 DEF HandleSendMsgCompletion, Running, TypeOK, Handlers
  <2>2. CASE HandleResult(h.eid, Failed(h.ec, h.req))
    BY <2>1, <2>2, AnswerTypes, HandleResultWire
  <2>3. CASE UNCHANGED <<result, queue, wire>>
    BY <2>3 DEF OnlyFrontOnWire
  <2> QED BY <1>2, <2>2, <2>3 DEF HandleSendMsgCompletion
<1>3. ASSUME TimerHandler PROVE OnlyFrontOnWire'
  <2>1. h.eid \in Eids /\ h.req \in Requests /\ "timed_out" \in ErrorCodes
    BY <1>3 DEF TimerHandler, Running, TypeOK, Handlers, ErrorCodes
  <2> QED BY <1>3, <2>1, AnswerTypes, HandleResultWire DEF TimerHandler
<1>4. ASSUME ProcessRecvMsg PROVE OnlyFrontOnWire'
  <2>1. CASE UNCHANGED <<result, queue, wire>>
    BY <2>1 DEF OnlyFrontOnWire
  <2> QED BY <1>4, <2>1, ReceiveOutcomes, HandleResultWire
<1>5. CASE wire' \subseteq wire /\ UNCHANGED <<result, queue>>
  BY <1>5 DEF OnlyFrontOnWire
<1> QED BY <1>1, <1>2, <1>3, <1>4, <1>5
        DEF Next, vars, TimerExpires, PerformReceive, DeviceResponds, StrayArrives, Restart

(* One request at a time per endpoint. *)
THEOREM OneAtATime == Spec => []OnlyFrontOnWire
<1>1. Init => OnlyFrontOnWire
  BY DEF Init, OnlyFrontOnWire
<1>2. TypeOK /\ OnlyFrontOnWire /\ [Next]_vars => OnlyFrontOnWire'
  BY WireStep
<1> QED BY <1>1, <1>2, TypeCorrect, PTL DEF Spec

-----------------------------------------------------------------------------
(* The requester implements RequestChannel.  A step completes exactly the  *)
(* front of a queue, and the end of the process exactly what is queued,    *)
(* because a request is queued once, at its own endpoint, for as long as   *)
(* it has no result.                                                       *)

Issued == \A r \in Requests : dest[r] # NoEid <=> r <= issued
NoResultYet == \A r \in Requests : issued < r => result[r] = NoResult
QueuedWaits == \A e \in Eids : \A i \in DOMAIN queue[e] :
                   dest[queue[e][i]] = e /\ result[queue[e][i]] = NoResult
WaitingQueued == \A r \in Requests : dest[r] # NoEid /\ result[r] = NoResult =>
                   \E i \in DOMAIN queue[dest[r]] : queue[dest[r]][i] = r
Increasing == \A e \in Eids : \A i, j \in DOMAIN queue[e] : i < j => queue[e][i] < queue[e][j]

QueueInv == Issued /\ NoResultYet /\ QueuedWaits /\ WaitingQueued /\ Increasing

Completed == {r \in Requests : result[r] # NoResult}

(* What is outstanding in the channel is what waits for a result. *)
LEMMA OutstandingWaits ==
  ASSUME TypeOK, QueueInv
  PROVE  Chan!Outstanding = {r \in Requests : dest[r] # NoEid /\ result[r] = NoResult}
<1>1. queue \in [Eids -> Seq(Requests)] /\ dest \in [Requests -> Eids \cup {NoEid}]
  BY DEF TypeOK
<1>2. ASSUME NEW r \in Requests, NEW e \in Eids, NEW i \in DOMAIN queue[e], queue[e][i] = r
      PROVE  dest[r] # NoEid /\ result[r] = NoResult
  BY <1>2, RequesterAssumption DEF QueueInv, QueuedWaits
<1>3. ASSUME NEW r \in Requests, dest[r] # NoEid, result[r] = NoResult
      PROVE  \E e \in Eids : \E i \in DOMAIN queue[e] : queue[e][i] = r
  <2>1. dest[r] \in Eids
    BY <1>1, <1>3
  <2> QED BY <1>3, <2>1 DEF QueueInv, WaitingQueued
<1> QED BY <1>2, <1>3 DEF Chan!Outstanding, Chan!Requests, Requests

(* The end of the process discards exactly the outstanding requests, the   *)
(* one whose callback just got a fatal error included.                     *)
LEMMA DieRefines ==
  ASSUME TypeOK, QueueInv, NEW why, NEW res \in [Requests -> Results],
         UNCHANGED <<issued, dest>>, Die(why, res),
         \A r \in Requests : \/ res[r] = result[r]
                             \/ res[r] # NoResult /\ result[r] = NoResult /\ dest[r] # NoEid
  PROVE  QueueInv' /\ Chan!ChanDie
<1>1. result \in [Requests -> Results]
  BY DEF TypeOK
<1>2. /\ queue' = [e \in Eids |-> <<>>]
      /\ \A r \in Requests : result'[r] =
            IF dest[r] # NoEid /\ res[r] = NoResult THEN Lost ELSE res[r]
  BY DEF Die
<1>3. Lost # NoResult
  BY ConstantTypes
<1>4. \A r \in Requests : result'[r] # NoResult <=> result[r] # NoResult \/ dest[r] # NoEid
  BY <1>2, <1>3
<1>5. QueueInv'
  <2>1. Issued' /\ QueuedWaits' /\ Increasing'
    BY <1>2 DEF QueueInv, Issued, QueuedWaits, Increasing
  <2>2. NoResultYet'
    <3> SUFFICES ASSUME NEW r \in Requests, issued < r PROVE result'[r] = NoResult
      BY DEF NoResultYet
    <3>1. issued \in Nat /\ r \in Nat
      BY RequesterAssumption DEF TypeOK, Requests
    <3>2. dest[r] = NoEid /\ result[r] = NoResult
      BY <3>1 DEF QueueInv, Issued, NoResultYet
    <3> QED BY <1>4, <3>2
  <2>3. WaitingQueued'
    BY <1>4 DEF WaitingQueued
  <2> QED BY <2>1, <2>2, <2>3 DEF QueueInv
<1>6. Completed' = Completed \cup Chan!Outstanding
  BY <1>4, OutstandingWaits DEF Completed
<1> QED BY <1>2, <1>5, <1>6 DEF Chan!ChanDie, Completed

(* handleResult completes the front of one queue, ends the process, or     *)
(* changes nothing a client sees.                                          *)
LEMMA HandleResultRefines ==
  ASSUME TypeOK, QueueInv, NEW e \in Eids, NEW answer \in Answers,
         HandleResult(e, answer), UNCHANGED <<issued, dest>>
  PROVE  QueueInv' /\ [Chan!ChanNext]_Chan!chanVars
<1> DEFINE r == Head(queue[e])
           res == [result EXCEPT ![r] = answer]
<1>1. /\ queue \in [Eids -> Seq(Requests)] /\ result \in [Requests -> Results]
      /\ issued \in 0..MaxRequests
  BY DEF TypeOK
<1>2. queue[e] # <<>> => r \in Requests /\ result[r] = NoResult /\ dest[r] = e
  <2> SUFFICES ASSUME queue[e] # <<>> PROVE r \in Requests /\ result[r] = NoResult /\ dest[r] = e
    OBVIOUS
  <2>1. 1 \in DOMAIN queue[e] /\ r = queue[e][1] /\ r \in Requests
    BY <1>1
  <2> QED BY <2>1 DEF QueueInv, QueuedWaits
<1>3. answer # NoResult /\ answer \in Results
  BY AnswerTypes
<1>4. CASE UNCHANGED <<result, queue>>
  BY <1>4 DEF QueueInv, Issued, NoResultYet, QueuedWaits, WaitingQueued, Increasing, Chan!chanVars
<1>5. CASE Die("undefined", result)
  BY <1>1, <1>5, DieRefines DEF Chan!ChanNext
<1>6. CASE queue[e] # <<>> /\ Die("aborted", res)
  <2>1. res \in [Requests -> Results]
    BY <1>1, <1>3
  <2>2. \A x \in Requests : \/ res[x] = result[x]
                            \/ res[x] # NoResult /\ result[x] = NoResult /\ dest[x] # NoEid
    BY <1>1, <1>2, <1>3, <1>6, RequesterAssumption
  <2> QED BY <1>6, <2>1, <2>2, DieRefines DEF Chan!ChanNext
<1>7. CASE /\ queue[e] # <<>>
           /\ result' = res
           /\ queue' = [queue EXCEPT ![e] = PopFront(@)]
  <2>1. queue[e] \in Seq(Requests) /\ r \in Requests /\ dest[r] = e
    BY <1>1, <1>2, <1>7
  <2>2. /\ queue'[e] = Tail(queue[e])
        /\ \A x \in Eids \ {e} : queue'[x] = queue[x]
        /\ result'[r] # NoResult
        /\ \A x \in Requests \ {r} : result'[x] = result[x]
    BY <1>1, <1>3, <1>7, <2>1 DEF PopFront
  <2>3. /\ Len(Tail(queue[e])) = Len(queue[e]) - 1
        /\ \A i \in DOMAIN Tail(queue[e]) : i + 1 \in DOMAIN queue[e]
                                            /\ Tail(queue[e])[i] = queue[e][i + 1]
        /\ \A i \in DOMAIN queue[e] : i = 1 \/ (i - 1 \in DOMAIN Tail(queue[e])
                                                /\ Tail(queue[e])[i - 1] = queue[e][i])
        /\ 1 \in DOMAIN queue[e] /\ queue[e][1] = r
    BY <1>7, <2>1
  <2>4. \A i \in DOMAIN Tail(queue[e]) : Tail(queue[e])[i] # r /\ Tail(queue[e])[i] \in Requests
    <3> SUFFICES ASSUME NEW i \in DOMAIN Tail(queue[e])
                 PROVE  Tail(queue[e])[i] # r /\ Tail(queue[e])[i] \in Requests
      OBVIOUS
    <3>1. i \in Nat \ {0} /\ i + 1 \in DOMAIN queue[e]
      BY <1>7, <2>1, <2>3
    <3>2. queue[e][1] < queue[e][i + 1]
      BY <2>3, <3>1 DEF QueueInv, Increasing
    <3>3. queue[e][i + 1] \in Requests
      BY <2>1, <3>1
    <3> QED BY <2>1, <2>3, <3>2, <3>3 DEF Requests
  <2>5. Issued'
    BY DEF QueueInv, Issued
  <2>6. NoResultYet'
    <3> SUFFICES ASSUME NEW x \in Requests, issued < x PROVE result'[x] = NoResult
      BY DEF NoResultYet
    <3>1. dest[x] = NoEid
      BY <1>1, RequesterAssumption DEF QueueInv, Issued, Requests
    <3>2. x # r
      BY <2>1, <3>1, RequesterAssumption
    <3> QED BY <2>2, <3>2 DEF QueueInv, NoResultYet
  <2>7. QueuedWaits'
    <3>1. ASSUME NEW i \in DOMAIN queue'[e]
          PROVE  dest[queue'[e][i]] = e /\ result'[queue'[e][i]] = NoResult
      BY <2>2, <2>3, <2>4, <3>1 DEF QueueInv, QueuedWaits
    <3>2. ASSUME NEW x \in Eids \ {e}, NEW i \in DOMAIN queue'[x]
          PROVE  dest[queue'[x][i]] = x /\ result'[queue'[x][i]] = NoResult
      <4>1. dest[queue[x][i]] = x /\ result[queue[x][i]] = NoResult
        BY <2>2, <3>2 DEF QueueInv, QueuedWaits
      <4>2. queue[x][i] \in Requests
        BY <1>1, <2>2, <3>2
      <4>3. queue[x][i] # r
        BY <2>1, <3>2, <4>1
      <4> QED BY <2>2, <4>1, <4>2, <4>3
    <3> QED BY <3>1, <3>2 DEF QueuedWaits
  <2>8. WaitingQueued'
    <3> SUFFICES ASSUME NEW x \in Requests, dest[x] # NoEid, result'[x] = NoResult
                 PROVE  \E i \in DOMAIN queue'[dest[x]] : queue'[dest[x]][i] = x
      BY DEF WaitingQueued
    <3>1. x # r /\ result[x] = NoResult
      BY <2>2
    <3>2. dest[x] \in Eids
      BY DEF TypeOK
    <3>3. PICK i \in DOMAIN queue[dest[x]] : queue[dest[x]][i] = x
      BY <3>1 DEF QueueInv, WaitingQueued
    <3>4. CASE dest[x] = e
      <4>1. i # 1
        BY <2>3, <3>1, <3>3, <3>4
      <4>2. i - 1 \in DOMAIN Tail(queue[e]) /\ Tail(queue[e])[i - 1] = x
        BY <2>3, <3>3, <3>4, <4>1
      <4> QED BY <2>2, <3>4, <4>2
    <3>5. CASE dest[x] # e
      BY <2>2, <3>2, <3>3, <3>5
    <3> QED BY <3>4, <3>5
  <2>9. Increasing'
    <3>1. ASSUME NEW i \in DOMAIN queue'[e], NEW j \in DOMAIN queue'[e], i < j
          PROVE  queue'[e][i] < queue'[e][j]
      <4>1. i \in Nat /\ j \in Nat /\ i + 1 < j + 1
        <5>1. Tail(queue[e]) \in Seq(Requests)
          BY <1>7, <2>1
        <5>2. i \in 1..Len(Tail(queue[e])) /\ j \in 1..Len(Tail(queue[e]))
          BY <2>2, <3>1, <5>1
        <5> QED BY <3>1, <5>1, <5>2
      <4>2. /\ i + 1 \in DOMAIN queue[e] /\ queue'[e][i] = queue[e][i + 1]
            /\ j + 1 \in DOMAIN queue[e] /\ queue'[e][j] = queue[e][j + 1]
        BY <2>2, <2>3, <3>1
      <4> QED BY <4>1, <4>2 DEF QueueInv, Increasing
    <3> QED BY <2>2, <3>1 DEF QueueInv, Increasing
  <2>10. Completed' = Completed \cup {r}
    BY <2>1, <2>2 DEF Completed
  <2>11. Chan!ChanComplete(e)
    BY <1>7, <2>10 DEF Chan!ChanComplete, Completed, PopFront
  <2> QED BY <2>5, <2>6, <2>7, <2>8, <2>9, <2>11 DEF QueueInv, Chan!ChanNext
<1> QED BY <1>4, <1>5, <1>6, <1>7 DEF HandleResult

(* sendRecvMsg appends a request that was in no queue and had no result. *)
LEMMA SubmitRefines ==
  ASSUME TypeOK, QueueInv, NEW e \in Eids, Submit(e)
  PROVE  QueueInv' /\ Chan!ChanNext
<1> DEFINE n == issued + 1
           q == Append(queue[e], n)
<1>1. /\ queue \in [Eids -> Seq(Requests)] /\ dest \in [Requests -> Eids \cup {NoEid}]
      /\ issued \in Nat /\ n \in Requests
  BY RequesterAssumption DEF Submit, TypeOK, Requests
<1>2. /\ issued' = n /\ result' = result
      /\ dest' = [dest EXCEPT ![n] = e]
      /\ queue' = [queue EXCEPT ![e] = q]
  BY DEF Submit
<1>3. /\ queue'[e] = q /\ \A x \in Eids \ {e} : queue'[x] = queue[x]
      /\ dest'[n] = e /\ \A r \in Requests \ {n} : dest'[r] = dest[r]
  BY <1>1, <1>2
<1>4. /\ Len(q) = Len(queue[e]) + 1 /\ q[Len(queue[e]) + 1] = n
      /\ Len(queue[e]) \in Nat /\ DOMAIN q = 1..Len(q)
      /\ DOMAIN queue[e] = 1..Len(queue[e])
      /\ \A i \in DOMAIN queue[e] : i \in DOMAIN q /\ q[i] = queue[e][i]
  BY <1>1
<1>5. result[n] = NoResult /\ dest[n] = NoEid
  BY <1>1 DEF QueueInv, NoResultYet, Issued
<1>6. \A x \in Eids : \A i \in DOMAIN queue[x] : queue[x][i] \in Requests /\ queue[x][i] < n
  <2> SUFFICES ASSUME NEW x \in Eids, NEW i \in DOMAIN queue[x]
               PROVE  queue[x][i] \in Requests /\ queue[x][i] < n
    OBVIOUS
  <2>1. queue[x][i] \in Requests
    BY <1>1
  <2>2. dest[queue[x][i]] # NoEid
    BY RequesterAssumption DEF QueueInv, QueuedWaits
  <2>3. queue[x][i] <= issued
    BY <2>1, <2>2 DEF QueueInv, Issued
  <2> QED BY <1>1, <2>1, <2>3 DEF Requests
<1>7. Issued'
  <2> SUFFICES ASSUME NEW r \in Requests PROVE dest'[r] # NoEid <=> r <= n
    BY <1>2 DEF Issued
  <2>1. CASE r = n
    BY <1>1, <1>3, <2>1, RequesterAssumption
  <2>2. CASE r # n
    <3>1. r <= n <=> r <= issued
      BY <1>1, <2>2 DEF Requests
    <3> QED BY <1>3, <2>2, <3>1 DEF QueueInv, Issued
  <2> QED BY <2>1, <2>2
<1>8. NoResultYet'
  <2> SUFFICES ASSUME NEW r \in Requests, n < r PROVE result[r] = NoResult
    BY <1>2 DEF NoResultYet
  <2>1. issued < r
    BY <1>1 DEF Requests
  <2> QED BY <2>1 DEF QueueInv, NoResultYet
<1>9. QueuedWaits'
  <2> SUFFICES ASSUME NEW x \in Eids, NEW i \in DOMAIN queue'[x]
               PROVE  dest'[queue'[x][i]] = x /\ result[queue'[x][i]] = NoResult
    BY <1>2 DEF QueuedWaits
  <2>1. CASE i \in DOMAIN queue[x] /\ queue'[x][i] = queue[x][i]
    <3>1. queue[x][i] \in Requests \ {n}
      BY <1>1, <1>6, <2>1 DEF Requests
    <3> QED BY <1>3, <2>1, <3>1 DEF QueueInv, QueuedWaits
  <2>2. CASE x = e /\ i = Len(queue[e]) + 1
    BY <1>3, <1>4, <1>5, <2>2
  <2> QED BY <1>3, <1>4, <2>1, <2>2
<1>10. WaitingQueued'
  <2> SUFFICES ASSUME NEW r \in Requests, dest'[r] # NoEid, result[r] = NoResult
               PROVE  \E i \in DOMAIN queue'[dest'[r]] : queue'[dest'[r]][i] = r
    BY <1>2 DEF WaitingQueued
  <2>1. CASE r = n
    BY <1>3, <1>4, <2>1
  <2>2. CASE r # n
    <3>1. PICK i \in DOMAIN queue[dest[r]] : queue[dest[r]][i] = r
      BY <1>3, <2>2 DEF QueueInv, WaitingQueued
    <3>2. dest[r] \in Eids /\ dest'[r] = dest[r]
      BY <1>1, <1>3, <2>2
    <3> QED BY <1>3, <1>4, <3>1, <3>2
  <2> QED BY <2>1, <2>2
<1>11. Increasing'
  <2>1. ASSUME NEW i \in DOMAIN q, NEW j \in DOMAIN q, i < j PROVE q[i] < q[j]
    <3>1. i \in DOMAIN queue[e]
      BY <1>4, <2>1
    <3>2. CASE j \in DOMAIN queue[e]
      BY <1>4, <2>1, <3>1, <3>2 DEF QueueInv, Increasing
    <3>3. CASE j = Len(queue[e]) + 1
      BY <1>4, <1>6, <3>1, <3>3
    <3> QED BY <1>4, <2>1, <3>2, <3>3
  <2> QED BY <1>3, <2>1 DEF QueueInv, Increasing
<1>12. Chan!ChanSubmit(e)
  <2>1. n \notin Completed \cup Chan!Outstanding
    BY <1>5, OutstandingWaits DEF Completed
  <2> QED BY <1>1, <1>2, <2>1 DEF Chan!ChanSubmit, Chan!Requests, Requests, Completed
<1> QED BY <1>7, <1>8, <1>9, <1>10, <1>11, <1>12 DEF QueueInv, Chan!ChanNext

(* Every step is a step of the channel, or one its clients do not see. *)
LEMMA RefinementStep ==
  ASSUME TypeOK, QueueInv, [Next]_vars
  PROVE  QueueInv' /\ [Chan!ChanNext]_Chan!chanVars
<1> DEFINE h == Head(ready)
           Quiet == UNCHANGED <<issued, dest, result, queue>>
<1>1. ASSUME Quiet PROVE QueueInv' /\ [Chan!ChanNext]_Chan!chanVars
  BY <1>1 DEF QueueInv, Issued, NoResultYet, QueuedWaits, WaitingQueued, Increasing, Chan!chanVars
<1>2. ASSUME NEW e \in Eids, Submit(e) PROVE QueueInv' /\ [Chan!ChanNext]_Chan!chanVars
  BY <1>2, SubmitRefines
<1>3. ASSUME HandleSendMsgCompletion PROVE QueueInv' /\ [Chan!ChanNext]_Chan!chanVars
  <2>1. h.eid \in Eids /\ h.req \in Requests /\ h.ec \in ErrorCodes
    BY <1>3 DEF HandleSendMsgCompletion, Running, TypeOK, Handlers
  <2>2. UNCHANGED <<issued, dest>>
    BY <1>3 DEF HandleSendMsgCompletion, Running
  <2>3. HandleResult(h.eid, Failed(h.ec, h.req)) \/ Quiet
    BY <1>3 DEF HandleSendMsgCompletion, Running
  <2> QED BY <1>1, <2>1, <2>2, <2>3, AnswerTypes, HandleResultRefines
<1>4. ASSUME TimerHandler PROVE QueueInv' /\ [Chan!ChanNext]_Chan!chanVars
  <2>1. h.eid \in Eids /\ h.req \in Requests /\ "timed_out" \in ErrorCodes
    BY <1>4 DEF TimerHandler, Running, TypeOK, Handlers, ErrorCodes
  <2>2. UNCHANGED <<issued, dest>> /\ HandleResult(h.eid, Failed("timed_out", h.req))
    BY <1>4 DEF TimerHandler, Running
  <2> QED BY <2>1, <2>2, AnswerTypes, HandleResultRefines
<1>5. ASSUME ProcessRecvMsg PROVE QueueInv' /\ [Chan!ChanNext]_Chan!chanVars
  <2>1. UNCHANGED <<issued, dest>>
    BY <1>5, ReceiveOutcomes
  <2> QED BY <1>1, <1>5, <2>1, ReceiveOutcomes, HandleResultRefines
<1> QED BY <1>1, <1>2, <1>3, <1>4, <1>5
        DEF Next, vars, TimerExpires, PerformReceive, DeviceResponds, StrayArrives, Restart

(* The requester implements the request channel: requests are completed in *)
(* order, one at a time per endpoint, each exactly once.                   *)
THEOREM Refinement == Spec => ChannelSafety
<1>1. Init => QueueInv
  BY RequesterAssumption
     DEF Init, QueueInv, Issued, NoResultYet, QueuedWaits, WaitingQueued, Increasing, Requests
<1>2. Init => Chan!ChanInit
  BY DEF Init, Chan!ChanInit
<1>3. TypeOK /\ QueueInv /\ [Next]_vars => QueueInv' /\ [Chan!ChanNext]_Chan!chanVars
  BY RefinementStep
<1> QED BY <1>1, <1>2, <1>3, TypeCorrect, PTL DEF Spec, ChannelSafety

-----------------------------------------------------------------------------
(* An answer reaches its own request as long as the instance identifiers   *)
(* do not wrap while it is under way.  What links a response to the state  *)
(* of its endpoint is the number of requests sent after the one it         *)
(* answers: it is the distance between the response's identifier and the   *)
(* endpoint's current one, modulo NumIids.                                 *)

Sent(e, r) == result[r] # NoResult \/ (queue[e] # <<>> /\ r = Head(queue[e]))
SentAfter(e, r) == {s \in Requests : dest[s] = e /\ r < s /\ Sent(e, s)}

(* The hypothesis: fewer than NumIids requests were sent to the endpoint   *)
(* after the one whose response is in the buffer.                          *)
Prompt == buffer.from \in Responses =>
              Cardinality(SentAfter(buffer.from.eid, buffer.from.req)) < NumIids

(* Results are given in order: what has one was submitted before whatever  *)
(* is still queued for its endpoint.                                       *)
DoneBeforeQueued == \A r \in Requests : \A e \in Eids :
    dest[r] = e /\ result[r] # NoResult => \A i \in DOMAIN queue[e] : r < queue[e][i]

AtDistance(e, i, c) == iid[e] = i + c \/ iid[e] = i + c - NumIids
Genuine(d) ==
    /\ iid[d.eid] # NoIid
    /\ d.req \in Requests /\ dest[d.req] = d.eid /\ Sent(d.eid, d.req)
    /\ Cardinality(SentAfter(d.eid, d.req)) < NumIids =>
           AtDistance(d.eid, d.iid, Cardinality(SentAfter(d.eid, d.req)))

(* A response is still at its device, in the socket or in the buffer.      *)
UnderWay(d) == \/ [eid |-> d.eid, iid |-> d.iid, req |-> d.req] \in wire
               \/ \E k \in DOMAIN sockq : sockq[k] = d
               \/ buffer.from = d

AllGenuine == \A d \in Responses : UnderWay(d) => Genuine(d)
AnswerInv == DoneBeforeQueued /\ AllGenuine

(* Sets of requests are finite. *)
LEMMA RequestsFinite == \A S \in SUBSET Requests : IsFiniteSet(S) /\ Cardinality(S) \in Nat
<1>1. IsFiniteSet(Requests)
  BY FS_Interval, RequesterAssumption DEF Requests
<1> QED BY <1>1, FS_Subset, FS_CardinalityType

(* The next identifier is one further, as long as the count has not        *)
(* reached NumIids.                                                        *)
LEMMA NextDistance ==
  ASSUME NEW i \in Iids, NEW j \in Iids, NEW c \in Nat, c + 1 < NumIids,
         j = i + c \/ j = i + c - NumIids
  PROVE  NextIid(j) = i + (c + 1) \/ NextIid(j) = i + (c + 1) - NumIids
<1>1. NumIids \in Nat \ {0} /\ i \in 0..(NumIids - 1) /\ j \in 0..(NumIids - 1)
  BY RequesterAssumption DEF Iids
<1>2. j # NoIid
  BY <1>1 DEF NoIid
<1>3. CASE j + 1 < NumIids
  BY <1>1, <1>2, <1>3 DEF NextIid
<1>4. CASE j + 1 = NumIids
  <2>1. (j + 1) % NumIids = 0
    BY <1>1, <1>4
  <2> QED BY <1>1, <1>2, <1>4, <2>1 DEF NextIid
<1> QED BY <1>1, <1>3, <1>4

(* No stray is a response, nor is what an untouched buffer holds. *)
LEMMA StraysAnswerNothing == \A d \in Strays : d \notin Responses
  BY ConstantTypes DEF Strays, Responses

LEMMA NothingUnderWay == NothingReceived.from \notin Responses
  BY ConstantTypes, StraysAnswerNothing DEF NothingReceived

(* Responses stay genuine when no request is sent. *)
LEMMA KeepGenuine ==
  ASSUME TypeOK, AllGenuine, iid' = iid,
         \A d \in Responses : UnderWay(d)' => UnderWay(d),
         \A r \in Requests : \A e \in Eids : dest[r] = e /\ Sent(e, r) =>
             dest'[r] = e /\ Sent(e, r)' /\ SentAfter(e, r)' = SentAfter(e, r)
  PROVE  AllGenuine'
<1> SUFFICES ASSUME NEW d \in Responses, UnderWay(d)' PROVE Genuine(d)'
  BY DEF AllGenuine, Responses
<1>1. Genuine(d) /\ d.eid \in Eids
  BY DEF AllGenuine, Responses
<1> QED BY <1>1 DEF Genuine, AtDistance

(* Responses stay genuine when processQueue sends the front of a queue,    *)
(* and the new request's is: every older one of the endpoint has one more  *)
(* request after it, the new one has none.                                 *)
LEMMA SendGenuine ==
  ASSUME TypeOK, AllGenuine, NEW e \in Eids, NEW q \in Seq(Requests), q # <<>>,
         NEW rdy, ProcessQueue(e, q, rdy), UNCHANGED <<sockq, buffer>>,
         \A r \in Requests : \A x \in Eids : dest[r] = x /\ Sent(x, r) =>
             dest'[r] = x /\ Sent(x, r)',
         \A r \in Requests : dest[r] = e /\ Sent(e, r) =>
             /\ SentAfter(e, r)' = SentAfter(e, r) \cup {Head(q)}
             /\ Head(q) \notin SentAfter(e, r),
         \A r \in Requests : \A x \in Eids \ {e} : dest[r] = x /\ Sent(x, r) =>
             SentAfter(x, r)' = SentAfter(x, r),
         dest'[Head(q)] = e, Sent(e, Head(q))', SentAfter(e, Head(q))' = {}
  PROVE  AllGenuine'
<1> DEFINE n == Head(q)
<1>1. n \in Requests
  OBVIOUS
<1>2. iid' = [iid EXCEPT ![e] = NextIid(@)]
  BY DEF ProcessQueue
<1>3. iid \in [Eids -> Iids \cup {NoIid}] /\ NextIid(iid[e]) \in Iids
  BY NextIidType DEF TypeOK
<1>4. NoIid \notin Iids
  BY RequesterAssumption DEF NoIid, Iids
<1> SUFFICES ASSUME NEW d \in Responses, UnderWay(d)' PROVE Genuine(d)'
  BY DEF AllGenuine, Responses
<1>5. d.eid \in Eids /\ d.iid \in Iids
  BY DEF Responses
<1>6. CASE UnderWay(d) /\ d.eid = e
  <2> DEFINE c == Cardinality(SentAfter(e, d.req))
  <2>1. Genuine(d)
    BY <1>6 DEF AllGenuine
  <2>2. d.req \in Requests /\ dest[d.req] = e /\ Sent(e, d.req)
    BY <1>6, <2>1 DEF Genuine
  <2>3. IsFiniteSet(SentAfter(e, d.req)) /\ c \in Nat
    BY RequestsFinite DEF SentAfter
  <2>4. Cardinality(SentAfter(e, d.req)') = c + 1
    <3>1. SentAfter(e, d.req)' = SentAfter(e, d.req) \cup {n} /\ n \notin SentAfter(e, d.req)
      BY <2>2
    <3>2. Cardinality(SentAfter(e, d.req) \cup {n}) = c + 1
      BY <2>3, <3>1, FS_AddElement
    <3> QED BY <3>1, <3>2
  <2>5. iid'[e] = NextIid(iid[e]) /\ iid'[e] # NoIid
    BY <1>2, <1>3, <1>4
  <2>6. ASSUME c + 1 < NumIids
        PROVE  iid'[e] = d.iid + (c + 1) \/ iid'[e] = d.iid + (c + 1) - NumIids
    <3>1. c < NumIids
      BY <2>3, <2>6, RequesterAssumption
    <3>2. iid[e] = d.iid + c \/ iid[e] = d.iid + c - NumIids
      BY <1>6, <2>1, <3>1 DEF Genuine, AtDistance
    <3>3. iid[e] \in Iids
      BY <1>3, <1>6, <2>1 DEF Genuine
    <3> QED BY <1>5, <2>3, <2>5, <2>6, <3>2, <3>3, NextDistance
  <2> QED BY <1>6, <2>2, <2>4, <2>5, <2>6 DEF Genuine, AtDistance
<1>7. CASE UnderWay(d) /\ d.eid # e
  <2>1. Genuine(d) /\ d.eid \in Eids \ {e}
    BY <1>5, <1>7 DEF AllGenuine
  <2>2. d.req \in Requests /\ dest[d.req] = d.eid /\ Sent(d.eid, d.req)
    BY <2>1 DEF Genuine
  <2>3. SentAfter(d.eid, d.req)' = SentAfter(d.eid, d.req) /\ dest'[d.req] = d.eid
        /\ Sent(d.eid, d.req)'
    BY <2>1, <2>2
  <2>4. iid'[d.eid] = iid[d.eid]
    BY <1>2, <1>3, <2>1
  <2> QED BY <2>1, <2>2, <2>3, <2>4 DEF Genuine, AtDistance
<1>8. CASE ~UnderWay(d)
  <2> DEFINE w == [eid |-> d.eid, iid |-> d.iid, req |-> d.req]
  <2>1. w \in wire' /\ w \notin wire
    BY <1>8 DEF UnderWay
  <2>2. w = [eid |-> e, iid |-> NextIid(iid[e]), req |-> n]
    BY <2>1 DEF ProcessQueue
  <2>3. d.eid = e /\ d.iid = NextIid(iid[e]) /\ d.req = n
    BY <2>2
  <2>4. iid'[e] = d.iid /\ iid'[e] # NoIid
    BY <1>2, <1>3, <1>4, <2>3
  <2>5. Cardinality(SentAfter(e, n)') = 0
    BY FS_EmptySet
  <2>6. iid'[e] = d.iid + 0
    BY <1>5, <2>4 DEF Iids
  <2> QED BY <1>1, <2>3, <2>4, <2>5, <2>6 DEF Genuine, AtDistance
<1> QED BY <1>6, <1>7, <1>8

(* handleResult keeps the order of results and the responses genuine. *)
LEMMA HandleResultGenuine ==
  ASSUME TypeOK, QueueInv, QueueInv', AnswerInv, NEW e \in Eids, NEW answer \in Answers,
         HandleResult(e, answer), UNCHANGED <<issued, dest>>
  PROVE  AnswerInv'
<1> DEFINE r == Head(queue[e])
           t == Tail(queue[e])
<1>1. queue \in [Eids -> Seq(Requests)] /\ result \in [Requests -> Results]
      /\ dest \in [Requests -> Eids \cup {NoEid}]
  BY DEF TypeOK
<1>2. CASE UNCHANGED <<result, queue, iid, buffer, sockq, wire>>
  <2>1. DoneBeforeQueued'
    BY <1>2 DEF AnswerInv, DoneBeforeQueued
  <2>2. \A x \in Eids, s \in Requests : Sent(x, s)' <=> Sent(x, s)
    BY <1>2 DEF Sent
  <2>3. \A x \in Eids, s \in Requests : SentAfter(x, s)' = SentAfter(x, s)
    BY <2>2 DEF SentAfter
  <2>4. AllGenuine'
    BY <1>2, <2>2, <2>3, KeepGenuine DEF AnswerInv, UnderWay
  <2> QED BY <2>1, <2>4 DEF AnswerInv
<1>3. CASE \E why, res : Die(why, res)
  <2>1. queue' = [x \in Eids |-> <<>>] /\ wire' = {} /\ sockq' = <<>> /\ buffer' = NothingReceived
    BY <1>3 DEF Die
  <2>2. DoneBeforeQueued'
    BY <2>1 DEF DoneBeforeQueued
  <2>3. ASSUME NEW d \in Responses PROVE ~UnderWay(d)'
    BY <2>1, NothingUnderWay DEF UnderWay
  <2> QED BY <2>2, <2>3 DEF AnswerInv, AllGenuine, Responses
<1>4. CASE /\ queue[e] # <<>>
           /\ result' = [result EXCEPT ![r] = answer]
           /\ queue' = [queue EXCEPT ![e] = PopFront(@)]
           /\ ProcessQueue(e, t, Tail(ready))
           /\ UNCHANGED <<buffer, sockq>>
  <2>1. queue[e] \in Seq(Requests) /\ r \in Requests /\ t \in Seq(Requests) /\ dest[r] = e
    <3>1. queue[e] \in Seq(Requests) /\ 1 \in DOMAIN queue[e] /\ r = queue[e][1]
      BY <1>1, <1>4
    <3> QED BY <1>1, <1>4, <3>1 DEF QueueInv, QueuedWaits
  <2>2. answer # NoResult
    BY AnswerTypes
  <2>3. /\ queue'[e] = t /\ \A x \in Eids \ {e} : queue'[x] = queue[x]
        /\ \A s \in Requests : result'[s] # NoResult <=> result[s] # NoResult \/ s = r
    BY <1>1, <1>4, <2>1, <2>2 DEF PopFront
  <2>4. \A i \in DOMAIN t : i + 1 \in DOMAIN queue[e] /\ t[i] = queue[e][i + 1]
    BY <1>4, <2>1
  <2>5. \A i \in DOMAIN t : r < t[i] /\ t[i] \in Requests
    <3> SUFFICES ASSUME NEW i \in DOMAIN t PROVE r < t[i] /\ t[i] \in Requests
      OBVIOUS
    <3>1. 1 \in DOMAIN queue[e] /\ r = queue[e][1] /\ i \in Nat /\ 1 < i + 1
      BY <1>4, <2>1
    <3> QED BY <2>1, <2>4, <3>1 DEF QueueInv, Increasing
  <2>6. DoneBeforeQueued'
    <3> SUFFICES ASSUME NEW s \in Requests, NEW x \in Eids, dest[s] = x,
                        result'[s] # NoResult, NEW i \in DOMAIN queue'[x]
                 PROVE  s < queue'[x][i]
      BY DEF DoneBeforeQueued
    <3>1. CASE x # e
      <4>1. result[s] # NoResult
        BY <2>1, <2>3, <3>1
      <4> QED BY <2>3, <3>1, <4>1 DEF AnswerInv, DoneBeforeQueued
    <3>2. CASE x = e /\ s = r
      BY <2>3, <2>5, <3>2
    <3>3. CASE x = e /\ s # r
      <4>1. result[s] # NoResult /\ i \in DOMAIN t /\ queue'[x][i] = t[i]
        BY <2>3, <3>3
      <4>2. i + 1 \in DOMAIN queue[e] /\ t[i] = queue[e][i + 1]
        BY <2>4, <4>1
      <4> QED BY <3>3, <4>1, <4>2 DEF AnswerInv, DoneBeforeQueued
    <3> QED BY <3>1, <3>2, <3>3
  <2>7. \A x \in Eids \ {e} : \A s \in Requests : dest[s] = x => (Sent(x, s)' <=> Sent(x, s))
    BY <2>1, <2>3 DEF Sent
  <2>8. \A x \in Eids \ {e} : \A s \in Requests : dest[s] = x =>
            SentAfter(x, s)' = SentAfter(x, s)
    BY <2>7 DEF SentAfter
  <2>9. \A s \in Requests : dest[s] = e =>
            (Sent(e, s)' <=> Sent(e, s) \/ (t # <<>> /\ s = Head(t)))
    BY <1>4, <2>3 DEF Sent
  <2>10. CASE t = <<>>
    <3>1. \A s \in Requests : SentAfter(e, s)' = SentAfter(e, s)
      BY <2>9, <2>10 DEF SentAfter
    <3>2. UNCHANGED <<iid, wire>>
      BY <1>4, <2>10 DEF ProcessQueue
    <3>3. \A d \in Responses : UnderWay(d)' => UnderWay(d)
      BY <1>4, <3>2 DEF UnderWay
    <3>4. AllGenuine'
      BY <2>7, <2>8, <2>9, <3>1, <3>2, <3>3, KeepGenuine DEF AnswerInv
    <3> QED BY <2>6, <3>4 DEF AnswerInv
  <2>11. CASE t # <<>>
    <3> PICK q \in Seq(Requests) : q = t
      BY <2>1
    <3> DEFINE n == Head(q)
    <3>1. 1 \in DOMAIN t /\ n = t[1] /\ n \in Requests /\ q # <<>>
      BY <2>1, <2>11
    <3>2. n = queue[e][1 + 1] /\ 1 + 1 \in DOMAIN queue[e] /\ r < n
      <4>1. 1 + 1 \in DOMAIN queue[e] /\ n = queue[e][1 + 1]
        BY <2>4, <3>1
      <4> QED BY <2>5, <3>1, <4>1
    <3>3. dest[n] = e /\ result[n] = NoResult /\ n # r
      BY <2>1, <3>1, <3>2 DEF QueueInv, QueuedWaits, Requests
    <3>4. ~Sent(e, n)
      BY <3>3 DEF Sent
    <3>5. ASSUME NEW s \in Requests, dest[s] = e, Sent(e, s) PROVE s < n
      BY <3>2, <3>5 DEF Sent, AnswerInv, DoneBeforeQueued
    <3>6. \A s \in Requests : dest[s] = e => (Sent(e, s)' <=> Sent(e, s) \/ s = n)
      BY <2>9, <3>1
    <3>7. \A s \in Requests : dest[s] = e /\ Sent(e, s) =>
              SentAfter(e, s)' = SentAfter(e, s) \cup {n} /\ n \notin SentAfter(e, s)
      BY <3>1, <3>3, <3>4, <3>5, <3>6 DEF SentAfter
    <3>8. SentAfter(e, n)' = {}
      <4> SUFFICES ASSUME NEW s \in Requests, s \in SentAfter(e, n)' PROVE FALSE
        BY DEF SentAfter
      <4>1. dest[s] = e /\ n < s /\ (Sent(e, s) \/ s = n)
        BY <3>6 DEF SentAfter
      <4>2. s < n \/ s = n
        BY <3>5, <4>1
      <4> QED BY <3>1, <4>1, <4>2 DEF Requests
    <3>9. Sent(e, n)'
      BY <3>1, <3>3, <3>6
    <3>10. ProcessQueue(e, q, Tail(ready))
      BY <1>4
    <3>11. \A x \in Eids, s \in Requests : dest[s] = x /\ Sent(x, s) => dest'[s] = x /\ Sent(x, s)'
      BY <2>7, <3>6
    <3>12. AllGenuine'
      <4>1. AllGenuine /\ UNCHANGED <<sockq, buffer>> /\ dest'[n] = e
        BY <1>4, <3>3 DEF AnswerInv
      <4>2. \A s \in Requests : \A x \in Eids \ {e} : dest[s] = x /\ Sent(x, s) =>
                SentAfter(x, s)' = SentAfter(x, s)
        BY <2>8
      <4>3. \A s \in Requests : \A x \in Eids : dest[s] = x /\ Sent(x, s) =>
                dest'[s] = x /\ Sent(x, s)'
        BY <3>11
      <4> QED BY <3>1, <3>7, <3>8, <3>9, <3>10, <4>1, <4>2, <4>3, SendGenuine
    <3> QED BY <2>6, <3>12 DEF AnswerInv
  <2> QED BY <2>10, <2>11
<1> QED BY <1>2, <1>3, <1>4 DEF HandleResult, PopFront

(* So does a submission. *)
LEMMA SubmitGenuine ==
  ASSUME TypeOK, QueueInv, AnswerInv, NEW e \in Eids, Submit(e)
  PROVE  AnswerInv'
<1>1. issued \in Nat /\ issued + 1 \in Requests /\ queue \in [Eids -> Seq(Requests)]
      /\ dest \in [Requests -> Eids \cup {NoEid}]
  BY RequesterAssumption DEF Submit, TypeOK, Requests
<1> PICK n \in Requests : n = issued + 1
  BY <1>1
<1>0. queue[e] \in Seq(Requests) /\ Append(queue[e], n) \in Seq(Requests)
  BY <1>1
<1> PICK q \in Seq(Requests) : q = Append(queue[e], n)
  BY <1>0
<1>2. /\ result' = result /\ buffer' = buffer /\ sockq' = sockq
      /\ dest' = [dest EXCEPT ![n] = e]
      /\ queue' = [queue EXCEPT ![e] = q]
  BY DEF Submit
<1>3. /\ queue'[e] = q /\ \A x \in Eids \ {e} : queue'[x] = queue[x]
      /\ dest'[n] = e /\ \A s \in Requests \ {n} : dest'[s] = dest[s]
  BY <1>1, <1>2
<1>4. dest[n] = NoEid /\ result[n] = NoResult
  BY <1>1 DEF QueueInv, NoResultYet, Issued
<1>5. \A s \in Requests : dest[s] # NoEid => s < n
  BY <1>1 DEF QueueInv, Issued, Requests
<1>6. \A s \in Requests : \A x \in Eids : dest[s] = x => dest'[s] = x /\ s # n /\ s < n
  BY <1>3, <1>4, <1>5, RequesterAssumption
<1>7. DoneBeforeQueued'
  <2> SUFFICES ASSUME NEW s \in Requests, NEW x \in Eids, dest'[s] = x, result[s] # NoResult,
                      NEW i \in DOMAIN queue'[x]
               PROVE  s < queue'[x][i]
    BY <1>2 DEF DoneBeforeQueued
  <2>1. s # n /\ dest[s] = x
    BY <1>3, <1>4
  <2>2. CASE i \in DOMAIN queue[x] /\ queue'[x][i] = queue[x][i]
    BY <2>1, <2>2 DEF AnswerInv, DoneBeforeQueued
  <2>3. CASE queue'[x][i] = n
    BY <1>6, <2>1, <2>3
  <2>4. \A j \in DOMAIN q : (j \in DOMAIN queue[e] /\ q[j] = queue[e][j]) \/ q[j] = n
    BY <1>0
  <2> QED BY <1>3, <2>2, <2>3, <2>4
<1>8. \A x \in Eids \ {e} : \A s \in Requests : Sent(x, s)' <=> Sent(x, s)
  BY <1>2, <1>3 DEF Sent
<1>9. \A x \in Eids \ {e} : \A s \in Requests : SentAfter(x, s)' = SentAfter(x, s)
  <2>1. \A x \in Eids \ {e} : \A s \in Requests : dest'[s] = x <=> dest[s] = x
    BY <1>3, <1>4, RequesterAssumption
  <2> QED BY <1>8, <2>1 DEF SentAfter
<1>10. CASE Idle(e) /\ ProcessQueue(e, q, ready)
  <2>1. q # <<>> /\ Head(q) = n
    BY <1>1, <1>10 DEF Idle
  <2>2. \A s \in Requests : Sent(e, s)' <=> Sent(e, s) \/ s = n
    BY <1>2, <1>3, <1>10, <2>1 DEF Sent, Idle
  <2>3. ~Sent(e, n)
    BY <1>4, <1>10 DEF Sent, Idle
  <2>4. \A s \in Requests : dest'[s] = e <=> dest[s] = e \/ s = n
    BY <1>3, <1>4
  <2>5. \A s \in Requests : dest[s] = e /\ Sent(e, s) =>
            SentAfter(e, s)' = SentAfter(e, s) \cup {Head(q)} /\ Head(q) \notin SentAfter(e, s)
    BY <1>6, <2>1, <2>2, <2>3, <2>4 DEF SentAfter
  <2>6. SentAfter(e, Head(q))' = {}
    <3> SUFFICES ASSUME NEW s \in Requests, s \in SentAfter(e, Head(q))' PROVE FALSE
      BY DEF SentAfter
    <3>1. n < s /\ (dest[s] = e \/ s = n)
      BY <2>1, <2>4 DEF SentAfter
    <3> QED BY <1>6, <3>1 DEF Requests
  <2>7. dest'[Head(q)] = e /\ Sent(e, Head(q))'
    BY <1>3, <2>1, <2>2
  <2>8. \A s \in Requests : \A x \in Eids : dest[s] = x /\ Sent(x, s) =>
            dest'[s] = x /\ Sent(x, s)'
    BY <1>6, <1>8, <2>2
  <2>9. AllGenuine /\ UNCHANGED <<sockq, buffer>>
    BY <1>2 DEF AnswerInv
  <2>10. \A s \in Requests : \A x \in Eids \ {e} : dest[s] = x /\ Sent(x, s) =>
             SentAfter(x, s)' = SentAfter(x, s)
    BY <1>9
  <2>11. AllGenuine'
    BY <1>10, <2>1, <2>5, <2>6, <2>7, <2>8, <2>9, <2>10, SendGenuine
  <2> QED BY <1>7, <2>11 DEF AnswerInv
<1>11. CASE ~Idle(e) /\ UNCHANGED <<iid, wire, ready>>
  <2>1. queue[e] # <<>> /\ q # <<>> /\ Head(q) = Head(queue[e])
    BY <1>1, <1>11, AppendProperties DEF Idle
  <2>2. \A s \in Requests : Sent(e, s)' <=> Sent(e, s)
    BY <1>2, <1>3, <2>1 DEF Sent
  <2>3. ~Sent(e, n)
    <3>1. 1 \in DOMAIN queue[e] /\ Head(queue[e]) = queue[e][1]
      BY <1>1, <2>1
    <3>2. dest[Head(queue[e])] = e
      BY <3>1 DEF QueueInv, QueuedWaits
    <3> QED BY <1>4, <3>2, RequesterAssumption DEF Sent
  <2>4. \A s \in Requests : SentAfter(e, s)' = SentAfter(e, s)
    BY <1>3, <1>6, <2>2, <2>3 DEF SentAfter
  <2>5. \A d \in Responses : UnderWay(d)' => UnderWay(d)
    BY <1>2, <1>11 DEF UnderWay
  <2>6. AllGenuine'
    BY <1>6, <1>8, <1>9, <1>11, <2>2, <2>4, <2>5, KeepGenuine DEF AnswerInv
  <2> QED BY <1>7, <2>6 DEF AnswerInv
<1> QED BY <1>10, <1>11 DEF Submit

(* Every step keeps the invariant. *)
LEMMA GenuineStep ==
  ASSUME TypeOK, QueueInv, QueueInv', AnswerInv, [Next]_vars
  PROVE  AnswerInv'
<1> DEFINE h == Head(ready)
           Quiet == UNCHANGED <<dest, result, queue, iid>>
                    /\ \A d \in Responses : UnderWay(d)' => UnderWay(d)
<1>1. ASSUME Quiet PROVE AnswerInv'
  <2>1. \A x \in Eids, s \in Requests : Sent(x, s)' <=> Sent(x, s)
    BY <1>1 DEF Sent
  <2>2. \A x \in Eids, s \in Requests : SentAfter(x, s)' = SentAfter(x, s)
    BY <1>1, <2>1 DEF SentAfter
  <2>3. AllGenuine'
    BY <1>1, <2>1, <2>2, KeepGenuine DEF AnswerInv
  <2> QED BY <1>1, <2>3 DEF AnswerInv, DoneBeforeQueued
<1>2. ASSUME NEW e \in Eids, Submit(e) PROVE AnswerInv'
  BY <1>2, SubmitGenuine
<1>3. ASSUME NEW e \in Eids, NEW answer \in Answers, HandleResult(e, answer),
             UNCHANGED <<issued, dest>>
      PROVE  AnswerInv'
  BY <1>3, HandleResultGenuine
<1>4. ASSUME UNCHANGED <<dest, result, queue, iid, wire, buffer, sockq>> PROVE AnswerInv'
  BY <1>1, <1>4 DEF UnderWay
<1>5. ASSUME HandleSendMsgCompletion PROVE AnswerInv'
  <2>1. h.eid \in Eids /\ h.req \in Requests /\ h.ec \in ErrorCodes
    BY <1>5 DEF HandleSendMsgCompletion, Running, TypeOK, Handlers
  <2>2. UNCHANGED <<issued, dest>>
    BY <1>5 DEF HandleSendMsgCompletion, Running
  <2> QED BY <1>3, <1>4, <1>5, <2>1, <2>2, AnswerTypes DEF HandleSendMsgCompletion
<1>6. ASSUME TimerHandler PROVE AnswerInv'
  <2>1. h.eid \in Eids /\ h.req \in Requests /\ "timed_out" \in ErrorCodes
    BY <1>6 DEF TimerHandler, Running, TypeOK, Handlers, ErrorCodes
  <2> QED BY <1>3, <1>6, <2>1, AnswerTypes DEF TimerHandler, Running
<1>7. ASSUME ProcessRecvMsg PROVE AnswerInv'
  <2>1. UNCHANGED <<issued, dest>>
    BY <1>7, ReceiveOutcomes
  <2> QED BY <1>3, <1>4, <1>7, <2>1, ReceiveOutcomes
<1>8. ASSUME PerformReceive PROVE AnswerInv'
  <2>1. CASE buffer' = Fill(Head(sockq)) /\ sockq' = Tail(sockq) /\ sockq # <<>>
    <3>1. sockq \in Seq(Datagrams)
      BY DEF TypeOK
    <3>2. /\ 1 \in DOMAIN sockq /\ Head(sockq) = sockq[1]
          /\ \A k \in DOMAIN Tail(sockq) : k + 1 \in DOMAIN sockq /\ Tail(sockq)[k] = sockq[k + 1]
      BY <2>1, <3>1
    <3>3. \A d \in Responses : UnderWay(d)' => UnderWay(d)
      BY <1>8, <2>1, <3>2 DEF UnderWay, PerformReceive, Fill
    <3> QED BY <1>1, <1>8, <3>3 DEF PerformReceive
  <2>2. CASE UNCHANGED <<buffer, sockq>>
    BY <1>4, <1>8, <2>2 DEF PerformReceive
  <2> QED BY <1>8, <2>1, <2>2 DEF PerformReceive
<1>9. ASSUME DeviceResponds PROVE AnswerInv'
  <2>1. PICK w \in wire, n \in HeaderSize..(HeaderSize + 1) :
          /\ sockq' = Append(sockq, Response(w, n))
          /\ wire' = wire \ {w}
    BY <1>9 DEF DeviceResponds
  <2>2. sockq \in Seq(Datagrams) /\ w \in Frame
    BY DEF TypeOK
  <2> DEFINE a == Response(w, n)
  <2>3. w = [eid |-> w.eid, iid |-> w.iid, req |-> w.req] /\ a \in Datagrams
    BY <2>2 DEF Frame, Datagrams, Responses, Response
  <2>4. \A k \in DOMAIN sockq' : (k \in DOMAIN sockq /\ sockq'[k] = sockq[k]) \/ sockq'[k] = a
    BY <2>1, <2>2, <2>3
  <2>5. \A d \in Responses : UnderWay(d)' => UnderWay(d)
    <3> SUFFICES ASSUME NEW d \in Responses, NEW k \in DOMAIN sockq', sockq'[k] = d
                 PROVE  UnderWay(d)
      BY <1>9, <2>1 DEF UnderWay, DeviceResponds
    <3>1. CASE d = a
      <4>1. [eid |-> d.eid, iid |-> d.iid, req |-> d.req] = w
        BY <2>3, <3>1 DEF Response
      <4> QED BY <4>1 DEF UnderWay
    <3> QED BY <2>4, <3>1 DEF UnderWay
  <2> QED BY <1>1, <1>9, <2>5 DEF DeviceResponds
<1>10. ASSUME StrayArrives PROVE AnswerInv'
  <2>1. PICK a \in Strays : sockq' = Append(sockq, a)
    BY <1>10 DEF StrayArrives
  <2>2. sockq \in Seq(Datagrams) /\ a \in Datagrams /\ a \notin Responses
    BY StraysAnswerNothing DEF TypeOK, Datagrams
  <2>3. \A j \in DOMAIN sockq' : (j \in DOMAIN sockq /\ sockq'[j] = sockq[j]) \/ sockq'[j] = a
    BY <2>1, <2>2
  <2>4. \A d \in Responses : UnderWay(d)' => UnderWay(d)
    BY <1>10, <2>2, <2>3 DEF UnderWay, StrayArrives
  <2> QED BY <1>1, <1>10, <2>4 DEF StrayArrives
<1> QED BY <1>2, <1>4, <1>5, <1>6, <1>7, <1>8, <1>9, <1>10
        DEF Next, vars, TimerExpires, Restart

(* The handler that runs finds its own datagram in the buffer unless       *)
(* another receive was performed behind it: the last receive's handler     *)
(* brings the length of what is in the buffer.                             *)
LastLength(hs, n) ==
    \A i \in DOMAIN hs :
        IsReceived(hs[i]) /\ (\A j \in DOMAIN hs : i < j => ~IsReceived(hs[j])) => hs[i].size = n
BufferInv ==
    /\ buffer.from.size # 0 => buffer.head = buffer.from
    /\ LastLength(ready, buffer.from.size)

LEMMA TailLast ==
  ASSUME NEW hs \in Seq(Handlers), hs # <<>>, NEW n, LastLength(hs, n)
  PROVE  LastLength(Tail(hs), n)
<1>1. /\ DOMAIN Tail(hs) = 1..(Len(hs) - 1) /\ DOMAIN hs = 1..Len(hs) /\ Len(hs) \in Nat
      /\ \A i \in 1..(Len(hs) - 1) : Tail(hs)[i] = hs[i + 1]
  OBVIOUS
<1> SUFFICES ASSUME NEW i \in 1..(Len(hs) - 1), IsReceived(Tail(hs)[i]),
                    \A j \in 1..(Len(hs) - 1) : i < j => ~IsReceived(Tail(hs)[j])
             PROVE  Tail(hs)[i].size = n
  BY <1>1 DEF LastLength
<1>2. i + 1 \in DOMAIN hs /\ IsReceived(hs[i + 1])
  BY <1>1
<1>3. ASSUME NEW j \in DOMAIN hs, i + 1 < j PROVE ~IsReceived(hs[j])
  <2>1. j - 1 \in 1..(Len(hs) - 1) /\ i < j - 1 /\ Tail(hs)[j - 1] = hs[j]
    BY <1>1, <1>3
  <2> QED BY <2>1
<1> QED BY <1>1, <1>2, <1>3 DEF LastLength

LEMMA AppendLast ==
  ASSUME NEW hs \in Seq(Handlers), NEW h \in Handlers, NEW m, NEW n, LastLength(hs, m),
         (~IsReceived(h) /\ m = n) \/ (IsReceived(h) /\ h.size = n)
  PROVE  LastLength(Append(hs, h), n)
<1> DEFINE g == Append(hs, h)
<1>1. /\ DOMAIN g = 1..(Len(hs) + 1) /\ DOMAIN hs = 1..Len(hs) /\ Len(hs) \in Nat
      /\ g[Len(hs) + 1] = h /\ \A i \in 1..Len(hs) : g[i] = hs[i]
  OBVIOUS
<1> SUFFICES ASSUME NEW i \in 1..(Len(hs) + 1), IsReceived(g[i]),
                    \A j \in 1..(Len(hs) + 1) : i < j => ~IsReceived(g[j])
             PROVE  g[i].size = n
  BY <1>1 DEF LastLength
<1>2. CASE i = Len(hs) + 1
  BY <1>1, <1>2
<1>3. CASE i # Len(hs) + 1
  <2>1. i \in 1..Len(hs) /\ i < Len(hs) + 1 /\ ~IsReceived(h)
    BY <1>1, <1>3
  <2>2. \A j \in 1..Len(hs) : i < j => ~IsReceived(hs[j])
    BY <1>1
  <2> QED BY <1>1, <2>1, <2>2 DEF LastLength
<1> QED BY <1>2, <1>3

(* processQueue queues the completion of a send at most. *)
LEMMA ProcessQueueLast ==
  ASSUME NEW e \in Eids, NEW q \in Seq(Requests), NEW rdy \in Seq(Handlers), NEW n,
         LastLength(rdy, n), ProcessQueue(e, q, rdy)
  PROVE  LastLength(ready', n)
<1>1. CASE q = <<>>
  BY <1>1 DEF ProcessQueue
<1>2. CASE q # <<>>
  <2>1. PICK ec \in SendErrors :
            ready' = Append(rdy, [kind |-> "sent", eid |-> e, ec |-> ec, req |-> Head(q)])
    BY <1>2 DEF ProcessQueue
  <2> DEFINE h == [kind |-> "sent", eid |-> e, ec |-> ec, req |-> Head(q)]
  <2>2. h \in Handlers /\ ~IsReceived(h)
    BY <1>2 DEF Handlers, SendErrors, ErrorCodes, IsReceived
  <2> QED BY <2>1, <2>2, AppendLast
<1> QED BY <1>1, <1>2

LEMMA BufferStep ==
  ASSUME TypeOK, BufferInv, [Next]_vars
  PROVE  BufferInv'
<1>1. ready \in Seq(Handlers) /\ queue \in [Eids -> Seq(Requests)] /\ sockq \in Seq(Datagrams)
      /\ timer \in [Eids -> Requests \cup {NoRequest}]
  BY DEF TypeOK
<1>2. CASE UNCHANGED <<ready, buffer>>
  BY <1>2 DEF BufferInv
<1>3. CASE ready # <<>> /\ ready' = Tail(ready) /\ UNCHANGED buffer
  BY <1>1, <1>3, TailLast DEF BufferInv
<1>4. ASSUME ready # <<>>, NEW e \in Eids, NEW answer, HandleResult(e, answer) PROVE BufferInv'
  <2>1. CASE ready' = Tail(ready) /\ UNCHANGED buffer
    BY <1>3, <1>4, <2>1
  <2>2. CASE ready' = <<>> /\ buffer' = NothingReceived
    BY <2>2 DEF BufferInv, LastLength, NothingReceived, NoDatagram
  <2>3. CASE queue[e] # <<>> /\ ProcessQueue(e, PopFront(queue[e]), Tail(ready)) /\ UNCHANGED buffer
    <3>1. Tail(ready) \in Seq(Handlers) /\ PopFront(queue[e]) \in Seq(Requests)
      BY <1>1, <1>4, <2>3 DEF PopFront
    <3>2. LastLength(Tail(ready), buffer.from.size)
      BY <1>1, <1>4, TailLast DEF BufferInv
    <3> QED BY <2>3, <3>1, <3>2, ProcessQueueLast DEF BufferInv
  <2> QED BY <1>4, <2>1, <2>2, <2>3 DEF HandleResult, Die
<1>5. ASSUME NEW e \in Eids, Submit(e) PROVE BufferInv'
  <2>1. issued + 1 \in Requests
    BY <1>5, RequesterAssumption DEF Submit, TypeOK, Requests
  <2>2. Append(queue[e], issued + 1) \in Seq(Requests)
    BY <1>1, <2>1
  <2>3. CASE ProcessQueue(e, Append(queue[e], issued + 1), ready) /\ UNCHANGED buffer
    BY <1>1, <2>2, <2>3, ProcessQueueLast DEF BufferInv
  <2> QED BY <1>2, <1>5, <2>3 DEF Submit
<1>6. ASSUME NEW e \in Eids, TimerExpires(e) PROVE BufferInv'
  <2> DEFINE h == [kind |-> "timer", eid |-> e, ec |-> "ok", req |-> timer[e]]
  <2>1. ready' = Append(ready, h) /\ UNCHANGED buffer /\ h \in Handlers /\ ~IsReceived(h)
    BY <1>1, <1>6 DEF TimerExpires, Handlers, ErrorCodes, IsReceived
  <2> QED BY <1>1, <2>1, AppendLast DEF BufferInv
<1>7. ASSUME HandleSendMsgCompletion PROVE BufferInv'
  <2>1. ready # <<>> /\ Head(ready).eid \in Eids
    BY <1>1, <1>7 DEF HandleSendMsgCompletion, Running, Handlers
  <2> QED BY <1>3, <1>4, <1>7, <2>1 DEF HandleSendMsgCompletion
<1>8. ASSUME TimerHandler PROVE BufferInv'
  <2>1. ready # <<>> /\ Head(ready).eid \in Eids
    BY <1>1, <1>8 DEF TimerHandler, Running, Handlers
  <2> QED BY <1>4, <1>8, <2>1 DEF TimerHandler
<1>9. ASSUME ProcessRecvMsg PROVE BufferInv'
  BY <1>3, <1>4, <1>9, ReceiveOutcomes
<1>10. ASSUME PerformReceive PROVE BufferInv'
  <2>1. CASE /\ sockq # <<>> /\ buffer' = Fill(Head(sockq))
             /\ ready' = Append(ready, Received("ok", Head(sockq).size))
    <3> DEFINE d == Head(sockq)
               h == Received("ok", d.size)
    <3>1. d.size \in Sizes
      BY <1>1, <2>1 DEF Datagrams, Responses, Strays, Sizes, HeaderSize
    <3>2. h \in Handlers /\ IsReceived(h) /\ h.size = d.size
      BY <3>1 DEF Received, Handlers, ErrorCodes, IsReceived
    <3>3. buffer'.from = d /\ (d.size # 0 => buffer'.head = d)
      BY <2>1 DEF Fill
    <3>4. LastLength(Append(ready, h), d.size)
      BY <1>1, <3>2, AppendLast DEF BufferInv
    <3> QED BY <2>1, <3>3, <3>4 DEF BufferInv
  <2>2. CASE ready' = Append(ready, Received("other", 0)) /\ UNCHANGED buffer
    <3>1. Received("other", 0) \in Handlers /\ ~IsReceived(Received("other", 0))
      BY DEF Received, Handlers, ErrorCodes, IsReceived, Sizes, HeaderSize
    <3> QED BY <1>1, <2>2, <3>1, AppendLast DEF BufferInv
  <2> QED BY <1>10, <2>1, <2>2 DEF PerformReceive
<1> QED BY <1>2, <1>5, <1>6, <1>7, <1>8, <1>9, <1>10
        DEF Next, vars, DeviceResponds, StrayArrives, Restart

(* A success is given only to the front of a queue; every other result of  *)
(* a step is an error.                                                     *)
LEMMA HandleResultAnswers ==
  ASSUME TypeOK, NEW e \in Eids, NEW answer,
         answer.ec = "ok" /\ queue[e] # <<>> => Fits(Head(queue[e]), answer),
         HandleResult(e, answer), NEW r \in Requests, result[r] = NoResult, result'[r].ec = "ok"
  PROVE  Fits(r, result'[r])
<1> DEFINE res == [result EXCEPT ![Head(queue[e])] = answer]
<1>1. result \in [Requests -> Results]
  BY DEF TypeOK
<1>2. NoResult.ec # "ok" /\ Lost.ec # "ok"
  BY DEF NoResult, Lost, Failed
<1>3. CASE result' = result
  BY <1>2, <1>3
<1>4. ASSUME queue[e] # <<>>, res[r].ec = "ok" PROVE res[r] = answer /\ Fits(r, answer)
  <2>1. r = Head(queue[e]) /\ res[r] = answer
    BY <1>1, <1>2, <1>4
  <2> QED BY <1>4, <2>1
<1>5. CASE queue[e] # <<>> /\ result' = res
  BY <1>4, <1>5
<1>6. CASE queue[e] # <<>> /\ Die("aborted", res)
  BY <1>2, <1>4, <1>6 DEF Die
<1>7. CASE Die("undefined", result)
  BY <1>2, <1>7 DEF Die
<1> QED BY <1>3, <1>5, <1>6, <1>7 DEF HandleResult

(* The response in the buffer, if it has the endpoint's current identifier *)
(* and is prompt, is that of the request at the front.                     *)
LEMMA BufferAnswersFront ==
  ASSUME TypeOK, QueueInv, AnswerInv, BufferInv, Prompt, buffer.from.size >= HeaderSize,
         buffer.from.eid # NoEid, IidMatches(buffer), queue[buffer.from.eid] # <<>>
  PROVE  buffer.head.req = Head(queue[buffer.from.eid])
<1> DEFINE d == buffer.from
           e == d.eid
           n == Head(queue[e])
           c == Cardinality(SentAfter(e, d.req))
<1>0. buffer.head = d
  BY DEF BufferInv, HeaderSize
<1>1. d \in Responses /\ e \in Eids /\ d.iid \in Iids /\ d.iid = iid[e]
  <2>1. d.kind = "response" /\ d.iid = iid[e]
    BY <1>0 DEF IidMatches
  <2>2. d \notin Strays
    BY <2>1 DEF Strays, HeaderSize
  <2> QED BY <2>1, <2>2, BufferTypes DEF Datagrams, Responses
<1>2. Genuine(d)
  BY <1>1 DEF AnswerInv, AllGenuine, UnderWay
<1>3. IsFiniteSet(SentAfter(e, d.req)) /\ c \in Nat /\ c < NumIids
  BY <1>1, RequestsFinite DEF SentAfter, Prompt
<1>4. c = 0
  <2>1. d.iid = d.iid + c \/ d.iid = d.iid + c - NumIids
    BY <1>1, <1>2, <1>3 DEF Genuine, AtDistance
  <2> QED BY <1>1, <1>3, <2>1, RequesterAssumption DEF Iids
<1>5. SentAfter(e, d.req) = {}
  BY <1>3, <1>4, FS_EmptySet
<1>6. 1 \in DOMAIN queue[e] /\ n = queue[e][1] /\ n \in Requests
  BY <1>1 DEF TypeOK
<1>7. dest[n] = e
  BY <1>1, <1>6 DEF QueueInv, QueuedWaits
<1>8. ~(d.req < n)
  BY <1>5, <1>6, <1>7 DEF SentAfter, Sent
<1>9. result[d.req] # NoResult => d.req < n
  BY <1>1, <1>2, <1>6 DEF AnswerInv, DoneBeforeQueued, Genuine
<1> QED BY <1>0, <1>2, <1>8, <1>9 DEF Genuine, Sent

(* Unless a receive was performed behind it, the handler at the head of    *)
(* the queue finds its own datagram in the buffer.                         *)
LEMMA WholeUnlessOvertaken ==
  ASSUME TypeOK, BufferInv, ready # <<>>, IsReceived(Head(ready)), ~Overtaken
  PROVE  Head(ready).size = buffer.from.size
<1>1. ready \in Seq(Handlers) /\ 1 \in DOMAIN ready /\ Head(ready) = ready[1]
  BY DEF TypeOK
<1>2. \A j \in DOMAIN ready : 1 < j => ~IsReceived(ready[j])
  BY DEF Overtaken
<1> QED BY <1>1, <1>2 DEF BufferInv, LastLength

LEMMA AnswerStep ==
  ASSUME TypeOK, QueueInv, AnswerInv, BufferInv, Prompt, [Next]_vars,
         NEW r \in Requests, result[r] = NoResult, result'[r].ec = "ok"
  PROVE  Fits(r, result'[r])
<1> DEFINE h == Head(ready)
           b == buffer
<1>1. CASE UNCHANGED result
  BY <1>1 DEF NoResult, Failed
<1>2. ASSUME HandleSendMsgCompletion PROVE Fits(r, result'[r])
  <2>1. h.eid \in Eids
    BY <1>2 DEF HandleSendMsgCompletion, Running, TypeOK, Handlers
  <2>2. CASE h.ec # "ok" /\ HandleResult(h.eid, Failed(h.ec, h.req))
    <3>1. Failed(h.ec, h.req).ec # "ok"
      BY <2>2 DEF Failed
    <3> QED BY <2>1, <2>2, <3>1, HandleResultAnswers
  <2> QED BY <1>1, <1>2, <2>2 DEF HandleSendMsgCompletion
<1>3. ASSUME TimerHandler PROVE Fits(r, result'[r])
  <2>1. h.eid \in Eids /\ Failed("timed_out", h.req).ec # "ok"
    BY <1>3 DEF TimerHandler, Running, TypeOK, Handlers, Failed
  <2> QED BY <1>3, <2>1, HandleResultAnswers DEF TimerHandler
<1>4. ASSUME ProcessRecvMsg PROVE Fits(r, result'[r])
  <2>1. b.from.eid # NoEid => b.from.eid \in Eids
    BY BufferTypes
  <2>2. CASE Failing(h) /\ HandleResult(b.from.eid, Failed(h.ec, NoRequest))
    <3>1. Failed(h.ec, NoRequest).ec # "ok" /\ b.from.eid \in Eids
      BY <2>1, <2>2 DEF Failing, Failed
    <3> QED BY <2>2, <3>1, HandleResultAnswers
  <2>3. CASE IsAnswer(h) /\ HandleResult(b.from.eid, ResponseBuffer(h))
    <3> DEFINE a == ResponseBuffer(h)
    <3>1. b.from.eid \in Eids /\ b.from.eid # NoEid /\ IidMatches(b) /\ h.ec = "ok"
          /\ h.size >= HeaderSize
      BY <2>1, <2>3 DEF IsAnswer, Decoded
    <3>2. ready # <<>> /\ IsReceived(h)
      BY <1>4, <3>1, ReceiveOutcomes DEF IsReceived
    <3>3. a.bytes = "whole" \/ Overtaken
      BY <3>2, WholeUnlessOvertaken DEF ResponseBuffer
    <3>4. a.bytes # "patched" => b.from.size >= HeaderSize
      BY <3>1 DEF ResponseBuffer
    <3>5. a.about = b.head.req
      BY DEF ResponseBuffer
    <3>6. queue[b.from.eid] # <<>> => Fits(Head(queue[b.from.eid]), a)
      BY <3>1, <3>3, <3>4, <3>5, BufferAnswersFront DEF Fits
    <3> QED BY <2>3, <3>1, <3>6, HandleResultAnswers
  <2> QED BY <1>1, <1>4, <2>2, <2>3 DEF ProcessRecvMsg
<1> QED BY <1>1, <1>2, <1>3, <1>4
        DEF Next, vars, Submit, TimerExpires, PerformReceive, DeviceResponds, StrayArrives, Restart

LEMMA AnswersBegin == Init => QueueInv /\ AnswerInv /\ BufferInv
<1> SUFFICES ASSUME Init PROVE QueueInv /\ AnswerInv /\ BufferInv
  OBVIOUS
<1>1. QueueInv /\ DoneBeforeQueued
  BY RequesterAssumption
     DEF Init, QueueInv, Issued, NoResultYet, QueuedWaits, WaitingQueued, Increasing, Requests,
         DoneBeforeQueued
<1>2. ASSUME NEW d \in Responses PROVE ~UnderWay(d)
  BY NothingUnderWay DEF Init, UnderWay
<1>3. BufferInv
  BY DEF Init, BufferInv, LastLength, NothingReceived, NoDatagram
<1> QED BY <1>1, <1>2, <1>3 DEF AnswerInv, AllGenuine

(* The answer a client is given is the whole response to its own request,  *)
(* but for what a second receive does to the shared buffer, as long as no  *)
(* response is overtaken by NumIids later requests to its endpoint.        *)
THEOREM AnswersMatch == Spec /\ []Prompt => AnswerMatchesRequest
<1>1. TypeOK /\ QueueInv /\ [Next]_vars => QueueInv'
  BY RefinementStep
<1>2. TypeOK /\ QueueInv /\ QueueInv' /\ AnswerInv /\ [Next]_vars => AnswerInv'
  BY GenuineStep
<1>3. TypeOK /\ BufferInv /\ [Next]_vars => BufferInv'
  BY BufferStep
<1>4. TypeOK /\ QueueInv /\ AnswerInv /\ BufferInv /\ Prompt /\ [Next]_vars =>
          [\A r \in Requests :
             result[r] = NoResult /\ result'[r].ec = "ok" => Fits(r, result'[r])]_vars
  BY AnswerStep
<1> QED BY <1>1, <1>2, <1>3, <1>4, AnswersBegin, TypeCorrect, PTL DEF Spec, AnswerMatchesRequest

(* With no more requests than identifiers every response is prompt.        *)
THEOREM FewRequestsMatch ==
  ASSUME MaxRequests <= NumIids
  PROVE  Spec => AnswerMatchesRequest
<1>1. TypeOK /\ QueueInv /\ AnswerInv /\ [Next]_vars => QueueInv' /\ AnswerInv'
  BY RefinementStep, GenuineStep
<1>2. TypeOK /\ AnswerInv => Prompt
  <2> DEFINE d == buffer.from
  <2> SUFFICES ASSUME TypeOK, AnswerInv, d \in Responses
               PROVE  Cardinality(SentAfter(d.eid, d.req)) < NumIids
    BY DEF Prompt
  <2>1. d.req \in Requests
    BY DEF Responses
  <2> DEFINE S == SentAfter(d.eid, d.req)
  <2>2. S \subseteq Requests \ {d.req}
    BY <2>1 DEF SentAfter, Requests
  <2>3. IsFiniteSet(Requests) /\ Cardinality(Requests) = MaxRequests
    BY FS_Interval, RequesterAssumption DEF Requests
  <2>4. /\ IsFiniteSet(Requests \ {d.req})
        /\ Cardinality(Requests \ {d.req}) = MaxRequests - 1
    BY <2>1, <2>3, FS_RemoveElement
  <2>5. Cardinality(S) <= MaxRequests - 1 /\ Cardinality(S) \in Nat
    BY <2>2, <2>4, FS_Subset, FS_CardinalityType
  <2> QED BY <2>5, RequesterAssumption
<1> QED BY <1>1, <1>2, AnswersBegin, TypeCorrect, AnswersMatch, PTL DEF Spec

=============================================================================
