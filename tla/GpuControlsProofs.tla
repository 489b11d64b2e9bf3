-------------------------- MODULE GpuControlsProofs --------------------------
(***************************************************************************)
(* Theorems about MCGpuControls and its parts.  About LongRunning, for all *)
(* commands, instance identifiers and numbers of jobs: its types, the life *)
(* of the slot's handle, and that the queue and its clients implement      *)
(* SerialService.  About GpuClockLimit and GpuPowerLimit, for all limits,  *)
(* caps and numbers of writes, polls and failures: the gates of the clock  *)
(* limit and of the power cap, and what the device ends with.              *)
(***************************************************************************)
EXTENDS MCGpuControls, TLAPS

-----------------------------------------------------------------------------
(* Handlers of some kinds in a queue.  Each handler that runs removes the  *)
(* head and appends at most one; the lemmas say what that does to them.    *)

Places(s, kinds) == {n \in DOMAIN s : s[n].kind \in kinds}

AtMostOne(S) == \A a, b \in S : a = b

Holding == {"task", "reply"}

(* The next handler is one of the kinds and the only one: none is left. *)
LEMMA TailOfOnly ==
  ASSUME NEW kinds, NEW s \in Seq(Handlers), s # <<>>,
         AtMostOne(Places(s, kinds)), Head(s).kind \in kinds
  PROVE  Places(Tail(s), kinds) = {}
<1>1. 1 \in Places(s, kinds)
  BY DEF Places
<1>2. ASSUME NEW n \in Places(Tail(s), kinds) PROVE FALSE
  <2>1. n \in 1..(Len(s) - 1) /\ Tail(s)[n] = s[n + 1]
    BY <1>2 DEF Places
  <2>2. n + 1 \in Places(s, kinds)
    BY <1>2, <2>1 DEF Places
  <2> QED BY <1>1, <2>1, <2>2 DEF AtMostOne
<1> QED BY <1>2

(* The next handler is of another kind: the others move up. *)
LEMMA TailOfOther ==
  ASSUME NEW kinds, NEW s \in Seq(Handlers), s # <<>>, Head(s).kind \notin kinds
  PROVE  /\ AtMostOne(Places(s, kinds)) => AtMostOne(Places(Tail(s), kinds))
         /\ Places(s, kinds) = {} <=> Places(Tail(s), kinds) = {}
<1>1. ASSUME NEW n \in Places(Tail(s), kinds)
      PROVE  n \in Nat /\ n + 1 \in Places(s, kinds)
  BY <1>1 DEF Places
<1>2. ASSUME NEW n \in Places(s, kinds)
      PROVE  n - 1 \in Places(Tail(s), kinds)
  <2>1. n \in 1..Len(s) /\ n # 1
    BY <1>2 DEF Places
  <2> QED BY <1>2, <2>1 DEF Places
<1>3. ASSUME AtMostOne(Places(s, kinds))
      PROVE  AtMostOne(Places(Tail(s), kinds))
  <2> SUFFICES ASSUME NEW m \in Places(Tail(s), kinds), NEW n \in Places(Tail(s), kinds)
               PROVE  m = n
    BY DEF AtMostOne
  <2>1. m + 1 = n + 1
    BY <1>1, <1>3 DEF AtMostOne
  <2> QED BY <1>1, <2>1
<1> QED BY <1>1, <1>2, <1>3

(* A handler arrives that is of another kind. *)
LEMMA AppendOther ==
  ASSUME NEW kinds, NEW s \in Seq(Handlers), NEW h \in Handlers, h.kind \notin kinds
  PROVE  Places(Append(s, h), kinds) = Places(s, kinds)
  BY DEF Places

(* A handler arrives that is the first of its kinds. *)
LEMMA AppendOnly ==
  ASSUME NEW kinds, NEW s \in Seq(Handlers), NEW h \in Handlers,
         Places(s, kinds) = {}, h.kind \in kinds
  PROVE  Places(Append(s, h), kinds) = {Len(s) + 1}
  BY DEF Places

(* What a handler of each kind carries. *)
LEMMA HandlerFields ==
  ASSUME NEW h \in Handlers
  PROVE  /\ h.kind \in {"task", "reply", "timer"} => h.job \in Jobs
         /\ h.kind = "reply" => h.iid \in Iids
         /\ h.kind \in {"event", "timer"} => h.key \in Keys
  BY DEF Handlers

LEMMA TaskIsHandler ==
  ASSUME NEW j \in Jobs
  PROVE  TaskHandler(j) \in Handlers /\ TaskHandler(j).kind = "task"
  BY DEF TaskHandler, Handlers

-----------------------------------------------------------------------------
(* Types.  A submission is numbered within the bound because a poll is     *)
(* only started when all it submits is: that is the strengthening.         *)

Budget ==
    /\ issued + Len(toPoll) <= MaxJobs
    /\ AtMostOne(Places(ready, {"poll"}))
    /\ Places(ready, {"poll"}) # {} => toPoll = <<>> /\ issued + Len(Order) <= MaxJobs
    /\ toPoll # <<>> => alive

TypeInv == TypeOK /\ Budget

(* release and ~ReleaseHandle keep the types, and queue nothing but tasks. *)
LEMMA ReleaseType ==
  ASSUME NEW rest \in Seq(Handlers), TypeOK, Release(rest) \/ DestroyHandle(rest)
  PROVE  /\ inFlight' \in BOOLEAN
         /\ pending' \in Seq(Jobs)
         /\ ready' \in Seq(Handlers)
         /\ Places(ready', {"poll"}) = Places(rest, {"poll"})
<1>1. ASSUME Release(rest)
      PROVE  /\ inFlight' \in BOOLEAN
             /\ pending' \in Seq(Jobs)
             /\ ready' \in Seq(Handlers)
             /\ Places(ready', {"poll"}) = Places(rest, {"poll"})
  <2>1. CASE pending = <<>>
    BY <1>1, <2>1 DEF Release, TypeOK
  <2>2. CASE pending # <<>>
    <3>1. Head(pending) \in Jobs /\ Tail(pending) \in Seq(Jobs)
      BY <2>2 DEF TypeOK
    <3>2. ready' = Append(rest, TaskHandler(Head(pending)))
      BY <1>1, <2>2 DEF Release
    <3>3. /\ TaskHandler(Head(pending)) \in Handlers
          /\ TaskHandler(Head(pending)).kind \notin {"poll"}
      BY <3>1, TaskIsHandler
    <3>4. Places(ready', {"poll"}) = Places(rest, {"poll"})
      BY <3>2, <3>3, AppendOther
    <3>5. ready' \in Seq(Handlers)
      BY <3>2, <3>3
    <3>6. inFlight' = inFlight /\ pending' = Tail(pending)
      BY <1>1, <2>2 DEF Release
    <3> QED BY <3>1, <3>4, <3>5, <3>6 DEF TypeOK
  <2> QED BY <2>1, <2>2
<1>2. CASE Release(rest)
  BY <1>1, <1>2
<1>3. CASE DestroyHandle(rest) /\ QueueExists
  BY <1>1, <1>3 DEF DestroyHandle
<1>4. CASE DestroyHandle(rest) /\ ~QueueExists
  BY <1>4 DEF DestroyHandle, queueVars, TypeOK
<1> QED BY <1>2, <1>3, <1>4

(* The handler that runs is no poll: what it leaves keeps to the budget. *)
LEMMA BudgetKept ==
  ASSUME TypeOK, Budget, ready # <<>>, Head(ready).kind # "poll",
         Places(ready', {"poll"}) = Places(Tail(ready), {"poll"}),
         UNCHANGED <<alive, toPoll, issued>>
  PROVE  Budget'
<1>1. ready \in Seq(Handlers)
  BY DEF TypeOK
<1>2. /\ AtMostOne(Places(ready', {"poll"}))
      /\ Places(ready', {"poll"}) # {} => Places(ready, {"poll"}) # {}
  BY <1>1, TailOfOther, Head(ready).kind \notin {"poll"} DEF Budget
<1> QED BY <1>2 DEF Budget

(* A handler arrives that is no poll. *)
LEMMA BudgetArrival ==
  ASSUME TypeOK, Budget, NEW h \in Handlers, h.kind # "poll", Arrives(h),
         UNCHANGED <<alive, toPoll, issued>>
  PROVE  Budget'
<1>1. Places(ready', {"poll"}) = Places(ready, {"poll"})
  BY AppendOther, h.kind \notin {"poll"} DEF Arrives, TypeOK
<1> QED BY <1>1 DEF Budget

(* handler and onTimeout: an entry that is erased takes its timer along. *)
LEMMA ResolveType ==
  ASSUME TypeInv, NEW key \in Keys, ready # <<>>, Head(ready).kind # "poll", Resolve(key),
         UNCHANGED <<alive, outstanding, toPoll, working, issued>>
  PROVE  TypeInv'
<1>1. Tail(ready) \in Seq(Handlers)
  BY DEF TypeInv, TypeOK
<1>2. CASE entries[key] # NoJob
  <2>1. DestroyHandle(Tail(ready))
    BY <1>2 DEF Resolve
  <2>2. /\ inFlight' \in BOOLEAN
        /\ pending' \in Seq(Jobs)
        /\ ready' \in Seq(Handlers)
        /\ Places(ready', {"poll"}) = Places(Tail(ready), {"poll"})
    BY <1>1, <2>1, ReleaseType DEF TypeInv
  <2>3. /\ entries' = [entries EXCEPT ![key] = NoJob]
        /\ armed' = [armed EXCEPT ![key] = NoJob]
    BY <1>2 DEF Resolve, Disarm
  <2>4. TypeOK'
    BY <2>2, <2>3 DEF TypeInv, TypeOK
  <2>5. Budget'
    BY <2>2, BudgetKept DEF TypeInv
  <2> QED BY <2>4, <2>5 DEF TypeInv
<1>3. CASE entries[key] = NoJob
  <2>1. TypeOK'
    BY <1>1, <1>3 DEF Resolve, TypeInv, TypeOK
  <2>2. Budget'
    BY <1>3, BudgetKept DEF Resolve, TypeInv
  <2> QED BY <2>1, <2>2 DEF TypeInv
<1> QED BY <1>2, <1>3

(* The initial state. *)
LEMMA InitType == Init => TypeInv
<1> SUFFICES ASSUME Init PROVE TypeInv
  OBVIOUS
<1>1. TypeOK
  <2>1. <<>> \in Seq(Jobs) /\ <<>> \in Seq(Handlers) /\ Order \in Seq(Commands)
    BY LongRunningAssumption
  <2>2. issued \in 0..MaxJobs
    BY LongRunningAssumption DEF Init
  <2> QED BY <2>1, <2>2 DEF Init, TypeOK
<1>2. Places(ready, {"poll"}) = {}
  BY DEF Init, Places
<1>3. Budget
  BY <1>2, LongRunningAssumption DEF Init, Budget, AtMostOne
<1> QED BY <1>1, <1>3 DEF TypeInv

LEMMA SubmitType ==
  ASSUME TypeInv, Submit PROVE TypeInv'
<1> DEFINE j == [id |-> issued + 1, cmd |-> Head(toPoll)]
<1>1. /\ toPoll # <<>> /\ toPoll \in Seq(Commands)
      /\ issued \in Nat /\ MaxJobs \in Nat
      /\ issued + Len(toPoll) <= MaxJobs
  BY LongRunningAssumption DEF Submit, TypeInv, TypeOK, Budget
<1>2. /\ Head(toPoll) \in Commands /\ Tail(toPoll) \in Seq(Commands)
      /\ Len(toPoll) \in Nat \ {0} /\ Len(Tail(toPoll)) = Len(toPoll) - 1
  BY <1>1
<1>3. issued + 1 \in 1..MaxJobs /\ issued' = issued + 1 /\ toPoll' = Tail(toPoll)
  BY <1>1, <1>2 DEF Submit
<1>4. j \in Jobs
  BY <1>2, <1>3 DEF Jobs
<1>5. /\ inFlight' \in BOOLEAN
      /\ pending' \in Seq(Jobs)
      /\ outstanding' \in SUBSET Jobs
  <2>1. CASE inFlight
    <3>1. pending' = Append(pending, j) /\ UNCHANGED <<outstanding, inFlight>>
      BY <2>1 DEF Submit
    <3> QED BY <1>4, <3>1 DEF TypeInv, TypeOK
  <2>2. CASE ~inFlight /\ Sends(j)
    BY <1>4, <2>2 DEF Submit, RunNow, TypeInv, TypeOK
  <2>3. CASE ~inFlight /\ ~Sends(j)
    BY <2>3 DEF Submit, RunNow, TypeInv, TypeOK
  <2> QED BY <2>1, <2>2, <2>3
<1>6. UNCHANGED <<alive, ready, entries, armed, working>>
  BY DEF Submit
<1>7. TypeOK'
  <2>1. issued' \in 0..MaxJobs
    BY <1>1, <1>3
  <2> QED BY <1>2, <1>3, <1>5, <1>6, <2>1 DEF TypeInv, TypeOK
<1>8. Places(ready, {"poll"}) = {}
  BY <1>1 DEF TypeInv, Budget
<1>9. Budget'
  BY <1>1, <1>2, <1>3, <1>6, <1>8 DEF TypeInv, Budget, AtMostOne
<1> QED BY <1>7, <1>9 DEF TypeInv

LEMMA RunTaskType ==
  ASSUME TypeInv, RunTask PROVE TypeInv'
<1>1. /\ ready \in Seq(Handlers) /\ ready # <<>> /\ Head(ready).kind = "task"
      /\ Tail(ready) \in Seq(Handlers) /\ Head(ready) \in Handlers
  BY DEF RunTask, Running, TypeInv, TypeOK
<1>2. CASE Sends(Head(ready).job)
  <2>1. Head(ready).job \in Jobs
    BY <1>1, HandlerFields
  <2>2. TypeOK'
    BY <1>1, <1>2, <2>1 DEF RunTask, queueVars, TypeInv, TypeOK
  <2>3. Budget'
    BY <1>1, <1>2, BudgetKept DEF RunTask, TypeInv
  <2> QED BY <2>2, <2>3 DEF TypeInv
<1>3. CASE ~Sends(Head(ready).job)
  <2>1. Release(Tail(ready)) /\ UNCHANGED outstanding
    BY <1>3 DEF RunTask
  <2>2. /\ inFlight' \in BOOLEAN
        /\ pending' \in Seq(Jobs)
        /\ ready' \in Seq(Handlers)
        /\ Places(ready', {"poll"}) = Places(Tail(ready), {"poll"})
    BY <1>1, <2>1, ReleaseType DEF TypeInv
  <2>3. UNCHANGED <<alive, entries, armed, toPoll, working, issued>>
    BY DEF RunTask
  <2>4. TypeOK'
    BY <2>1, <2>2, <2>3 DEF TypeInv, TypeOK
  <2>5. Budget'
    BY <1>1, <2>2, <2>3, BudgetKept DEF TypeInv
  <2> QED BY <2>4, <2>5 DEF TypeInv
<1> QED BY <1>2, <1>3

LEMMA RunReplyType ==
  ASSUME TypeInv, RunReply PROVE TypeInv'
<1> DEFINE key == <<Head(ready).job.cmd, Head(ready).iid>>
<1>1. /\ ready \in Seq(Handlers) /\ ready # <<>> /\ Head(ready).kind = "reply"
      /\ Tail(ready) \in Seq(Handlers) /\ Head(ready) \in Handlers
      /\ UNCHANGED <<alive, outstanding, toPoll, working, issued>>
  BY DEF RunReply, Running, TypeInv, TypeOK
<1>2. Head(ready).job \in Jobs /\ Head(ready).iid \in Iids
  BY <1>1, HandlerFields
<1>3. key \in Keys
  BY <1>2 DEF Keys, Jobs
<1>4. CASE Register(key, Head(ready).job) /\ entries[key] = NoJob
  <2>1. /\ entries' = [entries EXCEPT ![key] = Head(ready).job]
        /\ armed' = [armed EXCEPT ![key] = Head(ready).job]
        /\ ready' = Tail(ready)
        /\ UNCHANGED <<inFlight, pending>>
    BY <1>4 DEF Register, Arm, queueVars
  <2>2. TypeOK'
    BY <1>1, <1>2, <1>3, <2>1 DEF TypeInv, TypeOK
  <2>3. Budget'
    BY <1>1, <2>1, BudgetKept DEF TypeInv
  <2> QED BY <2>2, <2>3 DEF TypeInv
<1>5. CASE DestroyHandle(Tail(ready)) /\ UNCHANGED <<entries, armed>>
  <2>1. /\ inFlight' \in BOOLEAN
        /\ pending' \in Seq(Jobs)
        /\ ready' \in Seq(Handlers)
        /\ Places(ready', {"poll"}) = Places(Tail(ready), {"poll"})
    BY <1>1, <1>5, ReleaseType DEF TypeInv
  <2>2. TypeOK'
    BY <1>1, <1>5, <2>1 DEF TypeInv, TypeOK
  <2>3. Budget'
    BY <1>1, <2>1, BudgetKept DEF TypeInv
  <2> QED BY <2>2, <2>3 DEF TypeInv
<1> QED BY <1>4, <1>5 DEF RunReply, Register

LEMMA RunPollType ==
  ASSUME TypeInv, RunPoll PROVE TypeInv'
<1>1. /\ ready \in Seq(Handlers) /\ ready # <<>> /\ Head(ready).kind \in {"poll"}
      /\ ready' = Tail(ready) /\ Tail(ready) \in Seq(Handlers)
      /\ toPoll' = IF alive THEN Order ELSE <<>>
      /\ UNCHANGED <<alive, issued>>
  BY DEF RunPoll, Running, TypeInv, TypeOK
<1>2. AtMostOne(Places(ready, {"poll"}))
  BY DEF TypeInv, Budget
<1>3. Places(Tail(ready), {"poll"}) = {}
  BY <1>1, <1>2, TailOfOnly
<1>4. Places(ready, {"poll"}) # {}
  <2>1. 1 \in DOMAIN ready /\ ready[1] = Head(ready)
    BY <1>1
  <2> QED BY <1>1, <2>1 DEF Places
<1>5. TypeOK'
  BY <1>1, LongRunningAssumption DEF RunPoll, TypeInv, TypeOK
<1>6. issued + Len(Order) <= MaxJobs /\ issued \in Nat /\ issued <= MaxJobs
  BY <1>4, LongRunningAssumption DEF TypeInv, TypeOK, Budget
<1>7. issued' + Len(toPoll') <= MaxJobs
  BY <1>1, <1>6, LongRunningAssumption
<1>8. Budget'
  BY <1>1, <1>3, <1>7 DEF Budget, AtMostOne
<1> QED BY <1>5, <1>8 DEF TypeInv

LEMMA CompleteRequestType ==
  ASSUME TypeInv, NEW j \in outstanding, CompleteRequest(j) PROVE TypeInv'
<1>1. PICK outcome \in Outcomes, iid \in Iids, accepted \in BOOLEAN :
          Complete(j, outcome, iid, accepted)
  BY DEF CompleteRequest
<1> DEFINE h == [kind |-> "reply", job |-> j, outcome |-> outcome, iid |-> iid]
<1>2. j \in Jobs
  BY DEF TypeInv, TypeOK
<1>3. h \in Handlers
  BY <1>2 DEF Handlers
<1>4. <<j.cmd, iid>> \in Keys
  BY <1>2 DEF Jobs, Keys
<1>5. Arrives(h) /\ UNCHANGED <<alive, inFlight, pending, entries, armed, toPoll, issued>>
  BY <1>1 DEF Complete
<1>6. outstanding' \subseteq outstanding /\ working' \in SUBSET Keys
  BY <1>1, <1>4 DEF Complete, TypeInv, TypeOK
<1>7. TypeOK'
  BY <1>3, <1>5, <1>6 DEF Arrives, TypeInv, TypeOK
<1>8. Budget'
  BY <1>3, <1>5, BudgetArrival DEF TypeInv
<1> QED BY <1>7, <1>8 DEF TypeInv

LEMMA DeviceEventType ==
  ASSUME TypeInv, NEW key \in Keys, DeviceEvent(key) PROVE TypeInv'
<1> DEFINE h == [kind |-> "event", key |-> key]
<1>1. h \in Handlers
  BY DEF Handlers
<1>2. TypeOK'
  BY <1>1 DEF DeviceEvent, Arrives, TypeInv, TypeOK
<1>3. Budget'
  BY <1>1, BudgetArrival DEF DeviceEvent, TypeInv
<1> QED BY <1>2, <1>3 DEF TypeInv

LEMMA TimerExpiresType ==
  ASSUME TypeInv, NEW key \in Keys, TimerExpires(key) PROVE TypeInv'
<1> DEFINE h == [kind |-> "timer", key |-> key, job |-> armed[key]]
<1>1. armed[key] \in Jobs
  BY DEF TimerExpires, TypeInv, TypeOK
<1>2. h \in Handlers
  BY <1>1 DEF Handlers
<1>3. /\ Arrives(h) /\ armed' = [armed EXCEPT ![key] = NoJob]
      /\ UNCHANGED <<alive, inFlight, pending, outstanding, entries, toPoll, working, issued>>
  BY DEF TimerExpires
<1>4. TypeOK'
  BY <1>2, <1>3 DEF Arrives, TypeInv, TypeOK
<1>5. Budget'
  BY <1>2, <1>3, BudgetArrival DEF TypeInv
<1> QED BY <1>4, <1>5 DEF TypeInv

LEMMA PollExpiresType ==
  ASSUME TypeInv, PollExpires PROVE TypeInv'
<1> DEFINE h == [kind |-> "poll"]
<1>1. h \in Handlers /\ h.kind \in {"poll"}
  BY DEF Handlers
<1>2. ready' = Append(ready, h) /\ ready \in Seq(Handlers)
  BY DEF PollExpires, Arrives, TypeInv, TypeOK
<1>3. Places(ready, {"poll"}) = {}
  BY DEF PollExpires, Places
<1>4. Places(ready', {"poll"}) = {Len(ready) + 1}
  BY <1>1, <1>2, <1>3, AppendOnly
<1>5. TypeOK'
  BY <1>1, <1>2 DEF PollExpires, TypeInv, TypeOK
<1>6. Budget'
  BY <1>4 DEF PollExpires, TypeInv, Budget, AtMostOne
<1> QED BY <1>5, <1>6 DEF TypeInv

LEMMA DestroyType ==
  ASSUME TypeInv, Destroy PROVE TypeInv'
<1>1. TypeOK'
  <2>1. /\ inFlight' = inFlight \/ inFlight' = FALSE
        /\ pending' = pending \/ pending' = <<>>
    BY DEF Destroy, queueVars
  <2>2. /\ alive' = FALSE
        /\ UNCHANGED <<ready, outstanding, entries, armed, toPoll, working, issued>>
    BY DEF Destroy
  <2>3. inFlight' \in BOOLEAN
    BY <2>1, Zenon DEF TypeInv, TypeOK
  <2>4. pending' \in Seq(Jobs)
    <3>1. <<>> \in Seq(Jobs) /\ pending \in Seq(Jobs)
      BY DEF TypeInv, TypeOK
    <3> QED BY <2>1, <3>1
  <2> QED BY <2>2, <2>3, <2>4 DEF TypeInv, TypeOK
<1>2. Budget'
  BY DEF Destroy, TypeInv, Budget
<1> QED BY <1>1, <1>2 DEF TypeInv

(* The strengthened types are inductive. *)
LEMMA TypeInductive == TypeInv /\ [Next]_vars => TypeInv'
<1> SUFFICES ASSUME TypeInv, [Next]_vars PROVE TypeInv'
  OBVIOUS
<1>1. CASE Submit
  BY <1>1, SubmitType
<1>2. CASE RunTask
  BY <1>2, RunTaskType
<1>3. CASE RunReply
  BY <1>3, RunReplyType
<1>4. CASE RunEvent
  <2>1. Head(ready).key \in Keys
    BY <1>4, HandlerFields DEF RunEvent, Running, TypeInv, TypeOK
  <2> QED BY <1>4, <2>1, ResolveType DEF RunEvent, Running
<1>5. CASE RunTimer
  <2>1. Head(ready).key \in Keys
    BY <1>5, HandlerFields DEF RunTimer, Running, TypeInv, TypeOK
  <2> QED BY <1>5, <2>1, ResolveType DEF RunTimer, Running
<1>6. CASE RunPoll
  BY <1>6, RunPollType
<1>7. CASE \E j \in outstanding : CompleteRequest(j)
  BY <1>7, CompleteRequestType
<1>8. CASE \E key \in Keys : DeviceEvent(key)
  BY <1>8, DeviceEventType
<1>9. CASE \E key \in Keys : TimerExpires(key)
  BY <1>9, TimerExpiresType
<1>10. CASE PollExpires
  BY <1>10, PollExpiresType
<1>11. CASE Destroy
  BY <1>11, DestroyType
<1>12. CASE UNCHANGED vars
  BY <1>12 DEF vars, TypeInv, TypeOK, Budget, Places
<1> QED BY <1>1, <1>2, <1>3, <1>4, <1>5, <1>6, <1>7, <1>8, <1>9, <1>10, <1>11, <1>12
        DEF Next, RunHandler

(***************************************************************************)
(* Every variable of the queue and its clients keeps its type: no job is   *)
(* numbered beyond the bound, and a timer belongs to the entry it expires. *)
(***************************************************************************)
THEOREM TypeCorrect == Spec => []TypeOK
<1>1. Init => TypeInv
  BY InitType
<1>2. TypeInv /\ [Next]_vars => TypeInv'
  BY TypeInductive
<1>3. TypeInv => TypeOK
  BY DEF TypeInv
<1> QED BY <1>1, <1>2, <1>3, PTL DEF Spec

-----------------------------------------------------------------------------
(* The slot.  Holders is a set of tagged tuples; the proof uses its parts: *)
(* at most one of them has a member, and only one.                         *)

Entered == {k \in Keys : entries[k] # NoJob}

Held == outstanding # {} \/ Places(ready, Holding) # {} \/ Entered # {}

OneHolder ==
    /\ AtMostOne(outstanding) /\ AtMostOne(Places(ready, Holding)) /\ AtMostOne(Entered)
    /\ outstanding # {} => Places(ready, Holding) = {} /\ Entered = {}
    /\ Places(ready, Holding) # {} => Entered = {}

Slot ==
    /\ OneHolder
    /\ QueueExists => (inFlight <=> Held)
    /\ pending # <<>> => inFlight

SlotInv == TypeInv /\ Slot

(* The parts say what Holders says. *)
LEMMA HoldersParts == OneHolder <=> \A a, b \in Holders : a = b
<1>1. ASSUME OneHolder, NEW a \in Holders, NEW b \in Holders
      PROVE  a = b
  BY <1>1 DEF OneHolder, Holders, Entered, Places, Holding, AtMostOne
<1>2. ASSUME \A a, b \in Holders : a = b
      PROVE  OneHolder
  <2>1. \A j \in outstanding : <<"request", j>> \in Holders
    BY DEF Holders
  <2>2. \A n \in Places(ready, Holding) : <<"handler", n>> \in Holders
    BY DEF Holders, Places, Holding
  <2>3. \A k \in Entered : <<"entry", k>> \in Holders
    BY DEF Holders, Entered
  <2>4. AtMostOne(outstanding) /\ AtMostOne(Places(ready, Holding)) /\ AtMostOne(Entered)
    BY <1>2, <2>1, <2>2, <2>3 DEF AtMostOne
  <2>5. outstanding # {} => Places(ready, Holding) = {} /\ Entered = {}
    BY <1>2, <2>1, <2>2, <2>3
  <2>6. Places(ready, Holding) # {} => Entered = {}
    BY <1>2, <2>2, <2>3
  <2> QED BY <2>4, <2>5, <2>6 DEF OneHolder
<1> QED BY <1>1, <1>2

LEMMA HoldersEmpty == Held <=> Holders # {}
<1>1. ASSUME Held PROVE Holders # {}
  BY <1>1 DEF Held, Holders, Entered, Places, Holding
<1>2. ASSUME Holders # {} PROVE Held
  BY <1>2 DEF Held, Holders, Entered, Places, Holding
<1> QED BY <1>1, <1>2

LEMMA SlotInvImplies == SlotInv => SlotHeldOnce
  BY HoldersParts, HoldersEmpty DEF SlotInv, Slot, SlotHeldOnce

LEMMA PostedPlaces == \A s : Posted(s) = Places(s, {"task"})
  BY DEF Posted, Places

(* A handler runs that holds the handle: nothing else does. *)
LEMMA HeadHolds ==
  ASSUME SlotInv, ready # <<>>, Head(ready).kind \in Holding
  PROVE  /\ outstanding = {} /\ Entered = {} /\ Held
         /\ Places(Tail(ready), Holding) = {}
<1>1. ready \in Seq(Handlers)
  BY DEF SlotInv, TypeInv, TypeOK
<1>2. 1 \in DOMAIN ready /\ ready[1] = Head(ready)
  BY <1>1
<1>3. 1 \in Places(ready, Holding)
  BY <1>2 DEF Places
<1>4. Places(Tail(ready), Holding) = {}
  BY <1>1, TailOfOnly DEF SlotInv, Slot, OneHolder
<1> QED BY <1>3, <1>4 DEF SlotInv, Slot, OneHolder, Held

(* A handler runs that does not hold it: the holder is who it was. *)
LEMMA HeadHoldsNot ==
  ASSUME TypeOK, ready # <<>>, Head(ready).kind \notin Holding
  PROVE  /\ AtMostOne(Places(ready, Holding)) => AtMostOne(Places(Tail(ready), Holding))
         /\ Places(ready, Holding) = {} <=> Places(Tail(ready), Holding) = {}
         /\ Posted(ready) = {} <=> Posted(Tail(ready)) = {}
<1>1. ready \in Seq(Handlers) /\ Head(ready).kind \notin {"task"}
  BY DEF TypeOK, Holding
<1> QED BY <1>1, TailOfOther, PostedPlaces

(* The holder gives the handle back: the next task takes it, or the slot   *)
(* is free, or there is no queue any more.                                 *)
LEMMA LetGo ==
  ASSUME SlotInv, Held, NEW rest \in Seq(Handlers), Places(rest, Holding) = {},
         DestroyHandle(rest), outstanding' = {}, Entered' = {}, alive' = alive
  PROVE  Slot'
<1>1. Posted(rest) = {}
  BY PostedPlaces DEF Places, Holding
<1>2. CASE ~QueueExists
  <2>1. ready' = rest /\ inFlight' = inFlight /\ pending' = pending
    BY <1>2 DEF DestroyHandle, queueVars
  <2>2. ~QueueExists'
    BY <1>1, <1>2, <2>1 DEF QueueExists
  <2>3. OneHolder'
    BY <2>1 DEF OneHolder, AtMostOne
  <2> QED BY <2>1, <2>2, <2>3 DEF SlotInv, Slot
<1>3. CASE QueueExists /\ pending = <<>>
  <2>1. inFlight' = FALSE /\ ready' = rest /\ pending' = <<>>
    BY <1>3 DEF DestroyHandle, Release
  <2>2. OneHolder' /\ ~Held'
    BY <2>1 DEF OneHolder, AtMostOne, Held
  <2> QED BY <2>1, <2>2 DEF Slot
<1>4. CASE QueueExists /\ pending # <<>>
  <2> DEFINE t == TaskHandler(Head(pending))
  <2>1. ready' = Append(rest, t) /\ inFlight' = inFlight
    BY <1>4 DEF DestroyHandle, Release
  <2>2. Head(pending) \in Jobs
    BY <1>4 DEF SlotInv, TypeInv, TypeOK
  <2>3. t \in Handlers /\ t.kind \in Holding
    BY <2>2, TaskIsHandler DEF Holding
  <2> HIDE DEF t
  <2>4. Places(ready', Holding) = {Len(rest) + 1}
    BY <2>1, <2>3, AppendOnly
  <2>5. OneHolder' /\ Held'
    BY <2>4 DEF OneHolder, AtMostOne, Held
  <2>6. inFlight
    BY <1>4 DEF SlotInv, Slot
  <2> QED BY <2>1, <2>5, <2>6 DEF Slot
<1> QED BY <1>2, <1>3, <1>4

(* The handle moves or stays, and the queue is not touched. *)
LEMMA Moved ==
  ASSUME Slot, OneHolder', Held' <=> Held, QueueExists' => QueueExists,
         inFlight' = inFlight, pending' = pending
  PROVE  Slot'
  BY DEF Slot

LEMMA SubmitSlot ==
  ASSUME SlotInv, Submit PROVE Slot'
<1> DEFINE j == [id |-> issued + 1, cmd |-> Head(toPoll)]
<1>1. alive /\ QueueExists /\ (inFlight <=> Held)
  BY DEF Submit, SlotInv, TypeInv, Budget, Slot, QueueExists
<1>2. UNCHANGED <<alive, ready, entries>>
  BY DEF Submit
<1>3. Entered' = Entered /\ Places(ready', Holding) = Places(ready, Holding)
  BY <1>2 DEF Entered
<1>4. CASE inFlight
  <2>1. inFlight' = inFlight /\ outstanding' = outstanding
    BY <1>4 DEF Submit
  <2>2. OneHolder' /\ Held'
    BY <1>1, <1>3, <1>4, <2>1 DEF SlotInv, Slot, OneHolder, Held
  <2> QED BY <1>4, <2>1, <2>2 DEF Slot
<1>5. CASE ~inFlight /\ Sends(j)
  <2>1. outstanding' = outstanding \cup {j} /\ inFlight' = TRUE
    BY <1>5 DEF Submit, RunNow
  <2>2. outstanding' = {j} /\ Entered' = {} /\ Places(ready', Holding) = {}
    BY <1>1, <1>3, <1>5, <2>1 DEF Held
  <2>3. OneHolder' /\ Held'
    BY <2>2 DEF OneHolder, AtMostOne, Held
  <2> QED BY <2>1, <2>3 DEF Slot
<1>6. CASE ~inFlight /\ ~Sends(j)
  <2>1. outstanding' = outstanding /\ inFlight' = inFlight /\ pending' = pending
    BY <1>6 DEF Submit, RunNow
  <2>2. OneHolder' /\ (Held' <=> Held)
    BY <1>3, <2>1 DEF SlotInv, Slot, OneHolder, Held
  <2> QED BY <1>1, <2>1, <2>2, Moved DEF SlotInv
<1> QED BY <1>4, <1>5, <1>6

LEMMA RunTaskSlot ==
  ASSUME SlotInv, RunTask PROVE Slot'
<1>1. /\ ready \in Seq(Handlers) /\ ready # <<>> /\ Head(ready).kind = "task"
      /\ Tail(ready) \in Seq(Handlers)
      /\ UNCHANGED <<alive, entries>>
  BY DEF RunTask, Running, SlotInv, TypeInv, TypeOK
<1>2. /\ outstanding = {} /\ Entered = {} /\ Held
      /\ Places(Tail(ready), Holding) = {}
  BY <1>1, HeadHolds DEF Holding
<1>3. QueueExists
  <2>1. 1 \in DOMAIN ready /\ ready[1] = Head(ready)
    BY <1>1
  <2> QED BY <1>1, <2>1 DEF QueueExists, Posted
<1>4. Entered' = {}
  BY <1>1, <1>2 DEF Entered
<1>5. CASE Sends(Head(ready).job)
  <2>1. /\ outstanding' = {Head(ready).job}
        /\ ready' = Tail(ready)
        /\ inFlight' = inFlight /\ pending' = pending
    BY <1>2, <1>5 DEF RunTask, queueVars
  <2>2. OneHolder' /\ Held'
    BY <1>2, <1>4, <2>1 DEF OneHolder, AtMostOne, Held
  <2> QED BY <1>2, <1>3, <2>1, <2>2, Moved DEF SlotInv
<1>6. CASE ~Sends(Head(ready).job)
  <2>1. DestroyHandle(Tail(ready)) /\ outstanding' = {}
    BY <1>2, <1>3, <1>6 DEF RunTask, DestroyHandle
  <2> QED BY <1>1, <1>2, <1>4, <2>1, LetGo
<1> QED BY <1>5, <1>6

LEMMA RunReplySlot ==
  ASSUME SlotInv, RunReply PROVE Slot'
<1> DEFINE key == <<Head(ready).job.cmd, Head(ready).iid>>
<1>1. /\ ready \in Seq(Handlers) /\ ready # <<>> /\ Head(ready).kind = "reply"
      /\ Tail(ready) \in Seq(Handlers) /\ Head(ready) \in Handlers
      /\ UNCHANGED <<alive, outstanding>>
  BY DEF RunReply, Running, SlotInv, TypeInv, TypeOK
<1>2. /\ outstanding' = {} /\ Entered = {} /\ Held
      /\ Places(Tail(ready), Holding) = {}
  BY <1>1, HeadHolds DEF Holding
<1>3. CASE Register(key, Head(ready).job) /\ entries[key] = NoJob /\ alive
  <2>1. Head(ready).job \in Jobs /\ key \in Keys
    BY <1>1, HandlerFields DEF Keys, Jobs
  <2>2. /\ entries' = [entries EXCEPT ![key] = Head(ready).job]
        /\ ready' = Tail(ready)
        /\ inFlight' = inFlight /\ pending' = pending
    BY <1>3 DEF Register, queueVars
  <2>3. Entered' = {key}
    BY <1>2, <2>1, <2>2, NoJobAssumption DEF Entered, SlotInv, TypeInv, TypeOK
  <2>4. OneHolder' /\ Held'
    BY <1>2, <2>2, <2>3 DEF OneHolder, AtMostOne, Held
  <2>5. QueueExists
    BY <1>3 DEF QueueExists
  <2> QED BY <1>2, <2>2, <2>4, <2>5, Moved DEF SlotInv
<1>4. CASE DestroyHandle(Tail(ready)) /\ UNCHANGED <<entries, armed>>
  <2>1. Entered' = {}
    BY <1>2, <1>4 DEF Entered
  <2> QED BY <1>1, <1>2, <1>4, <2>1, LetGo
<1> QED BY <1>3, <1>4 DEF RunReply, Register

(* handler and onTimeout: an event or a timer of an awaited result ends    *)
(* the wait; any other is of no effect.                                    *)
LEMMA ResolveSlot ==
  ASSUME SlotInv, NEW key \in Keys, ready # <<>>, Head(ready).kind \notin Holding,
         Resolve(key), UNCHANGED <<alive, outstanding>>
  PROVE  Slot'
<1>1. /\ AtMostOne(Places(ready, Holding)) => AtMostOne(Places(Tail(ready), Holding))
      /\ Places(ready, Holding) = {} <=> Places(Tail(ready), Holding) = {}
      /\ Posted(ready) = {} <=> Posted(Tail(ready)) = {}
  BY HeadHoldsNot DEF SlotInv, TypeInv
<1>2. CASE entries[key] # NoJob
  <2>1. key \in Entered
    BY <1>2 DEF Entered
  <2>2. outstanding' = {} /\ Places(Tail(ready), Holding) = {} /\ Held
    BY <1>1, <2>1 DEF SlotInv, Slot, OneHolder, Held
  <2>3. entries' = [entries EXCEPT ![key] = NoJob] /\ DestroyHandle(Tail(ready))
    BY <1>2 DEF Resolve
  <2>4. \A k \in Entered : k = key
    BY <2>1 DEF SlotInv, Slot, OneHolder, AtMostOne
  <2>5. Entered' = {}
    BY <2>3, <2>4 DEF Entered, SlotInv, TypeInv, TypeOK
  <2>6. Tail(ready) \in Seq(Handlers)
    BY DEF SlotInv, TypeInv, TypeOK
  <2> QED BY <2>2, <2>3, <2>5, <2>6, LetGo
<1>3. CASE entries[key] = NoJob
  <2>1. /\ ready' = Tail(ready) /\ entries' = entries
        /\ inFlight' = inFlight /\ pending' = pending
    BY <1>3 DEF Resolve
  <2>2. Entered' = Entered
    BY <2>1 DEF Entered
  <2>3. OneHolder' /\ (Held' <=> Held)
    BY <1>1, <2>1, <2>2 DEF SlotInv, Slot, OneHolder, Held
  <2>4. QueueExists' => QueueExists
    BY <1>1, <2>1 DEF QueueExists
  <2> QED BY <2>1, <2>3, <2>4, Moved DEF SlotInv
<1> QED BY <1>2, <1>3

LEMMA RunPollSlot ==
  ASSUME SlotInv, RunPoll PROVE Slot'
<1>1. /\ ready # <<>> /\ Head(ready).kind \notin Holding /\ ready' = Tail(ready)
      /\ UNCHANGED <<alive, outstanding, entries>>
      /\ inFlight' = inFlight /\ pending' = pending
  BY DEF RunPoll, Running, Holding
<1>2. /\ AtMostOne(Places(ready, Holding)) => AtMostOne(Places(Tail(ready), Holding))
      /\ Places(ready, Holding) = {} <=> Places(Tail(ready), Holding) = {}
      /\ Posted(ready) = {} <=> Posted(Tail(ready)) = {}
  BY <1>1, HeadHoldsNot DEF SlotInv, TypeInv
<1>3. Entered' = Entered
  BY <1>1 DEF Entered
<1>4. OneHolder' /\ (Held' <=> Held)
  BY <1>1, <1>2, <1>3 DEF SlotInv, Slot, OneHolder, Held
<1>5. QueueExists' => QueueExists
  BY <1>1, <1>2 DEF QueueExists
<1> QED BY <1>1, <1>4, <1>5, Moved DEF SlotInv

LEMMA CompleteRequestSlot ==
  ASSUME SlotInv, NEW j \in outstanding, CompleteRequest(j) PROVE Slot'
<1>1. PICK outcome \in Outcomes, iid \in Iids, accepted \in BOOLEAN :
          Complete(j, outcome, iid, accepted)
  BY DEF CompleteRequest
<1> DEFINE h == [kind |-> "reply", job |-> j, outcome |-> outcome, iid |-> iid]
<1>2. /\ h \in Handlers /\ h.kind \in Holding /\ h.kind \notin {"task"}
      /\ ready \in Seq(Handlers)
  BY DEF Handlers, Holding, SlotInv, TypeInv, TypeOK
<1>3. /\ outstanding' = outstanding \ {j} /\ ready' = Append(ready, h)
      /\ UNCHANGED <<alive, entries>>
      /\ inFlight' = inFlight /\ pending' = pending
  BY <1>1 DEF Complete, Arrives
<1>4. outstanding' = {} /\ Places(ready, Holding) = {} /\ Entered = {} /\ Held
  BY <1>3 DEF SlotInv, Slot, OneHolder, AtMostOne, Held
<1>5. Places(ready', Holding) = {Len(ready) + 1} /\ Posted(ready') = Posted(ready)
  BY <1>2, <1>3, <1>4, AppendOnly, AppendOther, PostedPlaces
<1>6. Entered' = {}
  BY <1>3, <1>4 DEF Entered
<1>7. OneHolder' /\ Held'
  BY <1>4, <1>5, <1>6 DEF OneHolder, AtMostOne, Held
<1>8. QueueExists' => QueueExists
  BY <1>3, <1>5 DEF QueueExists
<1> QED BY <1>3, <1>4, <1>7, <1>8, Moved DEF SlotInv

(* An event, a timer or a poll arrives; it holds no handle. *)
LEMMA ArrivalSlot ==
  ASSUME SlotInv, NEW h \in Handlers, h.kind \notin Holding, Arrives(h),
         UNCHANGED <<alive, outstanding, entries, inFlight, pending>>
  PROVE  Slot'
<1>1. /\ Places(ready', Holding) = Places(ready, Holding)
      /\ Posted(ready') = Posted(ready)
  BY AppendOther, PostedPlaces, h.kind \notin {"task"}
     DEF Arrives, Holding, SlotInv, TypeInv, TypeOK
<1>2. Entered' = Entered
  BY DEF Entered
<1>3. OneHolder' /\ (Held' <=> Held)
  BY <1>1, <1>2 DEF SlotInv, Slot, OneHolder, Held
<1>4. QueueExists' => QueueExists
  BY <1>1 DEF QueueExists
<1>5. inFlight' = inFlight /\ pending' = pending
  OBVIOUS
<1> QED BY <1>3, <1>4, <1>5, Moved DEF SlotInv

LEMMA DestroySlot ==
  ASSUME SlotInv, Destroy PROVE Slot'
<1>1. /\ ~alive' /\ ready' = ready
      /\ UNCHANGED <<outstanding, entries>>
  BY DEF Destroy
<1>2. Entered' = Entered
  BY <1>1 DEF Entered
<1>3. OneHolder' /\ (Held' <=> Held)
  BY <1>1, <1>2 DEF SlotInv, Slot, OneHolder, Held
<1>4. CASE Posted(ready) # {}
  <2>1. inFlight' = inFlight /\ pending' = pending
    BY <1>4 DEF Destroy, queueVars
  <2>2. QueueExists
    BY <1>4 DEF QueueExists
  <2> QED BY <1>3, <2>1, <2>2, Moved DEF SlotInv
<1>5. CASE Posted(ready) = {}
  BY <1>1, <1>3, <1>5 DEF Destroy, Slot, QueueExists
<1> QED BY <1>4, <1>5

(* The strengthened invariant is inductive. *)
LEMMA SlotInductive ==
  /\ Init => SlotInv
  /\ SlotInv /\ [Next]_vars => SlotInv'
<1>1. ASSUME Init PROVE SlotInv
  <2>1. /\ Places(ready, Holding) = {} /\ Entered = {} /\ outstanding = {}
        /\ inFlight = FALSE /\ pending = <<>>
    BY <1>1 DEF Init, Places, Entered
  <2>2. Slot
    BY <2>1 DEF Slot, OneHolder, AtMostOne, Held
  <2> QED BY <1>1, <2>2, InitType DEF SlotInv
<1>2. ASSUME SlotInv, [Next]_vars PROVE SlotInv'
  <2>1. TypeInv'
    BY <1>2, TypeInductive DEF SlotInv
  <2>2. Slot'
    <3>1. CASE Submit
      BY <1>2, <3>1, SubmitSlot
    <3>2. CASE RunTask
      BY <1>2, <3>2, RunTaskSlot
    <3>3. CASE RunReply
      BY <1>2, <3>3, RunReplySlot
    <3>4. CASE RunEvent
      <4>1. Head(ready).key \in Keys
        BY <1>2, <3>4, HandlerFields DEF RunEvent, Running, SlotInv, TypeInv, TypeOK
      <4> QED BY <1>2, <3>4, <4>1, ResolveSlot DEF RunEvent, Running, Holding
    <3>5. CASE RunTimer
      <4>1. Head(ready).key \in Keys
        BY <1>2, <3>5, HandlerFields DEF RunTimer, Running, SlotInv, TypeInv, TypeOK
      <4> QED BY <1>2, <3>5, <4>1, ResolveSlot DEF RunTimer, Running, Holding
    <3>6. CASE RunPoll
      BY <1>2, <3>6, RunPollSlot
    <3>7. CASE \E j \in outstanding : CompleteRequest(j)
      BY <1>2, <3>7, CompleteRequestSlot
    <3>8. CASE \E key \in Keys : DeviceEvent(key)
      <4>1. PICK key \in Keys : DeviceEvent(key)
        BY <3>8
      <4>2. [kind |-> "event", key |-> key] \in Handlers
        BY DEF Handlers
      <4> QED BY <1>2, <4>1, <4>2, ArrivalSlot DEF DeviceEvent, Holding
    <3>9. CASE \E key \in Keys : TimerExpires(key)
      <4>1. PICK key \in Keys : TimerExpires(key)
        BY <3>9
      <4>2. armed[key] \in Jobs
        BY <1>2, <4>1 DEF TimerExpires, SlotInv, TypeInv, TypeOK
      <4>3. [kind |-> "timer", key |-> key, job |-> armed[key]] \in Handlers
        BY <4>2 DEF Handlers
      <4> QED BY <1>2, <4>1, <4>3, ArrivalSlot DEF TimerExpires, Holding
    <3>10. CASE PollExpires
      <4>1. [kind |-> "poll"] \in Handlers
        BY DEF Handlers
      <4> QED BY <1>2, <3>10, <4>1, ArrivalSlot DEF PollExpires, Holding
    <3>11. CASE Destroy
      BY <1>2, <3>11, DestroySlot
    <3>12. CASE UNCHANGED vars
      <4>1. /\ OneHolder' <=> OneHolder
            /\ Held' <=> Held
            /\ QueueExists' <=> QueueExists
            /\ inFlight' = inFlight /\ pending' = pending
        BY <3>12 DEF vars, OneHolder, Held, QueueExists, Entered
      <4> QED BY <1>2, <4>1, Moved DEF SlotInv, Slot
    <3> QED BY <1>2, <3>1, <3>2, <3>3, <3>4, <3>5, <3>6, <3>7, <3>8, <3>9, <3>10, <3>11,
               <3>12 DEF Next, RunHandler
  <2> QED BY <2>1, <2>2 DEF SlotInv
<1> QED BY <1>1, <1>2

(***************************************************************************)
(* The slot of the SerialQueue is taken exactly when one continuation      *)
(* holds its handle, for all commands: over every return of doUpdate,      *)
(* processResponse, handler and onTimeout, and the end of the device.      *)
(***************************************************************************)
THEOREM SlotIsHeldOnce == Spec => []SlotHeldOnce
<1>1. Init => SlotInv
  BY SlotInductive
<1>2. SlotInv /\ [Next]_vars => SlotInv'
  BY SlotInductive
<1>3. SlotInv => SlotHeldOnce
  BY SlotInvImplies
<1> QED BY <1>1, <1>2, <1>3, PTL DEF Spec

-----------------------------------------------------------------------------
(* Refinement.  The line of the service is read off the holder of the      *)
(* handle: no job is under way, or one waits for its task, or one runs.    *)

Idle == RunningJobs = {} /\ ReadyJobs("task") = {}
Waits(j) == RunningJobs = {} /\ ReadyJobs("task") = {j}
Runs(j) == RunningJobs = {j} /\ ReadyJobs("task") = {}

LEMMA OneOfEmpty == OneOf({}) = <<>>
  BY DEF OneOf

LEMMA OneOfSingle == ASSUME NEW j PROVE OneOf({j}) = <<j>>
  BY DEF OneOf

(* What each of them means for the line. *)
LineFacts ==
    pending \in Seq(Jobs) =>
        /\ ~QueueExists => Line = <<>> /\ ~Begun
        /\ QueueExists /\ Idle => Line = pending /\ ~Begun
        /\ \A j \in Jobs : QueueExists /\ Waits(j) => Line = <<j>> \o pending /\ ~Begun
        /\ \A j \in Jobs : QueueExists /\ Runs(j) => Line = <<j>> \o pending /\ Begun

LEMMA LineOf == LineFacts
<1> SUFFICES ASSUME pending \in Seq(Jobs)
             PROVE  /\ ~QueueExists => Line = <<>> /\ ~Begun
                    /\ QueueExists /\ Idle => Line = pending /\ ~Begun
                    /\ \A j \in Jobs :
                          QueueExists /\ Waits(j) => Line = <<j>> \o pending /\ ~Begun
                    /\ \A j \in Jobs :
                          QueueExists /\ Runs(j) => Line = <<j>> \o pending /\ Begun
  BY DEF LineFacts
<1>1. ~QueueExists => Line = <<>> /\ ~Begun
  BY DEF Line, Begun
<1>2. ASSUME QueueExists, Idle PROVE Line = pending /\ ~Begun
  <2>1. Line = <<>> \o <<>> \o pending
    BY <1>2, OneOfEmpty DEF Line, Idle
  <2> QED BY <1>2, <2>1 DEF Begun, Idle
<1>3. ASSUME NEW j \in Jobs, QueueExists, Waits(j) PROVE Line = <<j>> \o pending /\ ~Begun
  <2>1. Line = <<>> \o <<j>> \o pending
    BY <1>3, OneOfEmpty, OneOfSingle DEF Line, Waits
  <2>2. <<j>> \in Seq(Jobs) /\ <<>> \o <<j>> = <<j>>
    OBVIOUS
  <2> QED BY <1>3, <2>1, <2>2 DEF Begun, Waits
<1>4. ASSUME NEW j \in Jobs, QueueExists, Runs(j) PROVE Line = <<j>> \o pending /\ Begun
  <2>1. Line = <<j>> \o <<>> \o pending
    BY <1>4, OneOfEmpty, OneOfSingle DEF Line, Runs
  <2>2. <<j>> \in Seq(Jobs) /\ <<j>> \o <<>> = <<j>>
    OBVIOUS
  <2> QED BY <1>4, <2>1, <2>2 DEF Begun, Runs
<1> QED BY <1>1, <1>2, <1>3, <1>4

(* Which it is, by the holder. *)
ShapeFacts ==
    /\ outstanding = {} /\ Places(ready, Holding) = {} /\ Entered = {} => Idle
    /\ \A j : outstanding = {j} /\ Places(ready, Holding) = {} /\ Entered = {} => Runs(j)
    /\ \A k \in Keys : \A j :
          /\ outstanding = {} /\ Places(ready, Holding) = {} /\ Entered = {k}
          /\ entries[k] = j
          => Runs(j)
    /\ \A n, j :
          /\ outstanding = {} /\ Places(ready, Holding) = {n} /\ Entered = {}
          /\ ready[n].job = j
          => /\ ready[n].kind = "task" => Waits(j)
             /\ ready[n].kind = "reply" => Runs(j)

LEMMA ShapeIdle ==
  outstanding = {} /\ Places(ready, Holding) = {} /\ Entered = {} => Idle
  BY DEF Places, Holding, Entered, Idle, RunningJobs, ReadyJobs

LEMMA ShapeRequest ==
  \A j : outstanding = {j} /\ Places(ready, Holding) = {} /\ Entered = {} => Runs(j)
  BY DEF Places, Holding, Entered, Runs, RunningJobs, ReadyJobs

LEMMA ShapeEntry ==
  \A k \in Keys : outstanding = {} /\ Places(ready, Holding) = {} /\ Entered = {k}
                    => Runs(entries[k])
  BY DEF Places, Holding, Entered, Runs, RunningJobs, ReadyJobs

LEMMA ShapeHandler ==
  \A n : outstanding = {} /\ Places(ready, Holding) = {n} /\ Entered = {} =>
            /\ ready[n].kind = "task" => Waits(ready[n].job)
            /\ ready[n].kind = "reply" => Runs(ready[n].job)
<1> SUFFICES ASSUME NEW n, outstanding = {}, Places(ready, Holding) = {n}, Entered = {}
             PROVE  /\ ready[n].kind = "task" => Waits(ready[n].job)
                    /\ ready[n].kind = "reply" => Runs(ready[n].job)
  OBVIOUS
<1>1. {entries[k] : k \in Keys} \ {NoJob} = {}
  BY DEF Entered
<1>2. n \in DOMAIN ready /\ \A m \in DOMAIN ready : ready[m].kind \in Holding => m = n
  BY DEF Places
<1>3. ASSUME ready[n].kind = "task" PROVE Waits(ready[n].job)
  <2>1. ReadyJobs("task") = {ready[n].job} /\ ReadyJobs("reply") = {}
    BY <1>2, <1>3 DEF ReadyJobs, Holding
  <2> QED BY <1>1, <2>1 DEF Waits, RunningJobs
<1>4. ASSUME ready[n].kind = "reply" PROVE Runs(ready[n].job)
  <2>1. ReadyJobs("reply") = {ready[n].job} /\ ReadyJobs("task") = {}
    BY <1>2, <1>4 DEF ReadyJobs, Holding
  <2> QED BY <1>1, <2>1 DEF Runs, RunningJobs
<1> QED BY <1>3, <1>4

(* Both sets of facts hold of the next state as well. *)
LEMMA ShapeOf == ShapeFacts /\ ShapeFacts'
<1>1. ShapeFacts
  BY ShapeIdle, ShapeRequest, ShapeEntry, ShapeHandler DEF ShapeFacts
<1> QED BY <1>1, PTL

LEMMA LineOfNext == LineFacts'
  BY LineOf, PTL

(* The slot is taken: some job waits for its task or runs. *)
LEMMA HeldShape ==
  ASSUME SlotInv, Held
  PROVE  \E j \in Jobs : Runs(j) \/ Waits(j)
<1>1. CASE outstanding # {}
  <2>1. PICK j \in outstanding : TRUE
    BY <1>1
  <2>2. j \in Jobs /\ outstanding = {j} /\ Places(ready, Holding) = {} /\ Entered = {}
    BY <2>1 DEF SlotInv, TypeInv, TypeOK, Slot, OneHolder, AtMostOne
  <2> QED BY <2>2, ShapeOf DEF ShapeFacts
<1>2. CASE Places(ready, Holding) # {}
  <2>1. PICK n \in Places(ready, Holding) : TRUE
    BY <1>2
  <2>2. outstanding = {} /\ Places(ready, Holding) = {n} /\ Entered = {}
    BY <2>1 DEF SlotInv, Slot, OneHolder, AtMostOne
  <2>3. ready[n].kind \in {"task", "reply"} /\ ready[n] \in Handlers
    BY <2>1 DEF Places, Holding, SlotInv, TypeInv, TypeOK
  <2>4. ready[n].job \in Jobs
    BY <2>3, HandlerFields
  <2> QED BY <2>2, <2>3, <2>4, ShapeOf DEF ShapeFacts
<1>3. CASE Entered # {}
  <2>1. PICK k \in Entered : TRUE
    BY <1>3
  <2>2. outstanding = {} /\ Places(ready, Holding) = {} /\ Entered = {k}
    BY <2>1 DEF SlotInv, Slot, OneHolder, AtMostOne
  <2>3. k \in Keys /\ entries[k] \in Jobs
    BY <2>1 DEF Entered, SlotInv, TypeInv, TypeOK
  <2> QED BY <2>2, <2>3, ShapeOf DEF ShapeFacts
<1> QED BY <1>1, <1>2, <1>3 DEF Held

(* A step that moves no job leaves the line as it is. *)
LEMMA SameLine ==
  ASSUME RunningJobs' = RunningJobs, ReadyJobs("task")' = ReadyJobs("task"),
         QueueExists' <=> QueueExists, pending' = pending
  PROVE  UNCHANGED Service!lineVars
  BY DEF Line, Begun, Service!lineVars

(* A handler that holds no job leaves or joins the queue. *)
LEMMA TailJobs ==
  ASSUME TypeOK, ready # <<>>, Head(ready).kind \notin Holding, ready' = Tail(ready),
         NEW kind \in Holding
  PROVE  ReadyJobs(kind)' = ReadyJobs(kind)
<1>1. ready \in Seq(Handlers) /\ DOMAIN ready = 1..Len(ready) /\ ready[1] = Head(ready)
  BY DEF TypeOK
<1>2. /\ DOMAIN Tail(ready) = 1..(Len(ready) - 1)
      /\ \A i \in 1..(Len(ready) - 1) : Tail(ready)[i] = ready[i + 1]
  BY <1>1
<1>3. ASSUME NEW j \in ReadyJobs(kind) PROVE j \in ReadyJobs(kind)'
  <2>1. PICK n \in DOMAIN ready : ready[n].kind = kind /\ ready[n].job = j
    BY <1>3 DEF ReadyJobs
  <2>2. n \in 2..Len(ready)
    BY <1>1, <2>1
  <2>3. n - 1 \in DOMAIN Tail(ready) /\ Tail(ready)[n - 1] = ready[n]
    BY <1>1, <1>2, <2>2
  <2> QED BY <2>1, <2>3 DEF ReadyJobs
<1>4. ASSUME NEW j \in ReadyJobs(kind)' PROVE j \in ReadyJobs(kind)
  <2>1. PICK n \in DOMAIN Tail(ready) : Tail(ready)[n].kind = kind /\ Tail(ready)[n].job = j
    BY <1>4 DEF ReadyJobs
  <2>2. n + 1 \in DOMAIN ready /\ Tail(ready)[n] = ready[n + 1]
    BY <1>1, <1>2
  <2> QED BY <2>1, <2>2 DEF ReadyJobs
<1> QED BY <1>3, <1>4

LEMMA AppendJobs ==
  ASSUME TypeOK, NEW h \in Handlers, h.kind \notin Holding, Arrives(h), NEW kind \in Holding
  PROVE  ReadyJobs(kind)' = ReadyJobs(kind)
<1>1. /\ ready \in Seq(Handlers) /\ DOMAIN ready = 1..Len(ready)
      /\ ready' = Append(ready, h)
  BY DEF Arrives, TypeOK
<1>2. /\ DOMAIN ready' = 1..(Len(ready) + 1)
      /\ ready'[Len(ready) + 1] = h
      /\ \A i \in 1..Len(ready) : ready'[i] = ready[i]
  BY <1>1
<1>3. {n \in DOMAIN ready' : ready'[n].kind = kind} = {n \in DOMAIN ready : ready[n].kind = kind}
  BY <1>1, <1>2
<1> QED BY <1>1, <1>2, <1>3 DEF ReadyJobs

(* The running job lets the slot go: the service ends it. *)
LEMMA LetGoLine ==
  ASSUME SlotInv, Held, NEW rest \in Seq(Handlers), Places(rest, Holding) = {},
         DestroyHandle(rest), outstanding' = {}, Entered' = {}, alive' = alive,
         pending' \in Seq(Jobs)
  PROVE  Service!LineEnd \/ UNCHANGED Service!lineVars
<1>1. Posted(rest) = {}
  BY PostedPlaces DEF Places, Holding
<1>2. PICK j \in Jobs : Runs(j) \/ Waits(j)
  BY HeldShape
<1>3. pending \in Seq(Jobs)
  BY DEF SlotInv, TypeInv, TypeOK
<1>4. QueueExists => Line = <<j>> \o pending
  BY <1>2, <1>3, LineOf DEF LineFacts
<1>5. QueueExists => Line # <<>> /\ Tail(Line) = pending
  BY <1>3, <1>4
<1>6. CASE ~QueueExists
  <2>1. ready' = rest
    BY <1>6 DEF DestroyHandle
  <2>2. ~QueueExists'
    BY <1>1, <1>6, <2>1 DEF QueueExists
  <2>3. Line = <<>> /\ ~Begun /\ Line' = <<>> /\ ~Begun'
    BY <1>6, <2>2 DEF Line, Begun
  <2>4. Begun \in BOOLEAN /\ Begun' \in BOOLEAN
    BY DEF Begun
  <2> QED BY <2>3, <2>4 DEF Service!lineVars
<1>7. CASE QueueExists /\ pending = <<>>
  <2>1. ready' = rest /\ pending' = <<>>
    BY <1>7 DEF DestroyHandle, Release
  <2>2. Idle'
    BY <2>1, ShapeOf DEF ShapeFacts
  <2>3. Line' = <<>> /\ ~Begun'
    BY <2>1, <2>2, LineOfNext DEF LineFacts
  <2>4. Begun' = FALSE
    BY <2>3 DEF Begun
  <2> QED BY <1>5, <1>7, <2>3, <2>4 DEF Service!LineEnd
<1>8. CASE QueueExists /\ pending # <<>>
  <2> DEFINE t == TaskHandler(Head(pending))
             n == Len(rest) + 1
  <2>1. ready' = Append(rest, t) /\ pending' = Tail(pending)
    BY <1>8 DEF DestroyHandle, Release
  <2>2. PICK next \in Jobs : next = Head(pending)
    BY <1>3, <1>8
  <2>3. t \in Handlers /\ t.kind = "task" /\ t.kind \in Holding
    BY <2>2, TaskIsHandler DEF Holding
  <2>4. t.job = next
    BY <2>2 DEF TaskHandler
  <2> HIDE DEF t
  <2>5. Places(ready', Holding) = {n}
    BY <2>1, <2>3, AppendOnly
  <2>6. ready'[n] = t /\ n \in DOMAIN ready'
    BY <2>1, <2>3
  <2> HIDE DEF n
  <2>7. Waits(next)'
    BY <2>3, <2>4, <2>5, <2>6, ShapeOf DEF ShapeFacts
  <2>8. QueueExists'
    BY <2>3, <2>6 DEF QueueExists, Posted
  <2>9. Line' = <<next>> \o pending' /\ ~Begun'
    BY <2>7, <2>8, LineOfNext DEF LineFacts
  <2>10. <<next>> \o Tail(pending) = pending
    BY <1>3, <1>8, <2>2
  <2>11. Line' = Tail(Line) /\ Begun' = FALSE
    BY <1>5, <1>8, <2>1, <2>9, <2>10 DEF Begun
  <2> QED BY <1>5, <1>8, <2>11 DEF Service!LineEnd
<1> QED BY <1>6, <1>7, <1>8

LEMMA SubmitLine ==
  ASSUME SlotInv, SlotInv', Submit
  PROVE  Service!LineSubmit \/ UNCHANGED Service!lineVars
<1> DEFINE j == [id |-> issued + 1, cmd |-> Head(toPoll)]
<1>1. /\ QueueExists /\ (inFlight <=> Held) /\ (pending # <<>> => inFlight)
      /\ UNCHANGED <<alive, ready, entries>>
      /\ pending \in Seq(Jobs) /\ pending' \in Seq(Jobs)
  BY DEF Submit, SlotInv, TypeInv, TypeOK, Budget, Slot, QueueExists
<1>2. QueueExists'
  BY <1>1 DEF QueueExists
<1>3. j \in Jobs
  <2>1. /\ toPoll \in Seq(Commands) /\ toPoll # <<>>
        /\ issued \in Nat /\ MaxJobs \in Nat /\ issued + Len(toPoll) <= MaxJobs
    BY LongRunningAssumption DEF Submit, SlotInv, TypeInv, TypeOK, Budget
  <2>2. Head(toPoll) \in Commands /\ Len(toPoll) \in Nat \ {0}
    BY <2>1
  <2>3. issued + 1 \in 1..MaxJobs
    BY <2>1, <2>2
  <2> QED BY <2>2, <2>3 DEF Jobs
<1>4. CASE inFlight
  <2>1. pending' = Append(pending, j) /\ outstanding' = outstanding
    BY <1>4 DEF Submit
  <2>2. RunningJobs' = RunningJobs /\ ReadyJobs("task")' = ReadyJobs("task")
    BY <1>1, <2>1 DEF RunningJobs, ReadyJobs
  <2>3. PICK x \in Jobs : Runs(x) \/ Waits(x)
    BY <1>1, <1>4, HeldShape
  <2>4. Line = <<x>> \o pending /\ Line' = <<x>> \o pending'
    <3>1. Runs(x)' \/ Waits(x)'
      BY <2>2, <2>3 DEF Runs, Waits
    <3> QED BY <1>1, <1>2, <2>3, <3>1, LineOf, LineOfNext DEF LineFacts
  <2> HIDE DEF j
  <2>5. Line' = Append(Line, j) /\ Line # <<>>
    BY <1>1, <1>3, <2>1, <2>4
  <2>6. Begun' = (Begun \/ Line = <<>>)
    BY <1>1, <1>2, <2>2, <2>5 DEF Begun
  <2> QED BY <1>3, <2>5, <2>6 DEF Service!LineSubmit
<1>5. CASE ~inFlight
  <2>1. /\ pending = <<>> /\ pending' = pending /\ RunNow(j)
        /\ outstanding = {} /\ Places(ready, Holding) = {} /\ Entered = {}
    BY <1>1, <1>5 DEF Submit, Held
  <2>2. CASE ~Sends(j)
    <3>1. outstanding' = outstanding
      BY <2>1, <2>2 DEF RunNow
    <3>2. RunningJobs' = RunningJobs /\ ReadyJobs("task")' = ReadyJobs("task")
      BY <1>1, <3>1 DEF RunningJobs, ReadyJobs
    <3> QED BY <1>1, <1>2, <2>1, <3>2, SameLine
  <2>3. CASE Sends(j)
    <3>1. outstanding' = {j}
      BY <2>1, <2>3 DEF RunNow
    <3>2. Places(ready', Holding) = {} /\ Entered' = {}
      BY <1>1, <2>1 DEF Entered
    <3>3. PICK x \in Jobs : x = j
      BY <1>3
    <3> HIDE DEF j
    <3>4. Runs(x)'
      BY <3>1, <3>2, <3>3, ShapeOf DEF ShapeFacts
    <3>5. Line' = <<x>> \o pending' /\ Begun'
      BY <1>1, <1>2, <3>4, LineOfNext DEF LineFacts
    <3>6. Idle
      BY <2>1, ShapeOf DEF ShapeFacts
    <3>7. Line = <<>>
      BY <1>1, <2>1, <3>6, LineOf DEF LineFacts
    <3>8. Line' = Append(Line, x)
      BY <2>1, <3>5, <3>7
    <3>9. Begun' = (Begun \/ Line = <<>>)
      BY <3>5, <3>7 DEF Begun
    <3> QED BY <3>8, <3>9 DEF Service!LineSubmit
  <2> QED BY <2>2, <2>3
<1> QED BY <1>4, <1>5

(* A posted task begins, or ends as it begins. *)
LEMMA RunTaskLine ==
  ASSUME SlotInv, SlotInv', RunTask
  PROVE  Service!LineBegin \/ Service!LineEnd \/ UNCHANGED Service!lineVars
<1>1. /\ ready \in Seq(Handlers) /\ ready # <<>> /\ Head(ready).kind = "task"
      /\ Head(ready) \in Handlers /\ Tail(ready) \in Seq(Handlers)
      /\ UNCHANGED <<alive, entries>>
      /\ pending \in Seq(Jobs) /\ pending' \in Seq(Jobs)
  BY DEF RunTask, Running, SlotInv, TypeInv, TypeOK
<1>2. /\ outstanding = {} /\ Entered = {} /\ Held
      /\ Places(Tail(ready), Holding) = {}
  BY <1>1, HeadHolds DEF Holding
<1>3. 1 \in Places(ready, Holding) /\ ready[1] = Head(ready) /\ 1 \in DOMAIN ready
  BY <1>1 DEF Places, Holding
<1>4. QueueExists
  BY <1>1, <1>3 DEF QueueExists, Posted
<1>5. PICK j \in Jobs : j = Head(ready).job
  BY <1>1, HandlerFields
<1>6. Entered' = {}
  BY <1>1, <1>2 DEF Entered
<1>7. CASE Sends(Head(ready).job)
  <2>1. Places(ready, Holding) = {1}
    BY <1>3 DEF SlotInv, Slot, OneHolder, AtMostOne
  <2>2. Waits(j)
    BY <1>1, <1>2, <1>3, <1>5, <2>1, ShapeOf DEF ShapeFacts
  <2>3. outstanding' = {j} /\ ready' = Tail(ready) /\ pending' = pending
    BY <1>2, <1>5, <1>7 DEF RunTask, queueVars
  <2>4. Runs(j)'
    BY <1>2, <1>6, <2>3, ShapeOf DEF ShapeFacts
  <2>5. QueueExists'
    BY <1>1, <1>7 DEF QueueExists, Sends
  <2>6. Line = <<j>> \o pending /\ ~Begun
    BY <1>1, <1>4, <2>2, LineOf DEF LineFacts
  <2>7. Line' = <<j>> \o pending' /\ Begun'
    BY <1>1, <2>4, <2>5, LineOfNext DEF LineFacts
  <2>8. Line # <<>> /\ Line' = Line /\ Begun' = TRUE
    BY <1>1, <2>3, <2>6, <2>7 DEF Begun
  <2> QED BY <2>6, <2>8 DEF Service!LineBegin
<1>8. CASE ~Sends(Head(ready).job)
  <2>1. DestroyHandle(Tail(ready)) /\ outstanding' = {}
    BY <1>2, <1>4, <1>8 DEF RunTask, DestroyHandle
  <2> QED BY <1>1, <1>2, <1>6, <2>1, LetGoLine
<1> QED BY <1>7, <1>8

(* The reply to a request: the job goes on waiting for its result, or ends. *)
LEMMA RunReplyLine ==
  ASSUME SlotInv, SlotInv', RunReply
  PROVE  Service!LineEnd \/ UNCHANGED Service!lineVars
<1> DEFINE key == <<Head(ready).job.cmd, Head(ready).iid>>
<1>1. /\ ready \in Seq(Handlers) /\ ready # <<>> /\ Head(ready).kind = "reply"
      /\ Tail(ready) \in Seq(Handlers) /\ Head(ready) \in Handlers
      /\ UNCHANGED <<alive, outstanding>>
      /\ pending \in Seq(Jobs) /\ pending' \in Seq(Jobs)
  BY DEF RunReply, Running, SlotInv, TypeInv, TypeOK
<1>2. /\ outstanding = {} /\ outstanding' = {} /\ Entered = {} /\ Held
      /\ Places(Tail(ready), Holding) = {}
  BY <1>1, HeadHolds DEF Holding
<1>3. CASE Register(key, Head(ready).job) /\ entries[key] = NoJob /\ alive
  <2>1. PICK j \in Jobs : j = Head(ready).job
    BY <1>1, HandlerFields
  <2>2. PICK k \in Keys : k = key
    BY <1>1, HandlerFields DEF Keys, Jobs
  <2>3. /\ entries' = [entries EXCEPT ![k] = j]
        /\ ready' = Tail(ready) /\ pending' = pending
    BY <1>3, <2>1, <2>2 DEF Register, queueVars
  <2>4. Entered' = {k} /\ entries'[k] = j
    BY <1>2, <2>1, <2>2, <2>3, NoJobAssumption DEF Entered, SlotInv, TypeInv, TypeOK
  <2>5. Runs(j)'
    BY <1>2, <2>3, <2>4, ShapeOf DEF ShapeFacts
  <2>6. 1 \in Places(ready, Holding) /\ ready[1] = Head(ready)
    BY <1>1 DEF Places, Holding
  <2>7. Places(ready, Holding) = {1}
    BY <2>6 DEF SlotInv, Slot, OneHolder, AtMostOne
  <2>8. Runs(j)
    BY <1>1, <1>2, <2>1, <2>6, <2>7, ShapeOf DEF ShapeFacts
  <2>9. QueueExists /\ QueueExists'
    BY <1>1, <1>3 DEF QueueExists
  <2>10. RunningJobs' = RunningJobs /\ ReadyJobs("task")' = ReadyJobs("task")
    BY <2>5, <2>8 DEF Runs
  <2> QED BY <2>3, <2>9, <2>10, SameLine
<1>4. CASE DestroyHandle(Tail(ready)) /\ UNCHANGED <<entries, armed>>
  <2>1. Entered' = {}
    BY <1>2, <1>4 DEF Entered
  <2> QED BY <1>1, <1>2, <1>4, <2>1, LetGoLine
<1> QED BY <1>3, <1>4 DEF RunReply, Register

LEMMA ResolveLine ==
  ASSUME SlotInv, SlotInv', NEW key \in Keys, ready # <<>>, Head(ready).kind \notin Holding,
         Resolve(key), UNCHANGED <<alive, outstanding>>
  PROVE  Service!LineEnd \/ UNCHANGED Service!lineVars
<1>1. /\ TypeOK /\ Tail(ready) \in Seq(Handlers) /\ pending' \in Seq(Jobs)
      /\ Places(ready, Holding) = {} <=> Places(Tail(ready), Holding) = {}
      /\ Posted(ready) = {} <=> Posted(Tail(ready)) = {}
  BY HeadHoldsNot DEF SlotInv, TypeInv, TypeOK
<1>2. CASE entries[key] # NoJob
  <2>1. key \in Entered
    BY <1>2 DEF Entered
  <2>2. outstanding' = {} /\ Places(Tail(ready), Holding) = {} /\ Held
    BY <1>1, <2>1 DEF SlotInv, Slot, OneHolder, Held
  <2>3. entries' = [entries EXCEPT ![key] = NoJob] /\ DestroyHandle(Tail(ready))
    BY <1>2 DEF Resolve
  <2>4. \A k \in Entered : k = key
    BY <2>1 DEF SlotInv, Slot, OneHolder, AtMostOne
  <2>5. Entered' = {}
    BY <1>1, <2>3, <2>4 DEF Entered, TypeOK
  <2> QED BY <1>1, <2>2, <2>3, <2>5, LetGoLine
<1>3. CASE entries[key] = NoJob
  <2>1. ready' = Tail(ready) /\ entries' = entries /\ pending' = pending
    BY <1>3 DEF Resolve
  <2>2. ReadyJobs("task")' = ReadyJobs("task") /\ ReadyJobs("reply")' = ReadyJobs("reply")
    BY <1>1, <2>1, TailJobs DEF Holding
  <2>3. RunningJobs' = RunningJobs
    BY <2>1, <2>2 DEF RunningJobs
  <2>4. QueueExists' <=> QueueExists
    BY <1>1, <2>1 DEF QueueExists
  <2> QED BY <2>1, <2>2, <2>3, <2>4, SameLine
<1> QED BY <1>2, <1>3

LEMMA RunPollLine ==
  ASSUME SlotInv, RunPoll PROVE UNCHANGED Service!lineVars
<1>1. /\ ready # <<>> /\ Head(ready).kind \notin Holding /\ ready' = Tail(ready)
      /\ UNCHANGED <<alive, outstanding, entries>> /\ pending' = pending
  BY DEF RunPoll, Running, Holding
<1>2. TypeOK /\ (Posted(ready) = {} <=> Posted(Tail(ready)) = {})
  BY <1>1, HeadHoldsNot DEF SlotInv, TypeInv
<1>3. ReadyJobs("task")' = ReadyJobs("task") /\ ReadyJobs("reply")' = ReadyJobs("reply")
  BY <1>1, <1>2, TailJobs DEF Holding
<1>4. RunningJobs' = RunningJobs
  BY <1>1, <1>3 DEF RunningJobs
<1>5. QueueExists' <=> QueueExists
  BY <1>1, <1>2 DEF QueueExists
<1> QED BY <1>1, <1>3, <1>4, <1>5, SameLine

LEMMA CompleteRequestLine ==
  ASSUME SlotInv, SlotInv', NEW j \in outstanding, CompleteRequest(j)
  PROVE  UNCHANGED Service!lineVars
<1>1. PICK outcome \in Outcomes, iid \in Iids, accepted \in BOOLEAN :
          Complete(j, outcome, iid, accepted)
  BY DEF CompleteRequest
<1> DEFINE h == [kind |-> "reply", job |-> j, outcome |-> outcome, iid |-> iid]
<1>2. /\ h \in Handlers /\ h.kind = "reply" /\ h.job = j
      /\ h.kind \in Holding /\ h.kind \notin {"task"}
      /\ ready \in Seq(Handlers) /\ j \in Jobs
  BY DEF Handlers, Holding, SlotInv, TypeInv, TypeOK
<1>3. /\ outstanding' = outstanding \ {j} /\ ready' = Append(ready, h)
      /\ UNCHANGED <<alive, entries>> /\ pending' = pending
  BY <1>1 DEF Complete, Arrives
<1> HIDE DEF h
<1>4. /\ outstanding = {j} /\ outstanding' = {}
      /\ Places(ready, Holding) = {} /\ Entered = {}
  BY <1>3 DEF SlotInv, Slot, OneHolder, AtMostOne
<1>5. /\ Places(ready', Holding) = {Len(ready) + 1} /\ Posted(ready') = Posted(ready)
      /\ ready'[Len(ready) + 1] = h
  BY <1>2, <1>3, <1>4, AppendOnly, AppendOther, PostedPlaces
<1>6. Entered' = {}
  BY <1>3, <1>4 DEF Entered
<1>7. Runs(j) /\ Runs(j)'
  <2>1. Runs(j)
    BY <1>4, ShapeOf DEF ShapeFacts
  <2>2. Runs(j)'
    BY <1>2, <1>4, <1>5, <1>6, ShapeOf DEF ShapeFacts
  <2> QED BY <2>1, <2>2
<1>8. QueueExists' <=> QueueExists
  BY <1>3, <1>5 DEF QueueExists
<1>9. RunningJobs' = RunningJobs /\ ReadyJobs("task")' = ReadyJobs("task")
  BY <1>7 DEF Runs
<1> QED BY <1>3, <1>8, <1>9, SameLine

LEMMA ArrivalLine ==
  ASSUME SlotInv, NEW h \in Handlers, h.kind \notin Holding, Arrives(h),
         UNCHANGED <<alive, outstanding, entries, pending>>
  PROVE  UNCHANGED Service!lineVars
<1>1. TypeOK /\ ready \in Seq(Handlers)
  BY DEF SlotInv, TypeInv, TypeOK
<1>2. ReadyJobs("task")' = ReadyJobs("task") /\ ReadyJobs("reply")' = ReadyJobs("reply")
  BY <1>1, AppendJobs DEF Holding
<1>3. RunningJobs' = RunningJobs
  BY <1>2 DEF RunningJobs
<1>4. Posted(ready') = Posted(ready)
  BY <1>1, AppendOther, PostedPlaces, h.kind \notin {"task"} DEF Arrives, Holding
<1>5. (QueueExists' <=> QueueExists) /\ pending' = pending
  BY <1>4 DEF QueueExists
<1> QED BY <1>2, <1>3, <1>5, SameLine

LEMMA DestroyLine ==
  ASSUME SlotInv, Destroy
  PROVE  Service!LineDestroy \/ UNCHANGED Service!lineVars
<1>1. ~alive' /\ ready' = ready /\ UNCHANGED <<outstanding, entries>>
  BY DEF Destroy
<1>2. RunningJobs' = RunningJobs /\ ReadyJobs("task")' = ReadyJobs("task")
  BY <1>1 DEF RunningJobs, ReadyJobs
<1>3. CASE Posted(ready) # {}
  <2>1. pending' = pending /\ QueueExists /\ QueueExists'
    BY <1>1, <1>3 DEF Destroy, queueVars, QueueExists
  <2> QED BY <1>2, <2>1, SameLine
<1>4. CASE Posted(ready) = {}
  <2>1. ~QueueExists'
    BY <1>1, <1>4 DEF QueueExists
  <2>2. Line' = <<>> /\ Begun' = FALSE
    BY <2>1 DEF Line, Begun
  <2> QED BY <2>2 DEF Service!LineDestroy
<1> QED BY <1>3, <1>4

(* A step of the queue or its clients is a step of the service or none. *)
LEMMA ServiceStep ==
  ASSUME SlotInv, SlotInv', [Next]_vars
  PROVE  [Service!LineNext]_Service!lineVars
<1>1. CASE Submit
  BY <1>1, SubmitLine DEF Service!LineNext
<1>2. CASE RunTask
  BY <1>2, RunTaskLine DEF Service!LineNext
<1>3. CASE RunReply
  BY <1>3, RunReplyLine DEF Service!LineNext
<1>4. CASE RunEvent
  <2>1. Head(ready).key \in Keys
    BY <1>4, HandlerFields DEF RunEvent, Running, SlotInv, TypeInv, TypeOK
  <2> QED BY <1>4, <2>1, ResolveLine DEF RunEvent, Running, Holding, Service!LineNext
<1>5. CASE RunTimer
  <2>1. Head(ready).key \in Keys
    BY <1>5, HandlerFields DEF RunTimer, Running, SlotInv, TypeInv, TypeOK
  <2> QED BY <1>5, <2>1, ResolveLine DEF RunTimer, Running, Holding, Service!LineNext
<1>6. CASE RunPoll
  BY <1>6, RunPollLine
<1>7. CASE \E j \in outstanding : CompleteRequest(j)
  BY <1>7, CompleteRequestLine
<1>8. CASE \E key \in Keys : DeviceEvent(key)
  <2>1. PICK key \in Keys : DeviceEvent(key)
    BY <1>8
  <2>2. [kind |-> "event", key |-> key] \in Handlers
    BY DEF Handlers
  <2> QED BY <2>1, <2>2, ArrivalLine DEF DeviceEvent, Holding
<1>9. CASE \E key \in Keys : TimerExpires(key)
  <2>1. PICK key \in Keys : TimerExpires(key)
    BY <1>9
  <2>2. armed[key] \in Jobs
    BY <2>1 DEF TimerExpires, SlotInv, TypeInv, TypeOK
  <2>3. [kind |-> "timer", key |-> key, job |-> armed[key]] \in Handlers
    BY <2>2 DEF Handlers
  <2> QED BY <2>1, <2>3, ArrivalLine DEF TimerExpires, Holding
<1>10. CASE PollExpires
  <2>1. [kind |-> "poll"] \in Handlers
    BY DEF Handlers
  <2> QED BY <1>10, <2>1, ArrivalLine DEF PollExpires, Holding
<1>11. CASE Destroy
  BY <1>11, DestroyLine DEF Service!LineNext
<1>12. CASE UNCHANGED vars
  <2>1. /\ RunningJobs' = RunningJobs /\ ReadyJobs("task")' = ReadyJobs("task")
        /\ (QueueExists' <=> QueueExists) /\ pending' = pending
    BY <1>12 DEF vars, RunningJobs, ReadyJobs, QueueExists
  <2> QED BY <2>1, SameLine
<1> QED BY <1>1, <1>2, <1>3, <1>4, <1>5, <1>6, <1>7, <1>8, <1>9, <1>10, <1>11, <1>12
        DEF Next, RunHandler

(***************************************************************************)
(* The SerialQueue and its clients implement a serial service, for all     *)
(* commands: the jobs of a GPU begin in the order they were submitted,     *)
(* none before the one ahead of it has ended (SerialQueue::submit,         *)
(* release, and the clients that hold its handle).                         *)
(***************************************************************************)
THEOREM SerialRefinement == Spec => ServiceSafety
<1>1. Init => SlotInv
  BY SlotInductive
<1>2. SlotInv /\ [Next]_vars => SlotInv'
  BY SlotInductive
<1>3. Init => Service!LineInit
  <2> SUFFICES ASSUME Init PROVE Service!LineInit
    OBVIOUS
  <2>1. Places(ready, Holding) = {} /\ Entered = {} /\ outstanding = {} /\ pending = <<>>
    BY DEF Init, Places, Entered
  <2>2. Idle /\ pending \in Seq(Jobs) /\ QueueExists
    BY <2>1, ShapeOf DEF ShapeFacts, Init, QueueExists
  <2>3. Line = <<>> /\ Begun = FALSE
    BY <2>1, <2>2, LineOf DEF LineFacts, Begun
  <2> QED BY <2>3 DEF Service!LineInit
<1>4. SlotInv /\ SlotInv' /\ [Next]_vars => [Service!LineNext]_Service!lineVars
  BY ServiceStep
<1> QED BY <1>1, <1>2, <1>3, <1>4, PTL DEF Spec, ServiceSafety, Service!LineSpec

-----------------------------------------------------------------------------
(* The clock limit and the power cap.                                      *)
LEMMA BoundsAreNat ==
  MaxWrites \in Nat /\ MaxPolls \in Nat /\ MaxFailures \in Nat /\ MaxQueued \in Nat
BY ControlsAssumption DEF Clock!ClockAssumption

(***************************************************************************)
(* What a component in its turn, or an idle one, starts from.              *)
(***************************************************************************)
LEMMA InitParts ==
  GpuInit => Clock!Start /\ Power!Start /\ clockFailures \in 0..MaxFailures
<1>1. 0 \in 0..MaxFailures /\ MaxFailures \in 0..MaxFailures
  BY BoundsAreNat
<1> QED BY <1>1 DEF GpuInit, ClockIdle, PowerIdle, Clock!Init, Power!Init

LEMMA NextParts ==
  [GpuNext]_allVars =>
    /\ [Next]_vars
    /\ Clock!Next \/ UNCHANGED clockVars
    /\ Power!Next \/ UNCHANGED capVars
BY DEF GpuNext, allVars

-----------------------------------------------------------------------------
(* Types                                                                   *)

LEMMA ClockRequests ==
  /\ [kind |-> "poll"] \in Clock!Requests /\ [kind |-> "readback"] \in Clock!Requests
  /\ \A f \in [Clock!Bounds -> Clock!Mirrored] : [kind |-> "set", limits |-> f] \in Clock!Requests
  /\ \A r \in Clock!Requests :
        \/ r.kind = "set" /\ r.limits \in [Clock!Bounds -> Clock!Mirrored]
        \/ r.kind \in {"poll", "readback"}
BY DEF Clock!Requests

(***************************************************************************)
(* While a set is out the gate is closed, and no read-back is to open it:  *)
(* the response to a poll that was queued before leaves it closed.         *)
(***************************************************************************)
ClockGate ==
    /\ \A i \in DOMAIN clockChan : clockChan[i].kind = "set" => clockInflight /\ ~readback
    /\ Clock!OneSetOutstanding

LEMMA ClockTypeInit == GpuInit => Clock!TypeOK
<1> SUFFICES ASSUME GpuInit PROVE Clock!TypeOK
  OBVIOUS
<1>1. /\ clockWrites \in 0..MaxWrites /\ clockPolls \in 0..MaxPolls
      /\ clockFailures \in 0..MaxFailures /\ 0 \in 0..MaxQueued
  BY BoundsAreNat DEF GpuInit, ClockIdle, Clock!Init
<1>2. clockChan \in Seq(Clock!Requests)
  BY InitParts DEF Clock!Start
<1>3. clockDevice \in [Clock!Bounds -> Clock!Mirrored]
  BY InitParts DEF Clock!Start, Clock!Mirrored
<1> QED BY <1>1, <1>2, <1>3, InitParts
        DEF Clock!Start, Clock!TypeOK, Clock!Optional, Clock!Mirrored, Clock!Bounds

LEMMA ClockResponseType ==
  ASSUME Clock!TypeOK, ClockGate, clockChan # <<>>, NEW ok \in BOOLEAN,
         Clock!HandleResponse(ok)
  PROVE  /\ requested' \in [Clock!Bounds -> Clock!Mirrored]
         /\ clockInflight' \in BOOLEAN /\ readback' \in BOOLEAN
         /\ readback' => clockInflight'
         /\ clockChan' \in Seq(Clock!Requests)
<1> USE DEF Clock!HandleResponse, Clock!TypeOK
<1>1. clockChan[1] \in Clock!Requests /\ Tail(clockChan) \in Seq(Clock!Requests)
  OBVIOUS
<1>2. CASE Clock!HandleGetResponse(ok)
  <2>1. clockChan' \in Seq(Clock!Requests) /\ requested' \in [Clock!Bounds -> Clock!Mirrored]
    BY <1>1, <1>2 DEF Clock!HandleGetResponse
  <2>2. clockInflight' \in BOOLEAN /\ readback' = FALSE
    BY <1>2 DEF Clock!HandleGetResponse, Clock!OpenGate
  <2> QED BY <2>1, <2>2
<1>3. CASE Clock!HandleSetResponse(ok)
  <2>1. clockChan' \in Seq(Clock!Requests)
    BY <1>1, <1>3, ClockRequests DEF Clock!HandleSetResponse, Clock!ReadBack
  <2>2. clockInflight' \in BOOLEAN /\ readback' \in BOOLEAN
    BY <1>3 DEF Clock!HandleSetResponse, Clock!ReadBack
  <2>3. clockInflight /\ ~readback
    BY <1>3 DEF Clock!HandleSetResponse, ClockGate
  <2>4. readback' => clockInflight'
    BY <1>3, <2>3 DEF Clock!HandleSetResponse, Clock!ReadBack
  <2> QED BY <1>3, <2>1, <2>2, <2>4 DEF Clock!HandleSetResponse
<1> QED BY <1>2, <1>3

LEMMA ClockTypeStep ==
  ASSUME Clock!TypeOK, ClockGate, Clock!Next \/ UNCHANGED clockVars
  PROVE  Clock!TypeOK'
<1> USE DEF Clock!TypeOK
<1>1. ASSUME NEW b \in Clock!Bounds, NEW v \in Limits, Clock!Write(b, v) PROVE Clock!TypeOK'
  <2>1. v \in Clock!Optional
    BY DEF Clock!Optional
  <2>2. clockWrites' \in 0..MaxWrites
    BY <1>1, BoundsAreNat DEF Clock!Write
  <2> QED BY <1>1, <2>1, <2>2 DEF Clock!Write, Clock!ArmSetLimitTimer
<1>2. ASSUME Clock!TimerExpires \/ Clock!RetryLater PROVE Clock!TypeOK'
  <2>1. clockQueued' \in 0..MaxQueued
    BY <1>2, BoundsAreNat DEF Clock!TimerExpires, Clock!RetryLater
  <2>2. clockArmed' \in BOOLEAN
    BY <1>2 DEF Clock!TimerExpires, Clock!RetryLater, Clock!ArmSetLimitTimer
  <2> QED BY <1>2, <2>1, <2>2 DEF Clock!TimerExpires, Clock!RetryLater
<1>3. ASSUME Clock!ApplyPendingClockLimit PROVE Clock!TypeOK'
  <2>1. [b \in Clock!Bounds |-> Clock!OrRequested(b)] \in [Clock!Bounds -> Clock!Mirrored]
    BY DEF Clock!OrRequested, Clock!Optional, Clock!Mirrored
  <2>2. clockChan' \in Seq(Clock!Requests)
    BY <1>3, <2>1, ClockRequests DEF Clock!ApplyPendingClockLimit
  <2> QED BY <1>3, <2>2, BoundsAreNat
          DEF Clock!ApplyPendingClockLimit, Clock!Optional
<1>4. ASSUME Clock!Update PROVE Clock!TypeOK'
  BY <1>4, ClockRequests, BoundsAreNat DEF Clock!Update
<1>5. ASSUME Clock!Serve PROVE Clock!TypeOK'
  <2>1. clockChan[1] \in Clock!Requests
    BY <1>5 DEF Clock!Serve
  <2> QED BY <1>5, <2>1, ClockRequests DEF Clock!Serve
<1>6. ASSUME Clock!Reply PROVE Clock!TypeOK'
  BY <1>6, ClockResponseType DEF Clock!Reply, Clock!HandleResponse
<1>7. ASSUME Clock!Fail PROVE Clock!TypeOK'
  <2>1. clockFailures' \in 0..MaxFailures
    BY <1>7, BoundsAreNat DEF Clock!Fail
  <2> QED BY <1>7, <2>1, ClockResponseType DEF Clock!Fail, Clock!HandleResponse
<1>8. ASSUME UNCHANGED clockVars PROVE Clock!TypeOK'
  BY <1>8 DEF clockVars
<1> QED BY <1>1, <1>2, <1>3, <1>4, <1>5, <1>6, <1>7, <1>8 DEF Clock!Next

-----------------------------------------------------------------------------
(* The gate                                                                *)

IsSet(s, i) == s[i].kind = "set"

(* What handling the head of the queue leaves of the sets in it. *)
LEMMA ClockTail ==
  ASSUME Clock!TypeOK, clockChan # <<>>, NEW r \in {"poll", "readback"},
         clockChan' = Tail(clockChan) \/ clockChan' = Append(Tail(clockChan), [kind |-> r]),
         NEW i \in DOMAIN clockChan', IsSet(clockChan', i)
  PROVE  i + 1 \in DOMAIN clockChan /\ clockChan'[i] = clockChan[i + 1]
<1>1. CASE clockChan' = Tail(clockChan)
  BY <1>1 DEF Clock!TypeOK
<1>2. CASE clockChan' = Append(Tail(clockChan), [kind |-> r])
  <2>1. Len(Tail(clockChan)) = Len(clockChan) - 1 /\ Len(clockChan) \in Nat \ {0}
    BY DEF Clock!TypeOK
  <2>2. i \in 1..Len(clockChan)
    BY <1>2, <2>1 DEF Clock!TypeOK
  <2>3. i # Len(clockChan)
    BY <1>2, <2>1 DEF Clock!TypeOK, IsSet
  <2> QED BY <1>2, <2>1, <2>2, <2>3 DEF Clock!TypeOK
<1> QED BY <1>1, <1>2

LEMMA ClockGateStep ==
  ASSUME Clock!TypeOK, ClockGate, Clock!Next \/ UNCHANGED clockVars
  PROVE  ClockGate'
<1> USE DEF ClockGate, Clock!OneSetOutstanding
<1>1. ASSUME UNCHANGED <<clockInflight, readback, clockChan>> PROVE ClockGate'
  BY <1>1
<1>2. ASSUME Clock!ApplyPendingClockLimit PROVE ClockGate'
  <2> DEFINE r == [kind |-> "set", limits |-> [b \in Clock!Bounds |-> Clock!OrRequested(b)]]
  <2>1. /\ ~clockInflight /\ clockInflight' = TRUE /\ readback' = readback
        /\ clockChan' = Append(clockChan, r)
    BY <1>2 DEF Clock!ApplyPendingClockLimit, Clock!GateOpen
  <2>2. ~readback'
    BY <2>1 DEF Clock!TypeOK
  <2>3. ASSUME NEW i \in DOMAIN clockChan', clockChan'[i].kind = "set"
        PROVE  i = Len(clockChan) + 1
    BY <2>1, <2>3 DEF Clock!TypeOK
  <2> QED BY <2>1, <2>2, <2>3
<1>3. ASSUME Clock!Update PROVE ClockGate'
  <2>1. /\ clockInflight' = clockInflight /\ readback' = readback
        /\ clockChan' = Append(clockChan, [kind |-> "poll"])
    BY <1>3 DEF Clock!Update
  <2>2. ASSUME NEW i \in DOMAIN clockChan', clockChan'[i].kind = "set"
        PROVE  i \in DOMAIN clockChan /\ clockChan[i].kind = "set"
    BY <2>1, <2>2 DEF Clock!TypeOK
  <2> QED BY <2>1, <2>2
<1>4. ASSUME clockChan # <<>>, NEW ok \in BOOLEAN, Clock!HandleResponse(ok) PROVE ClockGate'
  <2>1. \E r \in {"poll", "readback"} :
            \/ clockChan' = Tail(clockChan)
            \/ clockChan' = Append(Tail(clockChan), [kind |-> r])
    BY <1>4 DEF Clock!HandleResponse, Clock!HandleGetResponse, Clock!HandleSetResponse,
                Clock!ReadBack
  <2>2. ASSUME NEW i \in DOMAIN clockChan', clockChan'[i].kind = "set"
        PROVE  i \in Nat \ {0} /\ i + 1 \in DOMAIN clockChan /\ clockChan[i + 1].kind = "set"
    BY <1>4, <2>1, <2>2, ClockTail DEF IsSet, Clock!TypeOK
  <2>3. CASE Clock!HandleGetResponse(ok)
    <3>1. clockInflight /\ ~readback => clockInflight' /\ ~readback'
      BY <2>3 DEF Clock!HandleGetResponse, Clock!OpenGate
    <3> QED BY <2>2, <3>1
  <2>4. CASE Clock!HandleSetResponse(ok)
    <3>1. 1 \in DOMAIN clockChan /\ clockChan[1].kind = "set"
      BY <1>4, <2>4 DEF Clock!HandleSetResponse, Clock!TypeOK
    <3>2. \A i \in DOMAIN clockChan : clockChan[i].kind = "set" => i = 1
      BY <3>1
    <3>3. ASSUME NEW i \in DOMAIN clockChan', clockChan'[i].kind = "set" PROVE FALSE
      BY <2>2, <3>2, <3>3
    <3> QED BY <3>3
  <2> QED BY <1>4, <2>3, <2>4 DEF Clock!HandleResponse
<1> QED BY <1>1, <1>2, <1>3, <1>4
        DEF Clock!Next, Clock!Write, Clock!TimerExpires, Clock!RetryLater, Clock!Serve,
            Clock!Reply, Clock!Fail, clockVars

-----------------------------------------------------------------------------
(* What the device ends with                                               *)

(* The set has been served, or there is none: the device shows it. *)
SetServed == \A i \in DOMAIN clockChan : clockChan[i].kind = "set" => i = 1 /\ clockServed

(***************************************************************************)
(* The last accepted write of a bound is pending, or consumed: then a set  *)
(* on its way carries it, the device has it once that was served, and so   *)
(* has the mirror when the gate is open again.                             *)
(***************************************************************************)
Carried(b) ==
    /\ \A i \in DOMAIN clockChan : clockChan[i].kind = "set" => clockChan[i].limits[b] = asked[b]
    /\ SetServed => clockDevice[b] = asked[b]
    /\ ~clockInflight => requested[b] = asked[b]

ClockKept ==
    /\ \A b \in Clock!Bounds : clockPending[b] # NoLimit =>
           clockPending[b] = asked[b] /\ (clockArmed \/ clockQueued > 0)
    /\ clockServed => clockChan # <<>>
    /\ clockServed /\ clockChan[1].kind # "set" => clockAnswer = clockDevice
    /\ clockFailures = 0 => \A b \in Clock!Bounds :
           asked[b] # NoLimit /\ clockPending[b] = NoLimit => Carried(b)

ClockInv == Clock!TypeOK /\ ClockGate /\ ClockKept

LEMMA ClockInit == GpuInit => ClockInv
<1> SUFFICES ASSUME GpuInit PROVE ClockInv
  OBVIOUS
<1>1. ClockGate /\ ClockKept
  BY InitParts DEF Clock!Start, ClockGate, Clock!OneSetOutstanding, ClockKept
<1> QED BY <1>1, ClockTypeInit DEF ClockInv

LEMMA ClockResponseKept ==
  ASSUME ClockInv, clockChan # <<>>, NEW ok \in BOOLEAN, Clock!HandleResponse(ok),
         clockFailures' = 0 => clockFailures = 0 /\ ok /\ clockServed
  PROVE  ClockKept'
<1> USE DEF ClockInv
<1>1. /\ UNCHANGED <<clockPending, clockArmed, clockQueued, clockAnswer, clockDevice, asked>>
      /\ clockServed' = FALSE
  BY DEF Clock!HandleResponse
<1> SUFFICES ASSUME clockFailures = 0, ok = TRUE, clockServed = TRUE, NEW b \in Clock!Bounds,
                    asked[b] # NoLimit, clockPending[b] = NoLimit
             PROVE  Carried(b)'
  BY <1>1 DEF ClockKept, Clock!TypeOK
<1>2. Carried(b)
  BY DEF ClockKept
<1>3. ASSUME NEW i \in DOMAIN clockChan', clockChan'[i].kind = "set"
      PROVE  i + 1 \in DOMAIN clockChan /\ clockChan'[i] = clockChan[i + 1] /\ i \in Nat \ {0}
  <2>1. \E r \in {"poll", "readback"} :
            \/ clockChan' = Tail(clockChan)
            \/ clockChan' = Append(Tail(clockChan), [kind |-> r])
    BY DEF Clock!HandleResponse, Clock!HandleGetResponse, Clock!HandleSetResponse,
           Clock!ReadBack
  <2> QED BY <1>3, <2>1, ClockTail DEF IsSet, Clock!TypeOK
<1>4. 1 \in DOMAIN clockChan
  BY DEF Clock!TypeOK
<1>5. CASE Clock!HandleGetResponse(ok)
  <2>1. clockChan[1].kind # "set" /\ requested' = clockDevice
    BY <1>5 DEF Clock!HandleGetResponse, ClockKept
  <2>2. ASSUME \A i \in DOMAIN clockChan : clockChan[i].kind # "set" PROVE clockDevice[b] = asked[b]
    BY <1>2, <2>2 DEF Carried, SetServed
  <2>3. ASSUME NEW i \in DOMAIN clockChan, clockChan[i].kind = "set"
        PROVE  i - 1 \in DOMAIN clockChan' /\ clockChan'[i - 1].kind = "set" /\ clockInflight'
    <3>1. clockChan' = Tail(clockChan) /\ i # 1
      BY <1>5, <2>1, <2>3 DEF Clock!HandleGetResponse
    <3>2. clockInflight'
      BY <1>5, <2>3 DEF Clock!HandleGetResponse, Clock!OpenGate, ClockGate
    <3> QED BY <2>3, <3>1, <3>2 DEF Clock!TypeOK
  <2>4. SetServed' => \A i \in DOMAIN clockChan : clockChan[i].kind # "set"
    BY <1>1, <2>3 DEF SetServed
  <2>5. ~clockInflight' => \A i \in DOMAIN clockChan : clockChan[i].kind # "set"
    BY <2>3
  <2> QED BY <1>1, <1>2, <1>3, <2>1, <2>2, <2>4, <2>5 DEF Carried
<1>6. CASE Clock!HandleSetResponse(ok)
  <2>1. clockChan[1].kind = "set" /\ clockInflight' = clockInflight /\ clockInflight
    BY <1>4, <1>6 DEF Clock!HandleSetResponse, Clock!ReadBack, ClockGate, Clock!TypeOK
  <2>2. \A i \in DOMAIN clockChan : clockChan[i].kind = "set" => i = 1
    BY <1>4, <2>1 DEF ClockGate, Clock!OneSetOutstanding
  <2>3. clockDevice[b] = asked[b]
    BY <1>2, <2>2 DEF Carried, SetServed
  <2>4. ASSUME NEW i \in DOMAIN clockChan', clockChan'[i].kind = "set" PROVE FALSE
    BY <1>3, <2>2, <2>4
  <2> QED BY <1>1, <2>1, <2>3, <2>4 DEF Carried
<1> QED BY <1>5, <1>6 DEF Clock!HandleResponse

LEMMA ClockKeptStep ==
  ASSUME ClockInv, Clock!Next \/ UNCHANGED clockVars
  PROVE  ClockKept'
<1> USE DEF ClockInv
<1>1. ASSUME NEW c \in Clock!Bounds, NEW v \in Limits, Clock!Write(c, v) PROVE ClockKept'
  <2>1. /\ UNCHANGED <<requested, clockInflight, clockQueued, clockChan, clockServed,
                       clockAnswer, clockDevice, clockFailures>>
        /\ clockPending' = [clockPending EXCEPT ![c] = v]
        /\ asked' = [asked EXCEPT ![c] = v]
        /\ clockArmed' = TRUE
    BY <1>1 DEF Clock!Write, Clock!ArmSetLimitTimer
  <2>2. v # NoLimit
    BY ControlsAssumption DEF Clock!ClockAssumption
  <2>3. \A b \in Clock!Bounds : b # c => clockPending'[b] = clockPending[b] /\ asked'[b] = asked[b]
    BY <2>1 DEF Clock!TypeOK
  <2>4. clockPending'[c] = v /\ asked'[c] = v
    BY <2>1 DEF Clock!TypeOK
  <2>5. ASSUME NEW b \in Clock!Bounds, b # c, Carried(b) PROVE Carried(b)'
    BY <2>1, <2>3, <2>5 DEF Carried, SetServed
  <2> QED BY <2>1, <2>2, <2>3, <2>4, <2>5 DEF ClockKept
<1>2. ASSUME Clock!TimerExpires \/ Clock!RetryLater \/ UNCHANGED clockVars PROVE ClockKept'
  <2>1. /\ UNCHANGED <<clockPending, requested, clockInflight, clockChan, clockServed,
                       clockAnswer, clockDevice, asked, clockFailures>>
        /\ clockArmed \/ clockQueued > 0 => clockArmed' \/ clockQueued' > 0
    BY <1>2 DEF Clock!TimerExpires, Clock!RetryLater, Clock!ArmSetLimitTimer, clockVars,
                Clock!TypeOK
  <2>2. \A b \in Clock!Bounds : Carried(b)' <=> Carried(b)
    BY <2>1 DEF Carried, SetServed
  <2> QED BY <2>1, <2>2 DEF ClockKept
<1>3. ASSUME Clock!ApplyPendingClockLimit PROVE ClockKept'
  <2> DEFINE r == [kind |-> "set", limits |-> [b \in Clock!Bounds |-> Clock!OrRequested(b)]]
  <2>1. /\ ~clockInflight /\ clockInflight' = TRUE
        /\ clockChan' = Append(clockChan, r)
        /\ clockPending' = [b \in Clock!Bounds |-> NoLimit]
        /\ UNCHANGED <<requested, clockServed, clockAnswer, clockDevice, asked, clockFailures>>
    BY <1>3 DEF Clock!ApplyPendingClockLimit, Clock!GateOpen
  <2>2. \A i \in DOMAIN clockChan : clockChan[i].kind # "set"
    BY <2>1 DEF ClockGate
  <2>3. clockChan # <<>> => clockChan'[1] = clockChan[1]
    BY <2>1 DEF Clock!TypeOK
  <2>4. clockChan' # <<>>
    BY <2>1 DEF Clock!TypeOK
  <2>5. /\ Len(clockChan) + 1 \in DOMAIN clockChan' /\ clockChan'[Len(clockChan) + 1] = r
        /\ \A i \in DOMAIN clockChan' : i # Len(clockChan) + 1 =>
              i \in DOMAIN clockChan /\ clockChan'[i] = clockChan[i]
    BY <2>1 DEF Clock!TypeOK
  <2>6. ASSUME NEW b \in Clock!Bounds, clockFailures = 0, asked[b] # NoLimit
        PROVE  Carried(b)'
    <3>1. Clock!OrRequested(b) = asked[b]
      BY <2>1, <2>6 DEF ClockKept, Carried, Clock!OrRequested
    <3>2. ~SetServed'
      BY <2>1, <2>5 DEF SetServed, ClockKept, Clock!TypeOK
    <3>3. \A i \in DOMAIN clockChan' : clockChan'[i].kind = "set" => clockChan'[i].limits[b] = asked[b]
      BY <2>2, <2>5, <3>1
    <3> QED BY <2>1, <3>2, <3>3 DEF Carried
  <2> QED BY <2>1, <2>3, <2>4, <2>6 DEF ClockKept
<1>4. ASSUME Clock!Update PROVE ClockKept'
  <2>1. /\ UNCHANGED <<clockPending, requested, clockInflight, clockArmed, clockQueued,
                       clockServed, clockAnswer, clockDevice, asked, clockFailures>>
        /\ clockChan' = Append(clockChan, [kind |-> "poll"])
    BY <1>4 DEF Clock!Update
  <2>2. clockChan # <<>> => clockChan'[1] = clockChan[1]
    BY <2>1 DEF Clock!TypeOK
  <2>3. clockChan' # <<>>
    BY <2>1 DEF Clock!TypeOK
  <2>4. \A i \in DOMAIN clockChan : i \in DOMAIN clockChan' /\ clockChan'[i] = clockChan[i]
    BY <2>1 DEF Clock!TypeOK
  <2>5. \A i \in DOMAIN clockChan' : clockChan'[i].kind = "set" =>
            i \in DOMAIN clockChan /\ clockChan'[i] = clockChan[i]
    BY <2>1 DEF Clock!TypeOK
  <2>6. \A b \in Clock!Bounds : Carried(b) => Carried(b)'
    BY <2>1, <2>4, <2>5 DEF Carried, SetServed
  <2> QED BY <2>1, <2>2, <2>3, <2>6 DEF ClockKept
<1>5. ASSUME Clock!Serve PROVE ClockKept'
  <2>1. /\ UNCHANGED <<clockPending, requested, clockInflight, clockArmed, clockQueued,
                       clockChan, asked, clockFailures>>
        /\ clockServed' = TRUE /\ ~clockServed /\ clockChan # <<>>
        /\ clockChan[1].kind # "set" => clockDevice' = clockDevice /\ clockAnswer' = clockDevice
        /\ clockChan[1].kind = "set" => clockDevice' = clockChan[1].limits
    BY <1>5 DEF Clock!Serve
  <2>2. 1 \in DOMAIN clockChan
    BY <2>1 DEF Clock!TypeOK
  <2>3. ASSUME NEW b \in Clock!Bounds, Carried(b) PROVE Carried(b)'
    <3>1. CASE clockChan[1].kind = "set"
      BY <2>1, <2>2, <2>3, <3>1 DEF Carried
    <3>2. CASE clockChan[1].kind # "set"
      <4>1. SetServed' => \A i \in DOMAIN clockChan : clockChan[i].kind # "set"
        BY <2>1, <3>2 DEF SetServed
      <4>2. SetServed' => SetServed
        BY <4>1 DEF SetServed
      <4> QED BY <2>1, <2>3, <3>2, <4>2 DEF Carried
    <3> QED BY <3>1, <3>2
  <2> QED BY <2>1, <2>3 DEF ClockKept
<1>6. ASSUME Clock!Reply PROVE ClockKept'
  BY <1>6, ClockResponseKept DEF Clock!Reply
<1>7. ASSUME Clock!Fail PROVE ClockKept'
  <2>1. clockFailures' # 0
    BY <1>7 DEF Clock!Fail, Clock!TypeOK
  <2> QED BY <1>7, <2>1, ClockResponseKept DEF Clock!Fail
<1> QED BY <1>1, <1>2, <1>3, <1>4, <1>5, <1>6, <1>7 DEF Clock!Next

LEMMA ClockInductive == ClockInv /\ [GpuNext]_allVars => ClockInv'
BY NextParts, ClockTypeStep, ClockGateStep, ClockKeptStep DEF ClockInv

LEMMA ClockInvImplies == ClockInv => Clock!TypeOK /\ Clock!OneSetOutstanding /\ ClockAppliedAsAsked
<1> SUFFICES ASSUME ClockInv, Clock!Quiescent, clockFailures = 0,
                    NEW b \in Clock!Bounds, asked[b] # NoLimit
             PROVE  clockDevice[b] = asked[b]
  BY DEF ClockInv, ClockGate, ClockAppliedAsAsked, Clock!AppliedAsAsked
<1>1. clockPending[b] = NoLimit
  BY DEF ClockInv, ClockKept, Clock!Quiescent
<1>2. SetServed
  BY DEF SetServed, Clock!Quiescent
<1> QED BY <1>1, <1>2 DEF ClockInv, ClockKept, Carried

(***************************************************************************)
(* For all limits and numbers of writes and polls: when the clock limit    *)
(* has no request, timer or handler left and no request failed, the device *)
(* has for each bound the limit last accepted.                             *)
(***************************************************************************)
THEOREM ClockEndsAsAsked == GpuSpec => []ClockAppliedAsAsked
<1>1. GpuInit => ClockInv
  BY ClockInit
<1>2. ClockInv /\ [GpuNext]_allVars => ClockInv'
  BY ClockInductive
<1>3. ClockInv => ClockAppliedAsAsked
  BY ClockInvImplies
<1> QED BY <1>1, <1>2, <1>3, PTL DEF GpuSpec

-----------------------------------------------------------------------------
(* The power cap                                                           *)

PowerGate ==
    /\ \A i \in DOMAIN capChan : capChan[i].kind = "set" => capInflight
    /\ Power!OneSetOutstanding

(***************************************************************************)
(* A dropped cap is neither what was written since nor what the mirror     *)
(* shows: nothing but these two fills a SetPowerLimits.                    *)
(***************************************************************************)
Forgotten == requestedCap \notin dropped /\ mirror.cap \notin dropped

PowerInv == Power!TypeOK /\ PowerGate /\ Forgotten

LEMMA PowerValues ==
  /\ Unset \notin Caps /\ NoValue \notin Caps /\ NoValue # Unset
  /\ TRUE # NoValue /\ FALSE # NoValue
BY ControlsAssumption DEF Power!PowerAssumption

LEMMA PowerRequests ==
  /\ [kind |-> "get"] \in Power!Requests
  /\ \A a \in Power!Actions, c \in Caps \cup {Unset} :
        [kind |-> "set", action |-> a, cap |-> c] \in Power!Requests
  /\ \A r \in Power!Requests :
        \/ r.kind = "set" /\ r.action \in Power!Actions /\ r.cap \in Caps \cup {Unset}
        \/ r.kind = "get"
BY DEF Power!Requests

LEMMA PowerInit == GpuInit => PowerInv
<1> SUFFICES ASSUME GpuInit PROVE PowerInv
  OBVIOUS
<1>1. /\ capWrites \in 0..MaxWrites /\ capPolls \in 0..MaxPolls
      /\ capFailures \in 0..MaxFailures /\ 0 \in 0..MaxQueued
  BY BoundsAreNat DEF GpuInit, PowerIdle, Power!Init
<1>2. capChan \in Seq(Power!Requests) /\ capChan = <<>>
  BY InitParts DEF Power!Start
<1>3. /\ capDevice \in Power!DeviceStates /\ capAnswer = capDevice
      /\ mirror = [cap |-> Unset, enabled |-> FALSE] /\ requestedCap = NoValue
      /\ pendingEnable = NoValue /\ dropped = {} /\ capQueued = 0
      /\ capInflight = FALSE /\ capArmed = FALSE /\ capServed = FALSE
  BY InitParts, Zenon DEF Power!Start
<1>4. mirror \in Power!DeviceStates
  BY <1>3 DEF Power!DeviceStates
<1>5. Power!TypeOK
  <2>1. pendingEnable \in Power!Optional(BOOLEAN) /\ requestedCap \in Power!Optional(Caps)
    BY <1>3, Zenon DEF Power!Optional
  <2>2. capInflight \in BOOLEAN /\ capArmed \in BOOLEAN /\ capServed \in BOOLEAN
    BY <1>3, Zenon
  <2> QED BY <1>1, <1>2, <1>3, <1>4, <2>1, <2>2 DEF Power!TypeOK
<1>6. PowerGate /\ Forgotten
  BY <1>2, <1>3 DEF PowerGate, Power!OneSetOutstanding, Forgotten
<1> QED BY <1>5, <1>6 DEF PowerInv

(***************************************************************************)
(* The set that is sent enforces a cap that was not dropped, or none.      *)
(***************************************************************************)
LEMMA PowerApply ==
  ASSUME PowerInv, Power!ApplyPendingPowerLimit
  PROVE  /\ PowerInv'
         /\ \/ capChan' = capChan
            \/ \E a \in Power!Actions, c \in Caps \cup {Unset} :
                  /\ capChan' = Append(capChan, [kind |-> "set", action |-> a, cap |-> c])
                  /\ a = "NEW_LIMIT" => c # Unset /\ c \notin dropped
<1> USE DEF PowerInv
<1>1. /\ UNCHANGED <<mirror, capArmed, capServed, capAnswer, capDevice, capWrites, capPolls,
                     capFailures>>
      /\ pendingEnable' = NoValue /\ requestedCap' = NoValue
      /\ ~capInflight
  BY DEF Power!ApplyPendingPowerLimit, Power!ConsumeBurst, Power!GateOpen
<1>2. capQueued' \in 0..MaxQueued
  BY BoundsAreNat DEF Power!ApplyPendingPowerLimit, Power!TypeOK
<1>3. dropped' \subseteq dropped \cup ({requestedCap} \ {NoValue, mirror.cap})
  BY DEF Power!ApplyPendingPowerLimit
<1>4. dropped' \in SUBSET Caps /\ Forgotten'
  <2>1. dropped' \in SUBSET Caps
    BY <1>3 DEF Power!TypeOK, Power!Optional
  <2>2. mirror.cap \notin dropped'
    BY <1>3 DEF Forgotten
  <2> QED BY <1>1, <2>1, <2>2, PowerValues DEF Forgotten
<1>5. Power!CapToEnforce \in Caps \cup {Unset} /\ Power!CapToEnforce \notin dropped
  BY PowerValues DEF Power!CapToEnforce, Power!TypeOK, Power!Optional, Power!DeviceStates, Forgotten
<1>6. \A i \in DOMAIN capChan : capChan[i].kind # "set"
  BY <1>1 DEF PowerGate
<1>7. CASE UNCHANGED <<capInflight, capChan>>
  <2>1. Power!TypeOK'
    BY <1>1, <1>2, <1>4, <1>7 DEF Power!TypeOK, Power!Optional
  <2>2. PowerGate'
    BY <1>7 DEF PowerGate, Power!OneSetOutstanding
  <2> QED BY <1>4, <1>7, <2>1, <2>2
<1>8. ASSUME NEW a \in Power!Actions, NEW c \in Caps \cup {Unset},
             a = "NEW_LIMIT" => c # Unset /\ c \notin dropped,
             Power!SendSetPowerLimitsRequest(c, a)
      PROVE  PowerInv' /\ capChan' = Append(capChan, [kind |-> "set", action |-> a, cap |-> c])
  <2> DEFINE r == [kind |-> "set", action |-> a, cap |-> c]
  <2>1. capInflight' = TRUE /\ capChan' = Append(capChan, r) /\ r \in Power!Requests
    BY <1>8, PowerRequests DEF Power!SendSetPowerLimitsRequest
  <2>2. /\ Len(capChan) + 1 \in DOMAIN capChan' /\ capChan'[Len(capChan) + 1] = r
        /\ \A i \in DOMAIN capChan' : i # Len(capChan) + 1 =>
              i \in DOMAIN capChan /\ capChan'[i] = capChan[i]
        /\ capChan' \in Seq(Power!Requests)
    BY <2>1 DEF Power!TypeOK
  <2>3. Power!TypeOK'
    <3>1. \A i \in DOMAIN capChan' : (capChan'[i].kind = "set" /\ capChan'[i].action = "NEW_LIMIT")
              => capChan'[i].cap # Unset
      BY <1>6, <1>8, <2>2
    <3> QED BY <1>1, <1>2, <1>4, <2>1, <2>2, <3>1 DEF Power!TypeOK, Power!Optional
  <2>4. PowerGate'
    BY <1>6, <2>1, <2>2 DEF PowerGate, Power!OneSetOutstanding
  <2> QED BY <1>4, <2>1, <2>3, <2>4
<1> HIDE DEF PowerInv
<1>9. CASE Power!Enforces /\ Power!SendSetPowerLimitsRequest(Power!CapToEnforce, "NEW_LIMIT")
  <2>1. "NEW_LIMIT" \in Power!Actions
    BY DEF Power!Actions
  <2>2. Power!CapToEnforce # Unset
    BY <1>9 DEF Power!Enforces
  <2> QED BY <1>5, <1>8, <1>9, <2>1, <2>2
<1>10. CASE Power!SendSetPowerLimitsRequest(Unset, "DEFAULT_LIMIT")
  <2>1. "DEFAULT_LIMIT" \in Power!Actions /\ "DEFAULT_LIMIT" # "NEW_LIMIT"
    BY DEF Power!Actions
  <2> QED BY <1>8, <1>10, <2>1
<1> QED BY <1>7, <1>9, <1>10 DEF Power!ApplyPendingPowerLimit

LEMMA PowerResponse ==
  ASSUME PowerInv, capChan # <<>>, NEW ok \in BOOLEAN, Power!HandleResponse(ok)
  PROVE  /\ mirror' \in Power!DeviceStates
         /\ capChan' \in Seq(Power!Requests)
         /\ \A i \in DOMAIN capChan' :
               (capChan'[i].kind = "set" /\ capChan'[i].action = "NEW_LIMIT")
                  => capChan'[i].cap # Unset
         /\ capInflight' \in BOOLEAN
         /\ dropped' \in SUBSET Caps
         /\ PowerGate' /\ Forgotten'
         /\ Len(capChan') <= Len(capChan)
<1> USE DEF PowerInv
<1>1. /\ 1 \in DOMAIN capChan /\ capChan[1] \in Power!Requests
      /\ Tail(capChan) \in Seq(Power!Requests)
      /\ Len(Tail(capChan)) = Len(capChan) - 1 /\ Len(capChan) \in Nat
      /\ requestedCap' = requestedCap
  BY DEF Power!TypeOK, Power!HandleResponse
<1>2. CASE Power!HandleGetPowerLimitsResponse(ok)
  <2>1. capChan' = Tail(capChan) /\ capInflight' = capInflight /\ dropped' \subseteq dropped
    BY <1>2 DEF Power!HandleGetPowerLimitsResponse
  <2>2. \A i \in DOMAIN capChan' : i + 1 \in DOMAIN capChan /\ capChan'[i] = capChan[i + 1]
    BY <1>1, <2>1 DEF Power!TypeOK
  <2>3. mirror' \in Power!DeviceStates /\ mirror'.cap \notin dropped'
    BY <1>2 DEF Power!HandleGetPowerLimitsResponse, Forgotten, Power!TypeOK
  <2>4. PowerGate'
    BY <1>1, <2>1, <2>2 DEF PowerGate, Power!OneSetOutstanding
  <2>5. \A i \in DOMAIN capChan' :
           (capChan'[i].kind = "set" /\ capChan'[i].action = "NEW_LIMIT") => capChan'[i].cap # Unset
    BY <2>2 DEF Power!TypeOK
  <2> QED BY <1>1, <2>1, <2>3, <2>4, <2>5 DEF Power!TypeOK, Forgotten
<1>3. CASE Power!HandleSetPowerLimitsResponse(ok)
  <2>1. /\ capChan[1].kind = "set" /\ capInflight' = FALSE
        /\ mirror' = mirror /\ dropped' = dropped
        /\ \/ capChan' = Tail(capChan)
           \/ capChan' = Append(Tail(capChan), [kind |-> "get"])
    BY <1>3 DEF Power!HandleSetPowerLimitsResponse, Power!OpenGate
  <2>2. \A i \in DOMAIN capChan : capChan[i].kind = "set" => i = 1
    BY <1>1, <2>1 DEF PowerGate, Power!OneSetOutstanding
  <2>3. \A i \in DOMAIN Tail(capChan) : Tail(capChan)[i].kind # "set"
    BY <1>1, <2>2 DEF Power!TypeOK
  <2>4. /\ capChan' \in Seq(Power!Requests) /\ Len(capChan') <= Len(capChan)
        /\ \A i \in DOMAIN capChan' : capChan'[i].kind # "set"
    BY <1>1, <2>1, <2>3, PowerRequests
  <2> QED BY <1>1, <2>1, <2>4 DEF PowerGate, Power!OneSetOutstanding, Power!TypeOK, Forgotten
<1> QED BY <1>2, <1>3 DEF Power!HandleResponse

LEMMA PowerInductive ==
  ASSUME PowerInv, Power!Next \/ UNCHANGED capVars
  PROVE  PowerInv'
<1> USE DEF PowerInv
<1>1. ASSUME NEW c \in Caps, Power!HandlePowerCapSet(c) PROVE PowerInv'
  <2>1. /\ UNCHANGED <<pendingEnable, mirror, capInflight, capQueued, capChan, capServed,
                       capAnswer, capDevice, capPolls, capFailures>>
        /\ capArmed' = TRUE /\ requestedCap' = c /\ dropped' = dropped \ {c}
    BY <1>1 DEF Power!HandlePowerCapSet, Power!WriteBase, Power!ArmSetLimitTimer
  <2>2. capWrites' \in 0..MaxWrites
    BY <1>1, BoundsAreNat DEF Power!HandlePowerCapSet, Power!WriteBase, Power!TypeOK
  <2>3. Power!TypeOK'
    BY <2>1, <2>2 DEF Power!TypeOK, Power!Optional
  <2> QED BY <2>1, <2>3 DEF PowerGate, Power!OneSetOutstanding, Forgotten
<1>2. ASSUME NEW e \in BOOLEAN, Power!HandlePowerCapEnableSet(e) PROVE PowerInv'
  <2>1. /\ UNCHANGED <<requestedCap, mirror, capInflight, capQueued, capChan, capServed,
                       capAnswer, capDevice, dropped, capPolls, capFailures>>
        /\ capArmed' = TRUE /\ pendingEnable' = e
    BY <1>2 DEF Power!HandlePowerCapEnableSet, Power!WriteBase, Power!ArmSetLimitTimer
  <2>2. capWrites' \in 0..MaxWrites
    BY <1>2, BoundsAreNat DEF Power!HandlePowerCapEnableSet, Power!WriteBase, Power!TypeOK
  <2>3. pendingEnable' \in Power!Optional(BOOLEAN)
    BY <2>1, Zenon DEF Power!Optional
  <2>4. Power!TypeOK'
    BY <2>1, <2>2, <2>3 DEF Power!TypeOK
  <2> QED BY <2>1, <2>4 DEF PowerGate, Power!OneSetOutstanding, Forgotten
<1>3. ASSUME Power!TimerExpires \/ Power!RetryLater \/ UNCHANGED capVars PROVE PowerInv'
  <2>1. /\ UNCHANGED <<requestedCap, pendingEnable, mirror, capInflight, capChan, capServed,
                       capAnswer, capDevice, dropped, capWrites, capPolls, capFailures>>
        /\ capArmed' \in BOOLEAN
    BY <1>3 DEF Power!TimerExpires, Power!RetryLater, Power!ArmSetLimitTimer, capVars, Power!TypeOK
  <2>2. capQueued' \in 0..MaxQueued
    BY <1>3, BoundsAreNat DEF Power!TimerExpires, Power!RetryLater, capVars, Power!TypeOK
  <2> QED BY <2>1, <2>2 DEF Power!TypeOK, PowerGate, Power!OneSetOutstanding, Forgotten
<1>4. ASSUME Power!Update PROVE PowerInv'
  <2>1. /\ UNCHANGED <<requestedCap, pendingEnable, mirror, capInflight, capArmed, capQueued,
                       capServed, capAnswer, capDevice, dropped, capWrites, capFailures>>
        /\ capChan' = Append(capChan, [kind |-> "get"])
    BY <1>4 DEF Power!Update
  <2>2. capPolls' \in 0..MaxPolls
    BY <1>4, BoundsAreNat DEF Power!Update, Power!TypeOK
  <2>3. /\ capChan' \in Seq(Power!Requests)
        /\ \A i \in DOMAIN capChan' : capChan'[i].kind = "set" =>
              i \in DOMAIN capChan /\ capChan'[i] = capChan[i]
    BY <2>1, PowerRequests DEF Power!TypeOK
  <2>4. Power!TypeOK'
    BY <2>1, <2>2, <2>3 DEF Power!TypeOK
  <2> QED BY <2>1, <2>3, <2>4 DEF PowerGate, Power!OneSetOutstanding, Forgotten
<1>5. ASSUME Power!Serve PROVE PowerInv'
  <2>1. /\ UNCHANGED <<requestedCap, pendingEnable, mirror, capInflight, capArmed, capQueued,
                       capChan, dropped, capWrites, capPolls, capFailures>>
        /\ capServed' = TRUE /\ capAnswer' = capDevice'
        /\ capChan # <<>> /\ capDevice' \in Power!Served(capDevice)
    BY <1>5 DEF Power!Serve
  <2>2. capChan[1] \in Power!Requests
    BY <2>1 DEF Power!TypeOK
  <2>3. Power!Served(capDevice) \subseteq Power!DeviceStates
    <3>1. Head(capChan).kind # "get" => Head(capChan).cap \in Caps \cup {Unset}
      BY <2>1, <2>2, PowerRequests DEF Power!TypeOK
    <3>2. capDevice.cap \in Caps \cup {Unset}
      BY DEF Power!TypeOK, Power!DeviceStates
    <3>3. \A c \in Caps \cup {Unset}, e \in BOOLEAN : [cap |-> c, enabled |-> e] \in Power!DeviceStates
      BY DEF Power!DeviceStates
    <3> QED BY <3>1, <3>2, <3>3 DEF Power!Served, Power!TypeOK
  <2> QED BY <2>1, <2>3 DEF Power!TypeOK, PowerGate, Power!OneSetOutstanding, Forgotten
<1>6. ASSUME NEW ok \in BOOLEAN, capChan # <<>>, Power!HandleResponse(ok),
             capFailures' \in 0..MaxFailures
      PROVE  PowerInv'
  <2>1. /\ UNCHANGED <<requestedCap, pendingEnable, capArmed, capQueued, capAnswer, capDevice,
                       capWrites, capPolls>>
        /\ capServed' = FALSE
    BY <1>6 DEF Power!HandleResponse
  <2> QED BY <1>6, <2>1, PowerResponse DEF Power!TypeOK
<1>7. ASSUME Power!Reply PROVE PowerInv'
  BY <1>6, <1>7 DEF Power!Reply, Power!TypeOK
<1>8. ASSUME Power!Fail PROVE PowerInv'
  <2>1. capFailures' \in 0..MaxFailures
    BY <1>8, BoundsAreNat DEF Power!Fail, Power!TypeOK
  <2> QED BY <1>6, <1>8, <2>1 DEF Power!Fail
<1> HIDE DEF PowerInv
<1> QED BY <1>1, <1>2, <1>3, <1>4, <1>5, <1>7, <1>8, PowerApply DEF Power!Next

(***************************************************************************)
(* Only applyPendingPowerLimit sends a set.                                *)
(***************************************************************************)
LEMMA PowerForgets ==
  ASSUME PowerInv, Power!Next \/ UNCHANGED capVars,
         Len(capChan') > Len(capChan), Power!Enforcing(capChan'[Len(capChan')])
  PROVE  capChan'[Len(capChan')].cap \notin dropped
<1>1. capChan \in Seq(Power!Requests) /\ Len(capChan) \in Nat
  BY DEF PowerInv, Power!TypeOK
<1>2. CASE UNCHANGED capChan
  BY <1>1, <1>2
<1>3. CASE Power!ApplyPendingPowerLimit
  <2>1. PICK a \in Power!Actions, c \in Caps \cup {Unset} :
            /\ capChan' = Append(capChan, [kind |-> "set", action |-> a, cap |-> c])
            /\ a = "NEW_LIMIT" => c # Unset /\ c \notin dropped
    BY <1>1, <1>3, PowerApply
  <2>2. capChan'[Len(capChan')] = [kind |-> "set", action |-> a, cap |-> c]
    BY <1>1, <2>1
  <2> QED BY <2>1, <2>2 DEF Power!Enforcing
<1>4. CASE Power!Update
  <2>1. capChan'[Len(capChan')] = [kind |-> "get"]
    BY <1>1, <1>4 DEF Power!Update
  <2> QED BY <2>1 DEF Power!Enforcing
<1>5. ASSUME NEW ok \in BOOLEAN, capChan # <<>>, Power!HandleResponse(ok) PROVE FALSE
  <2>1. capChan' \in Seq(Power!Requests) /\ Len(capChan') <= Len(capChan)
    BY <1>5, PowerResponse
  <2> QED BY <1>1, <2>1
<1>6. ASSUME Power!Reply \/ Power!Fail PROVE FALSE
  BY <1>5, <1>6 DEF Power!Reply, Power!Fail
<1>7. ASSUME \/ \E c \in Caps : Power!HandlePowerCapSet(c)
             \/ \E e \in BOOLEAN : Power!HandlePowerCapEnableSet(e)
             \/ Power!TimerExpires \/ Power!RetryLater \/ Power!Serve \/ UNCHANGED capVars
      PROVE  UNCHANGED capChan
  BY <1>7 DEF Power!HandlePowerCapSet, Power!HandlePowerCapEnableSet, Power!WriteBase,
              Power!TimerExpires, Power!RetryLater, Power!Serve, capVars
<1> QED BY <1>2, <1>3, <1>4, <1>6, <1>7 DEF Power!Next

(***************************************************************************)
(* For all caps and numbers of writes, polls and failures: a cap that was  *)
(* written while disabled is not what a later SetPowerLimits enforces,     *)
(* unless it was asked again or the device told it.                        *)
(***************************************************************************)
THEOREM DisabledCapIsForgotten == GpuSpec => DisabledCapForgotten
<1>1. GpuInit => PowerInv
  BY PowerInit
<1>2. PowerInv /\ [GpuNext]_allVars => PowerInv'
  BY NextParts, PowerInductive
<1>3. PowerInv /\ [GpuNext]_allVars =>
        [Len(capChan') > Len(capChan) /\ Power!Enforcing(capChan'[Len(capChan')])
            => capChan'[Len(capChan')].cap \notin dropped]_(Power!vars)
  BY NextParts, PowerForgets
<1> QED BY <1>1, <1>2, <1>3, PTL DEF GpuSpec, DisabledCapForgotten, Power!DisabledCapForgotten

-----------------------------------------------------------------------------
(* The three components together                                           *)

LEMMA CommandsInit == GpuInit => TypeInv
<1>1. ASSUME CommandsIdle PROVE TypeInv
  <2>1. /\ alive = FALSE /\ toPoll = <<>> /\ inFlight = FALSE /\ pending = <<>>
        /\ ready = <<>> /\ outstanding = {} /\ working = {} /\ issued = 0
        /\ entries = [k \in Keys |-> NoJob] /\ armed = [k \in Keys |-> NoJob]
    BY <1>1 DEF CommandsIdle
  <2>2. 0 \in 0..MaxJobs /\ issued + Len(toPoll) <= MaxJobs
    BY <2>1, LongRunningAssumption
  <2>3. /\ <<>> \in Seq(Jobs) /\ <<>> \in Seq(Handlers) /\ <<>> \in Seq(Commands)
    OBVIOUS
  <2>4. Places(ready, {"poll"}) = {}
    BY <2>1 DEF Places
  <2>5. Budget
    BY <2>1, <2>2, <2>4 DEF Budget, AtMostOne
  <2>6. TypeOK
    BY <2>1, <2>2, <2>3 DEF TypeOK
  <2> QED BY <2>5, <2>6 DEF TypeInv
<1> QED BY <1>1, InitType DEF GpuInit

ControlsInv == TypeInv /\ ClockInv /\ PowerInv

LEMMA ControlsInductive ==
  /\ GpuInit => ControlsInv
  /\ ControlsInv /\ [GpuNext]_allVars => ControlsInv'
<1>1. GpuInit => ControlsInv
  BY CommandsInit, ClockInit, PowerInit DEF ControlsInv
<1>2. ASSUME ControlsInv, [GpuNext]_allVars PROVE ControlsInv'
  BY <1>2, NextParts, TypeInductive, ClockInductive, PowerInductive DEF ControlsInv
<1> QED BY <1>1, <1>2

(***************************************************************************)
(* Every variable of the long-running commands, the clock limit and the    *)
(* power cap keeps its type; the sentinel for no cap is never enforced.    *)
(***************************************************************************)
THEOREM ControlsTypeCorrect == GpuSpec => []ControlsTypeOK
<1>1. ControlsInv => ControlsTypeOK
  BY ClockInvImplies DEF ControlsInv, TypeInv, PowerInv, ControlsTypeOK
<1> QED BY <1>1, ControlsInductive, PTL DEF GpuSpec

(***************************************************************************)
(* The gates let one SetClockLimit and one SetPowerLimits out at a time,   *)
(* although the response to an earlier poll may open the first.            *)
(***************************************************************************)
THEOREM OneSetIsOutstanding == GpuSpec => []OneSetOutstanding
<1>1. ControlsInv => OneSetOutstanding
  BY ClockInvImplies DEF ControlsInv, PowerInv, PowerGate, OneSetOutstanding
<1> QED BY <1>1, ControlsInductive, PTL DEF GpuSpec
=============================================================================
