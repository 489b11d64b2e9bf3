-------------------------- MODULE MCTPReactorProofs --------------------------
(***************************************************************************)
(* Theorems about MCTPReactor, for every set of devices and endpoints and  *)
(* any number of calls under way.                                          *)
(***************************************************************************)
EXTENDS MCTPReactor, SequenceTheorems, TLAPS

-----------------------------------------------------------------------------
(* Types.                                                                  *)

(* The calls the reactor makes are calls, and a reply to one is a message. *)
LEMMA CallTypes ==
  /\ \A d \in Devices : Setup(d) \in Calls
  /\ \A d \in Devices, t \in Devices \cup {NoDevice}, e \in Endpoints :
        Call("remove", d, e, t) \in Calls /\ Call("get", d, e, NoDevice) \in Calls
  /\ \A d \in Devices : /\ Call("bridge", d, NoEndpoint, NoDevice) \in Calls
                        /\ Call("learn", d, NoEndpoint, NoDevice) \in Calls
  BY DEF Setup, Call, Calls

LEMMA ReplyType == \A c \in Calls, o \in Outcomes : Reply(c, o) \in Messages
  BY DEF Reply, Messages

(* The message at the front of the inbox, if it is a reply. *)
LEMMA HeadReply ==
  ASSUME TypeOK, NEW k, HandleReply(k)
  PROVE  /\ Head(inbox).call \in Calls /\ Head(inbox).call.kind = k
         /\ Head(inbox).call.dev \in Devices
         /\ Tail(inbox) \in Seq(Messages)
<1>1. Head(inbox) \in Messages /\ Tail(inbox) \in Seq(Messages)
  BY DEF TypeOK, HandleReply
<1>2. Head(inbox) # Removed
  BY DEF HandleReply, Removed
<1> QED BY <1>1, <1>2 DEF HandleReply, Messages, Calls

(* endpointRemoved of any devices keeps the types. *)
LEMMA EndpointsRemovedType ==
  ASSUME TypeOK, NEW ds \in SUBSET Devices, EndpointsRemoved(ds)
  PROVE  /\ state' \in States /\ repo' \in Devices \cup {NoDevice}
         /\ endpoint' \in [Devices -> Endpoints \cup {NoEndpoint}]
         /\ subscribed' \in SUBSET Endpoints
         /\ tracked' \in Endpoints \cup {NoEndpoint}
         /\ associated' \in BOOLEAN
         /\ failing' \in SUBSET Devices
<1>1. endpoint' \in [Devices -> Endpoints \cup {NoEndpoint}] /\ subscribed' \in SUBSET Endpoints
  BY DEF EndpointsRemoved, TypeOK
<1>2. CASE \E d \in ds : Disassociate /\ NotifyRemoved(d)
  BY <1>1, <1>2 DEF Disassociate, NotifyRemoved, Terminate, TypeOK, States
<1>3. CASE UNCHANGED <<tracked, associated, state, repo, failing>>
  BY <1>1, <1>3 DEF TypeOK
<1> QED BY <1>2, <1>3 DEF EndpointsRemoved

(* What mctpd serves keeps the types. *)
LEMMA ServeType ==
  ASSUME TypeOK, ServeCall
  PROVE  TypeOK'
<1> DEFINE c == Head(calls)
<1>1. calls # <<>> /\ calls' = Tail(calls) /\ UNCHANGED <<present, reactor, crashed>>
  BY DEF ServeCall, ServeSetup, ServeSetupFailing, ServeRemove, ServeGet, ServeBridge,
         ServeLearn, Serve
<1>2. c \in Calls /\ calls' \in Seq(Calls)
  BY <1>1 DEF TypeOK
<1>3. published' \in BOOLEAN
  BY DEF TypeOK, ServeCall, ServeSetup, ServeSetupFailing, ServeRemove, ServeGet, ServeBridge,
         ServeLearn
<1>4. PICK o \in Outcomes : inbox' = Append(inbox, Reply(c, o))
                            \/ inbox' = inbox \o Signal(<<Reply(c, o)>>)
  BY DEF ServeCall, ServeSetup, ServeSetupFailing, ServeRemove, ServeGet, ServeBridge,
         ServeLearn, Outcomes
<1>5. Reply(c, o) \in Messages /\ Removed \in Messages
  BY <1>2, ReplyType DEF Messages
<1>6. inbox' \in Seq(Messages)
  <2>1. inbox \in Seq(Messages)
    BY DEF TypeOK
  <2>2. Signal(<<Reply(c, o)>>) \in Seq(Messages)
    BY <1>5 DEF Signal
  <2>3. CASE inbox' = Append(inbox, Reply(c, o))
    BY <1>5, <2>1, <2>3
  <2>4. CASE inbox' = inbox \o Signal(<<Reply(c, o)>>)
    BY <2>1, <2>2, <2>4, ConcatProperties
  <2> QED BY <1>4, <2>3, <2>4
<1> QED BY <1>1, <1>2, <1>3, <1>6 DEF TypeOK, reactor

(* What comes from outside keeps the types. *)
LEMMA DisturbType ==
  ASSUME TypeOK, Disturb
  PROVE  TypeOK'
<1>1. calls \in Seq(Calls)
  BY DEF TypeOK
<1>2. \A c \in Calls : Append(calls, c) \in Seq(Calls)
  BY <1>1
<1>3. ASSUME Manage PROVE TypeOK'
  <2>1. calls' \in Seq(Calls)
    <3>1. HasEndpoint(repo) /\ repo # NoDevice => endpoint[repo] \in Endpoints /\ repo \in Devices
      BY DEF HasEndpoint, TypeOK
    <3> QED BY <1>1, <1>2, <1>3, <3>1, CallTypes DEF Manage
  <2>2. state' \in States /\ repo' \in Devices \cup {NoDevice}
    BY <1>3 DEF Manage, TypeOK, States
  <2>3. failing' \in SUBSET Devices /\ scheduled' \in SUBSET Devices
    BY <1>3 DEF Manage, TypeOK
  <2> QED BY <1>3, <2>1, <2>2, <2>3 DEF Manage, TypeOK
<1>4. ASSUME Unmanage PROVE TypeOK'
  <2>1. calls' \in Seq(Calls)
    <3>1. HasEndpoint(repo) /\ repo # NoDevice => endpoint[repo] \in Endpoints /\ repo \in Devices
      BY DEF HasEndpoint, TypeOK
    <3> QED BY <1>1, <1>2, <1>4, <3>1, CallTypes DEF Unmanage
  <2>2. state' \in States /\ repo' \in Devices \cup {NoDevice}
    BY <1>4 DEF Unmanage, Terminate, TypeOK, States
  <2>3. failing' \in SUBSET Devices /\ scheduled' \in SUBSET Devices
    BY <1>4 DEF Unmanage, TypeOK
  <2> QED BY <1>4, <2>1, <2>2, <2>3 DEF Unmanage, TypeOK
<1>5. ASSUME EndpointLost PROVE TypeOK'
  <2>1. inbox \in Seq(Messages) /\ Removed \in Messages
    BY DEF TypeOK, Messages
  <2>2. Signal(<<>>) \in Seq(Messages)
    BY <2>1 DEF Signal
  <2>3. inbox' \in Seq(Messages)
    BY <1>5, <2>1, <2>2 DEF EndpointLost
  <2> QED BY <1>5, <2>3 DEF EndpointLost, TypeOK, reactor
<1>6. ASSUME NEW d \in Devices, OnDiscoveryNotify(d) PROVE TypeOK'
  BY <1>2, <1>6, CallTypes DEF OnDiscoveryNotify, TypeOK
<1> QED BY <1>3, <1>4, <1>5, <1>6 DEF Disturb

(* Handling a message keeps the types. *)
LEMMA HandleType ==
  ASSUME TypeOK, HandleInbox
  PROVE  TypeOK'
<1> DEFINE m == Head(inbox)
           d == m.call.dev
<1>1. calls \in Seq(Calls) /\ endpoint \in [Devices -> Endpoints \cup {NoEndpoint}]
  BY DEF TypeOK
<1>2. \A c \in Calls : Append(calls, c) \in Seq(Calls)
  BY <1>1
<1>3. ASSUME SetupFails PROVE TypeOK'
  <2>1. d \in Devices /\ inbox' \in Seq(Messages)
    BY <1>3, HeadReply DEF SetupFails, HandleReply
  <2>2. state' \in States /\ repo' \in Devices \cup {NoDevice} /\ crashed' \in BOOLEAN
        /\ failing' \in SUBSET Devices
    BY <1>3, <2>1 DEF SetupFails, Terminate, AfterFailure, States, TypeOK
  <2> QED BY <1>3, <2>1, <2>2 DEF SetupFails, HandleReply, TypeOK
<1>4. ASSUME SetupKnown PROVE TypeOK'
  <2>1. inbox' \in Seq(Messages)
    BY <1>4, HeadReply DEF SetupKnown, HandleReply
  <2> QED BY <1>4, <2>1 DEF SetupKnown, HandleReply, TypeOK
<1>5. ASSUME SetupSucceeds PROVE TypeOK'
  <2>1. d \in Devices /\ inbox' \in Seq(Messages)
    BY <1>5, HeadReply DEF SetupSucceeds, HandleReply
  <2>2. PICK e \in Endpoints :
            /\ endpoint' = [endpoint EXCEPT ![d] = e]
            /\ \/ /\ Subscribe(d, e)
                  /\ state' = AfterSetup(state)
                  /\ \/ /\ associated' = TRUE
                        /\ TrackGeneration(e)
                     \/ UNCHANGED <<associated, tracked>>
               \/ /\ subscribed' = subscribed \ {endpoint[d]}
                  /\ state' = "Quarantine"
                  /\ UNCHANGED <<associated, tracked, calls>>
    BY <1>5 DEF SetupSucceeds
  <2>3. endpoint' \in [Devices -> Endpoints \cup {NoEndpoint}]
    BY <1>1, <2>2
  <2>4. calls' \in Seq(Calls) /\ subscribed' \in SUBSET Endpoints
    BY <1>2, <2>1, <2>2, CallTypes DEF Subscribe, TypeOK
  <2>5. state' \in States /\ associated' \in BOOLEAN /\ tracked' \in Endpoints \cup {NoEndpoint}
    BY <2>2 DEF AfterSetup, States, TrackGeneration, TypeOK
  <2>6. failing' \in SUBSET Devices
    BY <1>5 DEF SetupSucceeds, TypeOK
  <2> QED BY <1>5, <2>1, <2>3, <2>4, <2>5, <2>6 DEF SetupSucceeds, HandleReply, TypeOK
<1>6. ASSUME SetupOrphaned PROVE TypeOK'
  <2>1. inbox' \in Seq(Messages)
    BY <1>6, HeadReply DEF SetupOrphaned, HandleReply
  <2> QED BY <1>6, <2>1 DEF SetupOrphaned, HandleReply, TypeOK, reactor
<1>7. ASSUME InterfacesRemoved PROVE TypeOK'
  <2>1. inbox' \in Seq(Messages)
    BY <1>7 DEF InterfacesRemoved, TypeOK
  <2>2. EndpointsRemoved(Matched) /\ Matched \in SUBSET Devices
    BY <1>7 DEF InterfacesRemoved, Matched
  <2> QED BY <1>7, <2>1, <2>2, EndpointsRemovedType DEF InterfacesRemoved, TypeOK
<1>8. ASSUME ConnectivityReply PROVE TypeOK'
  <2>1. d \in Devices /\ inbox' \in Seq(Messages)
    BY <1>8, HeadReply DEF ConnectivityReply, HandleReply
  <2>2. CASE EndpointsRemoved({d})
    BY <1>8, <2>1, <2>2, EndpointsRemovedType DEF ConnectivityReply, HandleReply, TypeOK
  <2>3. CASE UNCHANGED <<state, repo, endpoint, subscribed, tracked, associated, failing>>
    BY <1>8, <2>1, <2>3 DEF ConnectivityReply, HandleReply, TypeOK
  <2> QED BY <1>8, <2>2, <2>3 DEF ConnectivityReply
<1>9. ASSUME RemoveReply PROVE TypeOK'
  <2>1. inbox' \in Seq(Messages)
    BY <1>9, HeadReply DEF RemoveReply, HandleReply
  <2>2. state' \in States
    BY <1>9 DEF RemoveReply, TypeOK, States
  <2> QED BY <1>9, <2>1, <2>2 DEF RemoveReply, HandleReply, TypeOK
<1>10. ASSUME BridgeReply PROVE TypeOK'
  <2>1. d \in Devices /\ inbox' \in Seq(Messages)
    BY <1>10, HeadReply DEF BridgeReply, HandleReply
  <2>2. calls' \in Seq(Calls)
    BY <1>1, <1>2, <1>10, <2>1, CallTypes DEF BridgeReply
  <2> QED BY <1>10, <2>1, <2>2 DEF BridgeReply, HandleReply, TypeOK, reactor
<1>11. ASSUME LearnReply PROVE TypeOK'
  <2>1. d \in Devices /\ inbox' \in Seq(Messages)
    BY <1>11, HeadReply DEF LearnReply, HandleReply
  <2>2. calls' \in Seq(Calls)
    BY <1>1, <1>2, <1>11, <2>1, CallTypes DEF LearnReply
  <2>3. CASE EndpointsRemoved({d})
    BY <1>11, <2>1, <2>2, <2>3, EndpointsRemovedType DEF LearnReply, HandleReply, TypeOK
  <2>4. CASE UNCHANGED <<state, repo, endpoint, subscribed, tracked, associated, failing>>
    BY <1>11, <2>1, <2>2, <2>4 DEF LearnReply, HandleReply, TypeOK
  <2> QED BY <1>11, <2>3, <2>4 DEF LearnReply
<1> QED BY <1>3, <1>4, <1>5, <1>6, <1>7, <1>8, <1>9, <1>10, <1>11 DEF HandleInbox

LEMMA TypeStep ==
  ASSUME TypeOK, [Next]_vars
  PROVE  TypeOK'
<1>1. \A c \in Calls : Append(calls, c) \in Seq(Calls)
  BY DEF TypeOK
<1>2. ASSUME Tick PROVE TypeOK'
  <2>1. Setup(repo) \in Calls
    BY <1>2, CallTypes DEF Tick, TypeOK
  <2> QED BY <1>1, <1>2, <2>1 DEF Tick, Retries, States, TypeOK
<1>3. ASSUME NEW d \in Devices, PerformDiscovery(d) PROVE TypeOK'
  <2>1. calls' \in Seq(Calls)
    BY <1>1, <1>3, CallTypes DEF PerformDiscovery, TypeOK
  <2> QED BY <1>3, <2>1 DEF PerformDiscovery, TypeOK
<1>4. CASE UNCHANGED vars
  BY <1>4 DEF vars, reactor, TypeOK
<1> QED BY <1>2, <1>3, <1>4, ServeType, DisturbType, HandleType DEF Next

(* Every variable of the reactor keeps its type. *)
THEOREM TypeCorrect == Spec => []TypeOK
<1>1. Init => TypeOK
  <2>1. <<>> \in Seq(Calls) /\ <<>> \in Seq(Messages)
    OBVIOUS
  <2> QED BY <2>1 DEF Init, TypeOK, States
<1>2. TypeOK /\ [Next]_vars => TypeOK'
  BY TypeStep
<1> QED BY <1>1, <1>2, PTL DEF Spec

-----------------------------------------------------------------------------
(* A lost item is bare.  The invariant is inductive as it stands, whatever *)
(* Discovery and Faults are: an item becomes Lost only as its association  *)
(* is removed, and an association is only made on leaving Recovering.      *)

LEMMA EndpointsRemovedBare ==
  ASSUME LostIsBare, NEW ds \in SUBSET Devices, EndpointsRemoved(ds)
  PROVE  LostIsBare'
<1>1. CASE Disassociate
  BY <1>1 DEF Disassociate, LostIsBare
<1>2. CASE UNCHANGED <<associated, state>>
  BY <1>2 DEF LostIsBare
<1> QED BY <1>1, <1>2 DEF EndpointsRemoved

LEMMA BareStep ==
  ASSUME TypeOK, LostIsBare, [Next]_vars
  PROVE  LostIsBare'
<1> DEFINE d == Head(inbox).call.dev
<1>1. CASE UNCHANGED <<associated, state>>
  BY <1>1 DEF LostIsBare
<1>2. CASE associated' = associated /\ state' \notin {"Lost", "Recovering"}
  BY <1>2 DEF LostIsBare
<1>3. ASSUME Tick PROVE LostIsBare'
  BY <1>3 DEF Tick, Retries, Deferred, LostIsBare
<1>4. ASSUME Manage \/ Unmanage PROVE LostIsBare'
  BY <1>1, <1>2, <1>4 DEF Manage, Unmanage, Terminate
<1>5. ASSUME SetupFails PROVE LostIsBare'
  BY <1>5 DEF SetupFails, AfterFailure, Terminate, LostIsBare
<1>6. ASSUME SetupSucceeds PROVE LostIsBare'
  <2>1. CASE state' = "Quarantine" /\ associated' = associated
    BY <1>2, <2>1
  <2>2. CASE state' = AfterSetup(state) /\ state \notin Ignores
    BY <2>2 DEF AfterSetup, LostIsBare
  <2>3. CASE state' = AfterSetup(state) /\ associated' = associated
    BY <1>1, <2>2, <2>3 DEF AfterSetup
  <2> QED BY <1>6, <2>1, <2>2, <2>3 DEF SetupSucceeds
<1>7. ASSUME InterfacesRemoved \/ ConnectivityReply \/ LearnReply PROVE LostIsBare'
  <2>1. ASSUME NEW k, HandleReply(k) PROVE d \in Devices
    BY <2>1, HeadReply
  <2>2. CASE \E ds \in SUBSET Devices : EndpointsRemoved(ds)
    BY <2>2, EndpointsRemovedBare
  <2> QED BY <1>1, <1>7, <2>1, <2>2 DEF InterfacesRemoved, ConnectivityReply, LearnReply, Matched
<1>8. ASSUME RemoveReply PROVE LostIsBare'
  BY <1>1, <1>2, <1>8 DEF RemoveReply
<1>9. ASSUME \/ ServeCall \/ SetupKnown \/ SetupOrphaned \/ BridgeReply \/ EndpointLost
             \/ \E x \in Devices : OnDiscoveryNotify(x) \/ PerformDiscovery(x)
             \/ UNCHANGED vars
      PROVE  LostIsBare'
  BY <1>1, <1>9
     DEF ServeCall, ServeSetup, ServeSetupFailing, ServeRemove, ServeGet, ServeBridge, ServeLearn,
         Serve, reactor, SetupKnown, SetupOrphaned, BridgeReply, EndpointLost,
         OnDiscoveryNotify, PerformDiscovery, vars
<1> QED BY <1>3, <1>4, <1>5, <1>6, <1>7, <1>8, <1>9 DEF Next, Disturb, HandleInbox

(* An item that is lost or being recovered hosts no association, with and  *)
(* without discovery and failing subscriptions.                            *)
THEOREM LostHasNoAssociation == Spec => []LostIsBare
<1>1. Init => LostIsBare
  BY DEF Init, LostIsBare
<1>2. TypeOK /\ LostIsBare /\ [Next]_vars => LostIsBare'
  BY BareStep
<1> QED BY <1>1, <1>2, TypeCorrect, PTL DEF Spec

-----------------------------------------------------------------------------
(* Without discovery.  The invariant says where the setups under way can   *)
(* be: there is at most one, it is that of the device in the repository,   *)
(* and the item's state awaits it; and which device owns the endpoint that *)
(* is tracked.  After a subscription that failed the item waits for a      *)
(* setup that is not under way, and its device has an endpoint that is not *)
(* tracked.  Only that an awaited setup is under way needs subscriptions   *)
(* that do not fail.                                                       *)

Waiting == {"Assigning", "Recovering", "Quarantine"}

SetupCalls == {i \in DOMAIN calls : calls[i].kind = "setup"}
SetupReplies == {i \in DOMAIN inbox : inbox[i].kind = "reply" /\ inbox[i].call.kind = "setup"}
NoSetup == \A c \in InFlight : c.kind # "setup"
OneSetup ==
    /\ \A i, j \in SetupCalls : i = j
    /\ \A i, j \in SetupReplies : i = j
    /\ SetupCalls = {} \/ SetupReplies = {}
SetupIsAwaited == \A c \in InFlight : c.kind = "setup" => c.dev = repo /\ state \in Waiting
NoDiscovery == scheduled = {} /\ \A c \in InFlight : c.kind \in {"setup", "remove", "get"}
FlightInv == OneSetup /\ SetupIsAwaited /\ NoDiscovery
StillAwaited == WaitingHasSetup => WaitingHasSetup'

DeviceHeld == repo = NoDevice <=> state \in {"Unmanaged", "Removing"}
BareBefore ==
    /\ state \in {"Unassigned", "Lost", "Recovering", "Pending"} => endpoint[repo] = NoEndpoint
    /\ state \in {"Assigning", "Quarantine"} /\ endpoint[repo] # NoEndpoint =>
          NoSetup /\ endpoint[repo] # tracked
SetUp == state \in {"Assigned", "Recovered"} => endpoint[repo] = tracked /\ associated
OneOwner == \A d, x \in Devices : endpoint[d] # NoEndpoint /\ endpoint[d] = endpoint[x] => d = x
OwnerInv == DeviceHeld /\ BareBefore /\ SetUp /\ OneOwner /\ AssociationIsTracked

(* What is under way after a call is made. *)
LEMMA AskFlight ==
  ASSUME TypeOK, NEW c \in Calls, calls' = Append(calls, c), inbox' = inbox
  PROVE  /\ InFlight' = InFlight \cup {c}
         /\ OneSetup /\ (c.kind = "setup" => NoSetup) => OneSetup'
<1> DEFINE n == Len(calls) + 1
<1>1. calls \in Seq(Calls)
  BY DEF TypeOK
<1>2. /\ DOMAIN calls' = DOMAIN calls \cup {n} /\ n \notin DOMAIN calls
      /\ calls'[n] = c /\ \A i \in DOMAIN calls : calls'[i] = calls[i]
  BY <1>1
<1>3. InFlight' = InFlight \cup {c}
  BY <1>2 DEF InFlight
<1>4. SetupCalls' = IF c.kind = "setup" THEN SetupCalls \cup {n} ELSE SetupCalls
  BY <1>2 DEF SetupCalls
<1>5. SetupReplies' = SetupReplies
  BY DEF SetupReplies
<1>6. NoSetup => SetupCalls = {} /\ SetupReplies = {}
  BY DEF NoSetup, InFlight, SetupCalls, SetupReplies
<1> QED BY <1>3, <1>4, <1>5, <1>6 DEF OneSetup

(* What is under way after a message is taken. *)
LEMMA TakeFlight ==
  ASSUME TypeOK, inbox # <<>>, inbox' = Tail(inbox), calls' = calls
  PROVE  /\ InFlight' \subseteq InFlight
         /\ \A x \in InFlight : x \in InFlight' \/ (Head(inbox).kind = "reply" /\ x = Head(inbox).call)
         /\ OneSetup => OneSetup'
         /\ OneSetup /\ Head(inbox).kind = "reply" /\ Head(inbox).call.kind = "setup" => NoSetup'
<1>1. inbox \in Seq(Messages) /\ Tail(inbox) \in Seq(Messages)
  BY DEF TypeOK
<1>2. /\ Head(inbox) = inbox[1] /\ 1 \in DOMAIN inbox
      /\ \A i \in DOMAIN inbox' : i + 1 \in DOMAIN inbox /\ inbox'[i] = inbox[i + 1]
      /\ \A i \in DOMAIN inbox : i = 1 \/ (i - 1 \in DOMAIN inbox' /\ inbox'[i - 1] = inbox[i])
  BY <1>1
<1>3. InFlight' \subseteq InFlight
  BY <1>2 DEF InFlight
<1>4. \A x \in InFlight : x \in InFlight' \/ (Head(inbox).kind = "reply" /\ x = Head(inbox).call)
  <2> SUFFICES ASSUME NEW i \in DOMAIN inbox, inbox[i].kind = "reply"
               PROVE  inbox[i].call \in InFlight' \/ (Head(inbox).kind = "reply" /\ inbox[i].call = Head(inbox).call)
    BY DEF InFlight
  <2> QED BY <1>2 DEF InFlight
<1>5. SetupCalls' = SetupCalls
  BY DEF SetupCalls
<1>6. \A i \in SetupReplies' : i + 1 \in SetupReplies /\ i \in Nat \ {0}
  BY <1>1, <1>2 DEF SetupReplies
<1>7. OneSetup => OneSetup'
  BY <1>5, <1>6 DEF OneSetup
<1>8. ASSUME OneSetup, Head(inbox).kind = "reply", Head(inbox).call.kind = "setup"
      PROVE  NoSetup'
  <2>1. 1 \in SetupReplies /\ SetupCalls = {}
    BY <1>2, <1>8 DEF SetupReplies, OneSetup
  <2>2. SetupReplies' = {}
    BY <1>6, <1>8, <2>1 DEF OneSetup
  <2>3. \A i \in DOMAIN calls' : calls'[i].kind # "setup"
    BY <2>1 DEF SetupCalls
  <2>4. \A i \in DOMAIN inbox' : inbox'[i].kind = "reply" => inbox'[i].call.kind # "setup"
    BY <2>2 DEF SetupReplies
  <2> QED BY <2>3, <2>4 DEF NoSetup, InFlight
<1> QED BY <1>3, <1>4, <1>7, <1>8

(* The concatenation of two sequences of length one. *)
LEMMA ConcatOfTwo == \A a, b : <<a>> \o <<b>> = <<a, b>>
<1> TAKE a, b
<1> DEFINE s == <<a>> \o <<b>>
<1>1. <<a>> \in Seq({a, b}) /\ <<b>> \in Seq({a, b}) /\ <<a, b>> \in Seq({a, b})
  OBVIOUS
<1>2. s \in Seq({a, b}) /\ Len(s) = 2 /\ s[1] = a /\ s[2] = b
  BY <1>1, ConcatProperties
<1>3. Len(<<a, b>>) = 2 /\ <<a, b>>[1] = a /\ <<a, b>>[2] = b
  OBVIOUS
<1>4. Len(s) = Len(<<a, b>>) /\ \A i \in 1..Len(s) : s[i] = <<a, b>>[i]
  BY <1>2, <1>3
<1> HIDE DEF s
<1> QED BY <1>1, <1>2, <1>4, SeqEqual DEF s

(* Serving a call turns it into a reply; a signal may come with it. *)
LEMMA ServeFlight ==
  ASSUME TypeOK, ServeCall
  PROVE  InFlight' = InFlight /\ (OneSetup => OneSetup')
<1> DEFINE c == Head(calls)
           n == Len(inbox) + 1
<1>1. calls # <<>> /\ calls' = Tail(calls) /\ calls \in Seq(Calls) /\ inbox \in Seq(Messages)
  BY DEF ServeCall, ServeSetup, ServeSetupFailing, ServeRemove, ServeGet, ServeBridge,
         ServeLearn, Serve, TypeOK
<1>2. /\ c = calls[1] /\ 1 \in DOMAIN calls
      /\ \A i \in DOMAIN calls' : i + 1 \in DOMAIN calls /\ calls'[i] = calls[i + 1] /\ i \in Nat \ {0}
      /\ \A i \in DOMAIN calls : i = 1 \/ (i - 1 \in DOMAIN calls' /\ calls'[i - 1] = calls[i])
  BY <1>1
<1>3. PICK o \in Outcomes : inbox' = Append(inbox, Reply(c, o))
                            \/ inbox' = inbox \o <<Removed, Reply(c, o)>>
  <2>1. \A o : Signal(<<Reply(c, o)>>) = <<Removed, Reply(c, o)>> \/ Signal(<<Reply(c, o)>>) = <<Reply(c, o)>>
    BY ConcatOfTwo DEF Signal
  <2>2. \A o : inbox \o <<Reply(c, o)>> = Append(inbox, Reply(c, o))
    BY <1>1
  <2>3. PICK o \in Outcomes : inbox' = Append(inbox, Reply(c, o))
                              \/ inbox' = inbox \o Signal(<<Reply(c, o)>>)
    BY DEF ServeCall, ServeSetup, ServeSetupFailing, ServeRemove, ServeGet, ServeBridge,
           ServeLearn, Outcomes
  <2> QED BY <2>1, <2>2, <2>3
<1>4. c \in Calls /\ Reply(c, o) \in Messages /\ Removed \in Messages
  BY <1>1, ReplyType DEF Messages
<1>5. PICK k \in Nat : /\ k \notin DOMAIN inbox /\ k \in DOMAIN inbox'
                       /\ inbox'[k] = Reply(c, o)
                       /\ \A i \in DOMAIN inbox : i \in DOMAIN inbox' /\ inbox'[i] = inbox[i]
                       /\ \A i \in DOMAIN inbox' : i = k \/ i \in DOMAIN inbox \/ inbox'[i] = Removed
  <2>1. CASE inbox' = Append(inbox, Reply(c, o))
    <3> WITNESS n \in Nat
    <3> QED BY <1>1, <1>4, <2>1
  <2>2. CASE inbox' = inbox \o <<Removed, Reply(c, o)>>
    <3>1. /\ DOMAIN inbox = 1..Len(inbox) /\ Len(inbox) \in Nat
          /\ DOMAIN inbox' = 1..(Len(inbox) + 2)
          /\ \A i \in 1..(Len(inbox) + 2) : inbox'[i] =
                IF i <= Len(inbox) THEN inbox[i] ELSE <<Removed, Reply(c, o)>>[i - Len(inbox)]
      BY <1>1, <1>4, <2>2
    <3>2. Len(inbox) + 2 \in Nat /\ Len(inbox) + 2 - Len(inbox) = 2 /\ Len(inbox) + 1 - Len(inbox) = 1
      BY <3>1
    <3>3. /\ inbox'[Len(inbox) + 2] = Reply(c, o) /\ inbox'[Len(inbox) + 1] = Removed
      BY <3>1, <3>2
    <3>4. \A i \in DOMAIN inbox' : i = Len(inbox) + 2 \/ i \in DOMAIN inbox \/ i = Len(inbox) + 1
      BY <3>1
    <3> WITNESS Len(inbox) + 2 \in Nat
    <3> QED BY <3>1, <3>3, <3>4
  <2> QED BY <1>3, <2>1, <2>2
<1>6. Reply(c, o).kind = "reply" /\ Reply(c, o).call = c /\ Removed.kind = "removed"
  BY DEF Reply, Removed
<1>7. InFlight' = InFlight
  BY <1>2, <1>5, <1>6 DEF InFlight
<1>8. ASSUME OneSetup PROVE OneSetup'
  <2>1. \A i \in SetupCalls' : i + 1 \in SetupCalls /\ i \in Nat \ {0}
    BY <1>2 DEF SetupCalls
  <2>2. \A i \in SetupReplies' : i \in SetupReplies \/ (i = k /\ c.kind = "setup")
    BY <1>5, <1>6 DEF SetupReplies
  <2>3. c.kind = "setup" => 1 \in SetupCalls
    BY <1>2 DEF SetupCalls
  <2> QED BY <1>8, <2>1, <2>2, <2>3 DEF OneSetup
<1> QED BY <1>7, <1>8

(* A reply that is taken was under way. *)
LEMMA HeadInFlight ==
  ASSUME TypeOK, NEW k, HandleReply(k)
  PROVE  /\ Head(inbox).call \in InFlight /\ Head(inbox).call.kind = k
         /\ Head(inbox).kind = "reply" /\ inbox # <<>> /\ inbox' = Tail(inbox)
         /\ Head(inbox).call.dev \in Devices /\ Head(inbox).call \in Calls
<1>1. inbox \in Seq(Messages) /\ inbox # <<>> /\ Head(inbox).kind = "reply"
  BY DEF TypeOK, HandleReply
<1>2. 1 \in DOMAIN inbox /\ Head(inbox) = inbox[1]
  BY <1>1
<1>3. Head(inbox).call \in InFlight
  BY <1>1, <1>2 DEF InFlight
<1> QED BY <1>1, <1>3, HeadReply DEF HandleReply

(* The three ways a step moves the setups: not at all, one is asked for,   *)
(* the one that was awaited has been answered.                             *)
LEMMA FlightKept ==
  ASSUME FlightInv, OneSetup', scheduled' \subseteq scheduled,
         \A c \in InFlight' : c \in InFlight \/ c.kind \in {"remove", "get"},
         \A c \in InFlight : c.kind = "setup" => c \in InFlight',
         (state \in Waiting) = (state' \in Waiting),
         state \in Waiting => repo' = repo
  PROVE  FlightInv' /\ StillAwaited /\ (NoSetup => NoSetup')
<1>1. SetupIsAwaited' /\ (NoSetup => NoSetup')
  BY DEF FlightInv, SetupIsAwaited, NoSetup
<1>2. NoDiscovery'
  BY DEF FlightInv, NoDiscovery
<1>3. StillAwaited
  <2> SUFFICES ASSUME WaitingHasSetup, state' \in Waiting
               PROVE  repo' # NoDevice /\ SetupUnderWay(repo)'
    BY DEF StillAwaited, WaitingHasSetup, Waiting
  <2>1. repo # NoDevice /\ SetupUnderWay(repo) /\ repo' = repo
    BY DEF WaitingHasSetup, Waiting
  <2> QED BY <2>1 DEF SetupUnderWay
<1> QED BY <1>1, <1>2, <1>3 DEF FlightInv

LEMMA FlightAsked ==
  ASSUME TypeOK, FlightInv, state \notin Waiting, NEW d \in Devices,
         calls' = Append(calls, Setup(d)), inbox' = inbox, scheduled' \subseteq scheduled,
         repo' = d, state' \in {"Assigning", "Recovering"}
  PROVE  FlightInv' /\ StillAwaited
<1>1. Setup(d) \in Calls /\ Setup(d).kind = "setup" /\ Setup(d).dev = d
  BY CallTypes DEF Setup, Call
<1>2. NoSetup
  BY DEF FlightInv, SetupIsAwaited, NoSetup
<1>3. InFlight' = InFlight \cup {Setup(d)} /\ OneSetup'
  BY <1>1, <1>2, AskFlight DEF FlightInv
<1>4. SetupIsAwaited' /\ NoDiscovery'
  BY <1>1, <1>2, <1>3 DEF FlightInv, SetupIsAwaited, NoSetup, NoDiscovery, Waiting
<1>5. WaitingHasSetup'
  BY <1>1, <1>3, ReactorAssumption DEF WaitingHasSetup, SetupUnderWay
<1> QED BY <1>3, <1>4, <1>5 DEF FlightInv, StillAwaited

LEMMA FlightAnswered ==
  ASSUME FlightInv, OneSetup', NoSetup', scheduled' \subseteq scheduled,
         \A c \in InFlight' : c \in InFlight \/ c.kind \in {"remove", "get"}
  PROVE  FlightInv' /\ (state' \notin Waiting => StillAwaited)
  BY DEF FlightInv, SetupIsAwaited, NoSetup, NoDiscovery, WaitingHasSetup, StillAwaited, Waiting

(* endpointRemoved of devices that have an endpoint: either none of them   *)
(* owns the tracked one, or the item was set up with it and is lost, or it *)
(* was that of a device that left the repository.                          *)
LEMMA EndpointsRemovedInv ==
  ASSUME TypeOK, OwnerInv, NEW ds \in SUBSET Devices,
         \A d \in ds : endpoint[d] # NoEndpoint, EndpointsRemoved(ds), InFlight' \subseteq InFlight
  PROVE  /\ OwnerInv' /\ repo' = repo
         /\ state' = state \/ (state \in {"Assigned", "Recovered"} /\ state' = "Lost")
<1>1. /\ endpoint \in [Devices -> Endpoints \cup {NoEndpoint}]
      /\ endpoint' = [d \in Devices |-> IF d \in ds THEN NoEndpoint ELSE endpoint[d]]
      /\ subscribed' = subscribed \ {endpoint[d] : d \in ds}
  BY DEF EndpointsRemoved, TypeOK
<1>2. OneOwner'
  BY <1>1 DEF OwnerInv, OneOwner
<1>3. NoSetup => NoSetup'
  BY DEF NoSetup
<1>4. \A d \in ds : endpoint[d] = tracked => endpoint[d] \in subscribed
  BY DEF OwnerInv, AssociationIsTracked
<1>5. CASE \E d \in ds : /\ endpoint[d] \in subscribed /\ CurrentGeneration(endpoint[d])
                         /\ Disassociate
                         /\ NotifyRemoved(d)
  <2> PICK d \in ds : CurrentGeneration(endpoint[d]) /\ Disassociate /\ NotifyRemoved(d)
    BY <1>5
  <2>1. endpoint[d] = tracked /\ d \in Devices /\ endpoint[d] # NoEndpoint /\ d # NoDevice
    BY ReactorAssumption DEF CurrentGeneration
  <2>2. tracked' = NoEndpoint /\ associated' = FALSE
    BY DEF Disassociate
  <2>3. repo = d => state \in {"Assigned", "Recovered"}
    BY <2>1, ReactorAssumption
       DEF OwnerInv, DeviceHeld, BareBefore, TypeOK, States
  <2>4. state \in {"Assigned", "Recovered"} => repo = d
    <3> SUFFICES ASSUME state \in {"Assigned", "Recovered"} PROVE repo = d
      OBVIOUS
    <3>1. repo \in Devices /\ endpoint[repo] = tracked
      BY DEF OwnerInv, DeviceHeld, SetUp, TypeOK
    <3> QED BY <2>1, <3>1 DEF OwnerInv, OneOwner
  <2>5. repo' = repo /\ (repo = d => state' = "Lost") /\ (repo # d => state' = state)
    BY <2>3 DEF NotifyRemoved, Terminate
  <2>6. DeviceHeld' /\ BareBefore' /\ SetUp'
    <3>1. CASE repo = d
      BY <1>1, <2>1, <2>5, <3>1, ReactorAssumption DEF DeviceHeld, BareBefore, SetUp
    <3>2. CASE repo # d
      <4>1. DeviceHeld' /\ SetUp'
        BY <2>4, <2>5, <3>2 DEF OwnerInv, DeviceHeld, SetUp
      <4>2. BareBefore'
        <5> SUFFICES ASSUME repo \in Devices PROVE BareBefore'
          BY <2>5, <3>2 DEF OwnerInv, DeviceHeld, BareBefore, TypeOK
        <5>1. endpoint'[repo] = endpoint[repo] \/ endpoint'[repo] = NoEndpoint
          BY <1>1
        <5> QED BY <1>3, <2>2, <2>5, <3>2, <5>1 DEF OwnerInv, BareBefore
      <4> QED BY <4>1, <4>2
    <3> QED BY <3>1, <3>2
  <2>7. AssociationIsTracked'
    BY <2>2 DEF AssociationIsTracked
  <2> QED BY <1>2, <2>3, <2>5, <2>6, <2>7 DEF OwnerInv
<1>6. CASE /\ \A d \in ds : endpoint[d] \in subscribed => ~CurrentGeneration(endpoint[d])
           /\ UNCHANGED <<tracked, associated, state, repo, failing>>
  <2>1. \A d \in ds : endpoint[d] # tracked
    BY <1>4, <1>6 DEF CurrentGeneration
  <2>2. DeviceHeld'
    BY <1>6 DEF OwnerInv, DeviceHeld
  <2>3. BareBefore' /\ SetUp'
    <3>1. state \notin {"Unmanaged", "Removing"} => repo \in Devices
      BY DEF OwnerInv, DeviceHeld, TypeOK
    <3>2. BareBefore'
      BY <1>1, <1>3, <1>6, <3>1 DEF OwnerInv, BareBefore
    <3>3. SetUp'
      BY <1>1, <1>6, <2>1, <3>1 DEF OwnerInv, SetUp
    <3> QED BY <3>2, <3>3
  <2>4. AssociationIsTracked'
    <3> SUFFICES ASSUME associated
                 PROVE  \E d \in Devices : endpoint'[d] = tracked /\ tracked \in subscribed'
      BY <1>6 DEF OwnerInv, AssociationIsTracked
    <3>1. PICK d \in Devices : endpoint[d] = tracked /\ tracked \in subscribed
      BY DEF OwnerInv, AssociationIsTracked
    <3>2. d \notin ds /\ tracked \notin {endpoint[x] : x \in ds}
      BY <2>1, <3>1
    <3> QED BY <1>1, <3>1, <3>2
  <2> QED BY <1>2, <1>6, <2>2, <2>3, <2>4 DEF OwnerInv
<1> QED BY <1>5, <1>6 DEF EndpointsRemoved

(* Publication. *)
LEMMA ManageInv ==
  ASSUME TypeOK, FlightInv, OwnerInv, Manage
  PROVE  FlightInv' /\ OwnerInv' /\ StillAwaited
<1>1. UNCHANGED <<endpoint, subscribed, tracked, associated, inbox>> /\ scheduled' \subseteq scheduled
  BY DEF Manage
<1>2. OneOwner' /\ AssociationIsTracked'
  BY <1>1 DEF OwnerInv, OneOwner, AssociationIsTracked
<1>3. \A d \in Devices : NewDevice(d) => endpoint[d] = NoEndpoint /\ d # NoDevice
  BY ReactorAssumption DEF NewDevice, Alive
<1>4. CASE UNCHANGED <<state, repo, calls>>
  <2>1. InFlight' = InFlight /\ OneSetup'
    BY <1>1, <1>4 DEF InFlight, FlightInv, OneSetup, SetupCalls, SetupReplies
  <2>2. FlightInv' /\ StillAwaited /\ (NoSetup => NoSetup')
    BY <1>1, <1>4, <2>1, FlightKept
  <2> QED BY <1>1, <1>2, <1>4, <2>2 DEF OwnerInv, DeviceHeld, BareBefore, SetUp
<1>5. CASE \E d \in Devices : /\ state = "Unmanaged" /\ NewDevice(d) /\ repo' = d
                              /\ state' = "Assigning" /\ calls' = Append(calls, Setup(d))
  <2> PICK d \in Devices : /\ state = "Unmanaged" /\ NewDevice(d) /\ repo' = d
                           /\ state' = "Assigning" /\ calls' = Append(calls, Setup(d))
    BY <1>5
  <2>1. FlightInv' /\ StillAwaited
    BY <1>1, FlightAsked DEF Waiting
  <2> QED BY <1>1, <1>2, <1>3, <2>1 DEF OwnerInv, DeviceHeld, BareBefore, SetUp
<1>6. CASE \E d \in Devices :
            /\ state = "Assigned" /\ repo # NoDevice /\ NewDevice(d) /\ repo' = d
            /\ \/ /\ HasEndpoint(repo)
                  /\ calls' = Append(calls, Call("remove", repo, endpoint[repo], d))
                  /\ state' = "Pending"
               \/ /\ UNCHANGED calls
                  /\ state' = "Unassigned"
  <2> PICK d \in Devices :
            /\ state = "Assigned" /\ repo # NoDevice /\ NewDevice(d) /\ repo' = d
            /\ \/ /\ HasEndpoint(repo)
                  /\ calls' = Append(calls, Call("remove", repo, endpoint[repo], d))
                  /\ state' = "Pending"
               \/ /\ UNCHANGED calls
                  /\ state' = "Unassigned"
    BY <1>6
  <2>1. CASE calls' = Append(calls, Call("remove", repo, endpoint[repo], d)) /\ HasEndpoint(repo)
             /\ state' = "Pending"
    <3> DEFINE c == Call("remove", repo, endpoint[repo], d)
    <3>1. c \in Calls /\ c.kind = "remove"
      BY <2>1, CallTypes DEF HasEndpoint, TypeOK, Call
    <3>2. InFlight' = InFlight \cup {c} /\ OneSetup'
      BY <1>1, <2>1, <3>1, AskFlight DEF FlightInv
    <3>3. FlightInv' /\ StillAwaited /\ (NoSetup => NoSetup')
      BY <1>1, <2>1, <3>1, <3>2, FlightKept DEF Waiting
    <3> QED BY <1>1, <1>2, <1>3, <2>1, <3>3 DEF OwnerInv, DeviceHeld, BareBefore, SetUp
  <2>2. CASE UNCHANGED calls /\ state' = "Unassigned"
    <3>1. InFlight' = InFlight /\ OneSetup'
      BY <1>1, <2>2 DEF InFlight, FlightInv, OneSetup, SetupCalls, SetupReplies
    <3>2. FlightInv' /\ StillAwaited /\ (NoSetup => NoSetup')
      BY <1>1, <2>2, <3>1, FlightKept DEF Waiting
    <3> QED BY <1>1, <1>2, <1>3, <2>2, <3>2 DEF OwnerInv, DeviceHeld, BareBefore, SetUp
  <2> QED BY <2>1, <2>2
<1>7. CASE UNCHANGED <<repo, calls>> /\ \/ state = "Quarantine" /\ state' = "Assigning"
                                        \/ state = "Recovered" /\ state' = "Assigned"
  <2>1. InFlight' = InFlight /\ OneSetup'
    BY <1>1, <1>7 DEF InFlight, FlightInv, OneSetup, SetupCalls, SetupReplies
  <2>2. FlightInv' /\ StillAwaited /\ (NoSetup => NoSetup')
    BY <1>1, <1>7, <2>1, FlightKept DEF Waiting
  <2> QED BY <1>1, <1>2, <1>7, <2>2 DEF OwnerInv, DeviceHeld, BareBefore, SetUp, Waiting
<1>8. CASE \E d \in Devices : /\ state = "Removing" /\ NewDevice(d) /\ repo' = d
                              /\ state' = "Unassigned" /\ UNCHANGED calls
  <2> PICK d \in Devices : /\ state = "Removing" /\ NewDevice(d) /\ repo' = d
                           /\ state' = "Unassigned" /\ UNCHANGED calls
    BY <1>8
  <2>1. InFlight' = InFlight /\ OneSetup'
    BY <1>1 DEF InFlight, FlightInv, OneSetup, SetupCalls, SetupReplies
  <2>2. FlightInv' /\ StillAwaited /\ (NoSetup => NoSetup')
    BY <1>1, <2>1, FlightKept DEF Waiting
  <2> QED BY <1>1, <1>2, <1>3, <2>2 DEF OwnerInv, DeviceHeld, BareBefore, SetUp
<1> QED BY <1>4, <1>5, <1>6, <1>7, <1>8 DEF Manage

(* Withdrawal. *)
LEMMA UnmanageInv ==
  ASSUME TypeOK, FlightInv, OwnerInv, Unmanage
  PROVE  FlightInv' /\ OwnerInv' /\ StillAwaited
<1>1. UNCHANGED <<endpoint, subscribed, tracked, associated, inbox>> /\ scheduled' \subseteq scheduled
  BY DEF Unmanage
<1>2. OneOwner' /\ AssociationIsTracked'
  BY <1>1 DEF OwnerInv, OneOwner, AssociationIsTracked
<1>3. UNCHANGED calls => InFlight' = InFlight /\ OneSetup'
  BY <1>1 DEF InFlight, FlightInv, OneSetup, SetupCalls, SetupReplies
<1>4. CASE UNCHANGED <<state, repo, calls>>
  <2>1. FlightInv' /\ StillAwaited /\ (NoSetup => NoSetup')
    BY <1>1, <1>3, <1>4, FlightKept
  <2> QED BY <1>1, <1>2, <1>4, <2>1 DEF OwnerInv, DeviceHeld, BareBefore, SetUp
<1>5. CASE /\ repo # NoDevice /\ state \in {"Assigning", "Recovering"}
           /\ state' = "Quarantine" /\ UNCHANGED <<repo, calls>>
  <2>1. FlightInv' /\ StillAwaited /\ (NoSetup => NoSetup')
    BY <1>1, <1>3, <1>5, FlightKept DEF Waiting
  <2> QED BY <1>1, <1>2, <1>5, <2>1 DEF OwnerInv, DeviceHeld, BareBefore, SetUp, Waiting
<1>6. CASE /\ repo # NoDevice /\ state \in {"Unassigned", "Lost"}
           /\ Terminate(repo) /\ UNCHANGED calls
  <2>1. FlightInv' /\ StillAwaited /\ (NoSetup => NoSetup')
    BY <1>1, <1>3, <1>6, FlightKept DEF Waiting, Terminate
  <2> QED BY <1>1, <1>2, <1>6, <2>1 DEF OwnerInv, DeviceHeld, BareBefore, SetUp, Waiting, Terminate
<1>7. CASE /\ repo # NoDevice /\ state \in {"Assigned", "Pending"}
           /\ repo' = NoDevice
           /\ state' = "Removing"
           /\ calls' = IF HasEndpoint(repo)
                         THEN Append(calls, Call("remove", repo, endpoint[repo], NoDevice))
                         ELSE calls
  <2>1. CASE HasEndpoint(repo)
    <3> DEFINE c == Call("remove", repo, endpoint[repo], NoDevice)
    <3>1. c \in Calls /\ c.kind = "remove"
      BY <1>7, <2>1, CallTypes DEF HasEndpoint, TypeOK, Call
    <3>2. InFlight' = InFlight \cup {c} /\ OneSetup'
      BY <1>1, <1>7, <2>1, <3>1, AskFlight DEF FlightInv
    <3>3. FlightInv' /\ StillAwaited /\ (NoSetup => NoSetup')
      BY <1>1, <1>7, <3>1, <3>2, FlightKept DEF Waiting
    <3> QED BY <1>1, <1>2, <1>7, <3>3 DEF OwnerInv, DeviceHeld, BareBefore, SetUp, Waiting
  <2>2. CASE ~HasEndpoint(repo)
    <3>1. FlightInv' /\ StillAwaited /\ (NoSetup => NoSetup')
      BY <1>1, <1>3, <1>7, <2>2, FlightKept DEF Waiting
    <3> QED BY <1>1, <1>2, <1>7, <3>1 DEF OwnerInv, DeviceHeld, BareBefore, SetUp, Waiting
  <2> QED BY <2>1, <2>2
<1> QED BY <1>4, <1>5, <1>6, <1>7 DEF Unmanage

(* The tick asks for a setup only where none is under way. *)
LEMMA TickInv ==
  ASSUME TypeOK, FlightInv, OwnerInv, Tick
  PROVE  FlightInv' /\ OwnerInv' /\ StillAwaited
<1>1. /\ repo \in Devices /\ state \in {"Unassigned", "Lost"} /\ repo' = repo
      /\ state' \in {"Assigning", "Recovering"}
      /\ calls' = Append(calls, Setup(repo))
      /\ UNCHANGED <<endpoint, subscribed, tracked, associated, scheduled, inbox>>
  BY DEF Tick, Deferred, Retries, TypeOK
<1> PICK d \in Devices : d = repo
  BY <1>1
<1>2. FlightInv' /\ StillAwaited
  BY <1>1, FlightAsked DEF Waiting
<1> QED BY <1>1, <1>2
        DEF OwnerInv, DeviceHeld, BareBefore, SetUp, OneOwner, AssociationIsTracked, Waiting

(* What is under way after the reply to a setup is taken and the endpoint  *)
(* it gave is asked for.                                                   *)
LEMMA TakeAndGet ==
  ASSUME TypeOK, OneSetup, NEW d \in Devices, NEW e \in Endpoints,
         inbox # <<>>, Head(inbox).kind = "reply", Head(inbox).call.kind = "setup",
         inbox' = Tail(inbox), calls' = Append(calls, Call("get", d, e, NoDevice))
  PROVE  InFlight' \subseteq InFlight \cup {Call("get", d, e, NoDevice)} /\ OneSetup' /\ NoSetup'
<1> DEFINE c == Call("get", d, e, NoDevice)
<1>1. c \in Calls /\ c.kind = "get"
  BY CallTypes DEF Call
<1>2. calls \in Seq(Calls) /\ inbox \in Seq(Messages)
  BY DEF TypeOK
<1>3. /\ 1 \in DOMAIN inbox /\ inbox[1] = Head(inbox)
      /\ \A i \in DOMAIN inbox' : i + 1 \in DOMAIN inbox /\ inbox'[i] = inbox[i + 1] /\ i \in Nat \ {0}
  BY <1>2
<1>4. 1 \in SetupReplies
  BY <1>3 DEF SetupReplies
<1>5. SetupCalls = {} /\ SetupReplies' = {}
  BY <1>3, <1>4 DEF OneSetup, SetupReplies
<1>6. \A i \in DOMAIN calls' : (i \in DOMAIN calls /\ calls'[i] = calls[i]) \/ calls'[i] = c
  BY <1>1, <1>2
<1>7. SetupCalls' = {}
  BY <1>1, <1>5, <1>6 DEF SetupCalls
<1>8. InFlight' \subseteq InFlight \cup {c}
  BY <1>3, <1>6 DEF InFlight
<1>9. NoSetup'
  BY <1>5, <1>7 DEF NoSetup, InFlight, SetupCalls, SetupReplies
<1> QED BY <1>5, <1>7, <1>8, <1>9 DEF OneSetup

(* The reply to a setup: it fails, succeeds, or succeeds for an endpoint    *)
(* that cannot be subscribed to, which leaves the item waiting for nothing. *)
LEMMA SetupReplyInv ==
  ASSUME TypeOK, FlightInv, OwnerInv,
         SetupFails \/ SetupKnown \/ SetupSucceeds \/ SetupOrphaned
  PROVE  FlightInv' /\ OwnerInv' /\ (~Faults => StillAwaited)
<1> DEFINE d == Head(inbox).call.dev
<1>1. HandleReply("setup")
  BY DEF SetupFails, SetupKnown, SetupSucceeds, SetupOrphaned
<1>2. d = repo /\ state \in Waiting /\ d \in Devices /\ endpoint[d] = NoEndpoint
  <2>1. ~NoSetup /\ d = repo /\ state \in Waiting /\ d \in Devices
    BY <1>1, HeadInFlight DEF FlightInv, SetupIsAwaited, NoSetup
  <2> QED BY <2>1 DEF OwnerInv, BareBefore, Waiting
<1>3. Alive(d)
  BY <1>2 DEF Alive
<1>4. ASSUME SetupFails PROVE FlightInv' /\ OwnerInv' /\ (~Faults => StillAwaited)
  <2>1. UNCHANGED <<endpoint, subscribed, tracked, associated, scheduled, calls>>
    BY <1>4 DEF SetupFails
  <2>2. InFlight' \subseteq InFlight /\ OneSetup' /\ NoSetup'
    BY <1>1, <2>1, HeadInFlight, TakeFlight DEF FlightInv
  <2>3. \/ state \in {"Assigning", "Recovering"} /\ state' \in {"Unassigned", "Lost"} /\ repo' = repo
        \/ state' = "Unmanaged" /\ repo' = NoDevice
    BY <1>2, <1>3, <1>4 DEF SetupFails, AfterFailure, Terminate, Waiting
  <2>4. FlightInv' /\ StillAwaited
    BY <2>1, <2>2, <2>3, FlightAnswered DEF Waiting
  <2> QED BY <1>2, <2>1, <2>3, <2>4
          DEF OwnerInv, DeviceHeld, BareBefore, SetUp, OneOwner, AssociationIsTracked, Waiting
<1>5. ASSUME SetupSucceeds PROVE FlightInv' /\ OwnerInv' /\ (~Faults => StillAwaited)
  <2>1. PICK e \in Endpoints :
            /\ NewEndpoint(e)
            /\ endpoint' = [endpoint EXCEPT ![d] = e]
            /\ \/ /\ Subscribe(d, e)
                  /\ state' = AfterSetup(state)
                  /\ \/ state \notin Ignores /\ associated' = TRUE /\ TrackGeneration(e)
                     \/ state \in Ignores
               \/ /\ Faults
                  /\ subscribed' = subscribed \ {endpoint[d]}
                  /\ state' = "Quarantine"
                  /\ UNCHANGED <<associated, tracked, calls>>
    BY <1>2, <1>5 DEF SetupSucceeds
  <2>2. /\ inbox # <<>> /\ inbox' = Tail(inbox) /\ repo' = repo /\ scheduled' = scheduled
        /\ Head(inbox).kind = "reply" /\ Head(inbox).call.kind = "setup"
    BY <1>1, <1>5 DEF SetupSucceeds, HandleReply
  <2>3. /\ endpoint'[d] = e /\ e # tracked /\ endpoint[d] = NoEndpoint
        /\ \A x \in Devices \ {d} : endpoint'[x] = endpoint[x] /\ endpoint[x] # e
    BY <1>2, <2>1 DEF TypeOK, NewEndpoint
  <2>4. OneOwner'
    BY <2>3 DEF OwnerInv, OneOwner
  <2>5. ASSUME Subscribe(d, e), state' = AfterSetup(state),
               \/ state \notin Ignores /\ associated' = TRUE /\ TrackGeneration(e)
               \/ state \in Ignores
        PROVE  FlightInv' /\ OwnerInv' /\ StillAwaited
    <3>1. /\ state' \in {"Assigned", "Recovered"} /\ associated' = TRUE /\ tracked' = e
          /\ e \in subscribed'
      BY <1>2, <2>5 DEF Waiting, Ignores, AfterSetup, TrackGeneration, Subscribe
    <3>2. InFlight' \subseteq InFlight \cup {Call("get", d, e, NoDevice)} /\ OneSetup' /\ NoSetup'
      BY <1>2, <2>2, <2>5, TakeAndGet DEF Subscribe, FlightInv
    <3>3. FlightInv' /\ StillAwaited
      BY <2>2, <3>1, <3>2, FlightAnswered DEF Waiting, Call
    <3>4. DeviceHeld' /\ BareBefore' /\ SetUp'
      BY <1>2, <2>2, <2>3, <3>1, ReactorAssumption DEF DeviceHeld, BareBefore, SetUp
    <3>5. AssociationIsTracked'
      BY <1>2, <2>3, <3>1, ReactorAssumption DEF AssociationIsTracked
    <3> QED BY <2>4, <3>3, <3>4, <3>5 DEF OwnerInv
  <2>6. ASSUME Faults, subscribed' = subscribed \ {endpoint[d]}, state' = "Quarantine",
               UNCHANGED <<associated, tracked, calls>>
        PROVE  FlightInv' /\ OwnerInv' /\ (~Faults => StillAwaited)
    <3>1. InFlight' \subseteq InFlight /\ OneSetup' /\ NoSetup'
      BY <2>2, <2>6, TakeFlight DEF FlightInv
    <3>2. FlightInv'
      BY <2>2, <3>1, FlightAnswered
    <3>3. DeviceHeld' /\ BareBefore' /\ SetUp'
      <4>1. repo' = d /\ endpoint'[repo'] = e /\ e # tracked' /\ d # NoDevice
        BY <1>2, <2>2, <2>3, <2>6, ReactorAssumption
      <4> QED BY <2>6, <3>1, <4>1 DEF DeviceHeld, BareBefore, SetUp
    <3>4. AssociationIsTracked'
      BY <1>2, <2>3, <2>6, ReactorAssumption DEF OwnerInv, AssociationIsTracked
    <3> QED BY <2>4, <2>6, <3>2, <3>3, <3>4 DEF OwnerInv
  <2> QED BY <2>1, <2>5, <2>6
<1>6. ~SetupKnown /\ ~SetupOrphaned
  BY <1>2, <1>3 DEF SetupKnown, SetupOrphaned
<1> QED BY <1>4, <1>5, <1>6

(* The other messages: they hold no setup. *)
LEMMA MessageInv ==
  ASSUME TypeOK, FlightInv, OwnerInv, InterfacesRemoved \/ ConnectivityReply \/ RemoveReply
  PROVE  FlightInv' /\ OwnerInv' /\ StillAwaited
<1> DEFINE c == Head(inbox).call
<1>1. inbox # <<>> /\ inbox' = Tail(inbox) /\ UNCHANGED <<calls, scheduled>>
  BY DEF InterfacesRemoved, ConnectivityReply, RemoveReply, HandleReply
<1>2. Head(inbox).kind = "reply" => c.kind # "setup"
  BY DEF InterfacesRemoved, ConnectivityReply, RemoveReply, HandleReply, Removed
<1>3. /\ InFlight' \subseteq InFlight /\ OneSetup'
      /\ \A x \in InFlight : x.kind = "setup" => x \in InFlight'
  BY <1>1, <1>2, TakeFlight DEF FlightInv
<1>4. CASE UNCHANGED <<state, repo, endpoint, subscribed, tracked, associated>>
  <2>1. FlightInv' /\ StillAwaited /\ (NoSetup => NoSetup')
    BY <1>1, <1>3, <1>4, FlightKept
  <2> QED BY <1>4, <2>1
          DEF OwnerInv, DeviceHeld, BareBefore, SetUp, OneOwner, AssociationIsTracked
<1>5. ASSUME NEW ds \in SUBSET Devices, \A d \in ds : endpoint[d] # NoEndpoint, EndpointsRemoved(ds)
      PROVE  FlightInv' /\ OwnerInv' /\ StillAwaited
  <2>1. /\ OwnerInv' /\ repo' = repo
        /\ state' = state \/ (state \in {"Assigned", "Recovered"} /\ state' = "Lost")
    BY <1>3, <1>5, EndpointsRemovedInv
  <2>2. FlightInv' /\ StillAwaited /\ (NoSetup => NoSetup')
    BY <1>1, <1>3, <2>1, FlightKept DEF Waiting
  <2> QED BY <2>1, <2>2
<1>6. ASSUME InterfacesRemoved PROVE FlightInv' /\ OwnerInv' /\ StillAwaited
  BY <1>5, <1>6 DEF InterfacesRemoved, Matched
<1>7. ASSUME ConnectivityReply PROVE FlightInv' /\ OwnerInv' /\ StillAwaited
  <2>1. c.dev \in Devices /\ c.ep # NoEndpoint
    <3>1. c \in Calls /\ c.kind = "get"
      BY <1>7, HeadInFlight DEF ConnectivityReply
    <3> QED BY <3>1, ReactorAssumption DEF Calls
  <2>2. CASE endpoint[c.dev] = c.ep /\ EndpointsRemoved({c.dev})
    BY <1>5, <2>1, <2>2
  <2> QED BY <1>4, <1>7, <2>2 DEF ConnectivityReply
<1>8. ASSUME RemoveReply PROVE FlightInv' /\ OwnerInv' /\ StillAwaited
  <2>1. /\ UNCHANGED <<repo, endpoint, subscribed, tracked, associated>>
        /\ state' = state \/ (state = "Pending" /\ state' = "Unassigned")
    BY <1>8 DEF RemoveReply
  <2>2. FlightInv' /\ StillAwaited /\ (NoSetup => NoSetup')
    BY <1>1, <1>3, <2>1, FlightKept DEF Waiting
  <2> QED BY <2>1, <2>2
          DEF OwnerInv, DeviceHeld, BareBefore, SetUp, OneOwner, AssociationIsTracked, Waiting
<1> QED BY <1>6, <1>7, <1>8

(* mctpd serving a call or withdrawing the endpoint changes no state of    *)
(* the reactor and moves no setup.                                         *)
LEMMA MctpdInv ==
  ASSUME TypeOK, FlightInv, OwnerInv, ServeCall \/ EndpointLost \/ UNCHANGED vars
  PROVE  FlightInv' /\ OwnerInv' /\ StillAwaited /\ InFlight' = InFlight
<1>1. UNCHANGED reactor
  BY DEF ServeCall, ServeSetup, ServeSetupFailing, ServeRemove, ServeGet, ServeBridge,
         ServeLearn, Serve, EndpointLost, vars
<1>2. InFlight' = InFlight /\ OneSetup'
  <2>1. CASE ServeCall
    BY <2>1, ServeFlight DEF FlightInv
  <2>2. CASE EndpointLost
    <3>1. calls' = calls /\ inbox \in Seq(Messages) /\ Removed \in Messages
      BY <2>2 DEF EndpointLost, TypeOK, Messages
    <3>2. inbox' = inbox \/ inbox' = Append(inbox, Removed)
      <4>1. Signal(<<>>) = <<>> \/ Signal(<<>>) = <<Removed>>
        BY ConcatEmptySeq, <3>1 DEF Signal
      <4> QED BY <2>2, <3>1, <4>1 DEF EndpointLost
    <3>3. \A i \in DOMAIN inbox : i \in DOMAIN inbox' /\ inbox'[i] = inbox[i]
      BY <3>1, <3>2
    <3>4. \A i \in DOMAIN inbox' : i \in DOMAIN inbox \/ inbox'[i] = Removed
      BY <3>1, <3>2
    <3>5. InFlight' = InFlight
      BY <3>1, <3>3, <3>4 DEF InFlight, Removed
    <3>6. SetupReplies' = SetupReplies /\ SetupCalls' = SetupCalls
      BY <3>1, <3>3, <3>4 DEF SetupReplies, SetupCalls, Removed
    <3> QED BY <3>5, <3>6 DEF FlightInv, OneSetup
  <2>3. CASE UNCHANGED vars
    BY <2>3 DEF vars, InFlight, FlightInv, OneSetup, SetupCalls, SetupReplies
  <2> QED BY <2>1, <2>2, <2>3
<1>3. FlightInv' /\ StillAwaited /\ (NoSetup => NoSetup')
  BY <1>1, <1>2, FlightKept DEF reactor
<1> QED BY <1>1, <1>2, <1>3
        DEF reactor, OwnerInv, DeviceHeld, BareBefore, SetUp, OneOwner, AssociationIsTracked

(* Without discovery its actions do not happen. *)
LEMMA NoDiscoverySteps ==
  ASSUME TypeOK, FlightInv, ~Discovery
  PROVE  /\ \A d \in Devices : ~OnDiscoveryNotify(d) /\ ~PerformDiscovery(d)
         /\ ~BridgeReply /\ ~LearnReply
<1>1. \A d \in Devices : ~OnDiscoveryNotify(d) /\ ~PerformDiscovery(d)
  BY DEF OnDiscoveryNotify, PerformDiscovery, FlightInv, NoDiscovery
<1>2. ASSUME HandleReply("bridge") \/ HandleReply("learn") PROVE FALSE
  BY <1>2, HeadInFlight DEF FlightInv, NoDiscovery
<1> QED BY <1>1, <1>2 DEF BridgeReply, LearnReply

LEMMA ReactorStep ==
  ASSUME TypeOK, FlightInv, OwnerInv, ~Discovery, [Next]_vars
  PROVE  FlightInv' /\ OwnerInv' /\ (~Faults => StillAwaited)
  BY NoDiscoverySteps, ManageInv, UnmanageInv, TickInv, SetupReplyInv, MessageInv, MctpdInv
     DEF Next, Disturb, HandleInbox

(* A Remove is asked for where the item is set up, or waits for one: no    *)
(* setup is under way there.                                               *)
LEMMA RemoveStep ==
  ASSUME TypeOK, FlightInv, OwnerInv, ~Discovery, [Next]_vars
  PROVE  \A c \in InFlight' \ InFlight : c.kind = "remove" => ~SetupUnderWay(c.dev)
<1> SUFFICES ASSUME NEW c \in InFlight', c \notin InFlight, c.kind = "remove"
             PROVE  ~SetupUnderWay(c.dev)
  OBVIOUS
<1>1. ASSUME state \notin Waiting PROVE ~SetupUnderWay(c.dev)
  BY <1>1 DEF FlightInv, SetupIsAwaited, SetupUnderWay
<1>2. ASSUME Manage \/ Unmanage PROVE ~SetupUnderWay(c.dev)
  <2>1. CASE UNCHANGED <<calls, inbox>>
    BY <2>1 DEF InFlight
  <2>2. CASE state \notin Waiting
    BY <1>1, <2>2
  <2> QED BY <1>2, <2>1, <2>2 DEF Manage, Unmanage, Waiting
<1>3. ASSUME Tick PROVE ~SetupUnderWay(c.dev)
  BY <1>1, <1>3 DEF Tick, Deferred, Waiting
<1>4. ASSUME SetupFails \/ SetupKnown \/ SetupSucceeds \/ SetupOrphaned PROVE FALSE
  <2>1. inbox # <<>> /\ inbox' = Tail(inbox) /\ inbox \in Seq(Messages) /\ calls \in Seq(Calls)
    BY <1>4 DEF SetupFails, SetupKnown, SetupSucceeds, SetupOrphaned, HandleReply, TypeOK
  <2>2. \A i \in DOMAIN inbox' : i + 1 \in DOMAIN inbox /\ inbox'[i] = inbox[i + 1]
    BY <2>1
  <2>3. Head(inbox).call.dev \in Devices
    BY <1>4, HeadReply DEF SetupFails, SetupKnown, SetupSucceeds, SetupOrphaned
  <2>4. \A i \in DOMAIN calls' : (i \in DOMAIN calls /\ calls'[i] = calls[i]) \/ calls'[i].kind = "get"
    <3>1. CASE UNCHANGED calls
      BY <3>1
    <3>2. CASE \E d \in Devices, e \in Endpoints : calls' = Append(calls, Call("get", d, e, NoDevice))
      <4> PICK d \in Devices, e \in Endpoints : calls' = Append(calls, Call("get", d, e, NoDevice))
        BY <3>2
      <4>1. Call("get", d, e, NoDevice) \in Calls /\ Call("get", d, e, NoDevice).kind = "get"
        BY CallTypes DEF Call
      <4> QED BY <2>1, <4>1
    <3> QED BY <1>4, <2>3, <3>1, <3>2 DEF SetupFails, SetupKnown, SetupSucceeds, SetupOrphaned, Subscribe
  <2> QED BY <2>2, <2>4 DEF InFlight
<1>5. ASSUME InterfacesRemoved \/ ConnectivityReply \/ RemoveReply PROVE FALSE
  <2>1. inbox # <<>> /\ inbox' = Tail(inbox) /\ calls' = calls
    BY <1>5 DEF InterfacesRemoved, ConnectivityReply, RemoveReply, HandleReply
  <2> QED BY <2>1, TakeFlight
<1>6. ASSUME ServeCall \/ EndpointLost \/ UNCHANGED vars PROVE FALSE
  BY <1>6, MctpdInv
<1> QED BY <1>2, <1>3, <1>4, <1>5, <1>6, NoDiscoverySteps DEF Next, Disturb, HandleInbox

LEMMA ReactorInit ==
  ASSUME Init
  PROVE  FlightInv /\ OwnerInv /\ WaitingHasSetup
<1>1. InFlight = {} /\ SetupCalls = {} /\ SetupReplies = {}
  BY DEF Init, InFlight, SetupCalls, SetupReplies
<1>2. FlightInv /\ WaitingHasSetup
  BY <1>1 DEF Init, FlightInv, OneSetup, SetupIsAwaited, NoDiscovery, WaitingHasSetup
<1>3. OwnerInv
  BY DEF Init, OwnerInv, DeviceHeld, BareBefore, SetUp, OneOwner, AssociationIsTracked
<1> QED BY <1>2, <1>3

(* What the four theorems below share. *)
LEMMA ReactorInv ==
  ASSUME ~Discovery
  PROVE  Spec => [](TypeOK /\ FlightInv /\ OwnerInv)
<1>1. Init => FlightInv /\ OwnerInv
  BY ReactorInit
<1>2. TypeOK /\ FlightInv /\ OwnerInv /\ [Next]_vars => FlightInv' /\ OwnerInv'
  BY ReactorStep
<1> QED BY <1>1, <1>2, TypeCorrect, PTL DEF Spec

(* Where subscriptions do not fail, an item in a waiting state has a setup *)
(* under way: no reply, failure, withdrawal or publication leaves it       *)
(* waiting for nothing.                                                    *)
THEOREM WaitingIsAnswered ==
  ASSUME ~Discovery, ~Faults
  PROVE  Spec => []WaitingHasSetup
<1>1. Init => WaitingHasSetup
  BY ReactorInit
<1>2. TypeOK /\ FlightInv /\ OwnerInv /\ WaitingHasSetup /\ [Next]_vars => WaitingHasSetup'
  BY ReactorStep DEF StillAwaited
<1> QED BY <1>1, <1>2, ReactorInv, PTL DEF Spec

(* A hosted association is that of an endpoint whose removal will be       *)
(* noticed, also after a subscription failed.                              *)
THEOREM AssociationsAreOwned ==
  ASSUME ~Discovery
  PROVE  Spec => []AssociationIsTracked
<1>1. OwnerInv => AssociationIsTracked
  BY DEF OwnerInv
<1> QED BY <1>1, ReactorInv, PTL

(* An item that counts as set up has an endpoint and hosts its association.*)
THEOREM SetUpIsAssociated ==
  ASSUME ~Discovery
  PROVE  Spec => []AssignedIsAssociated
<1>1. OwnerInv => AssignedIsAssociated
  BY DEF OwnerInv, DeviceHeld, SetUp, AssociationIsTracked, AssignedIsAssociated
<1> QED BY <1>1, ReactorInv, PTL

(* No Remove is issued for a device whose setup is under way. *)
THEOREM NoRemoveDuringSetup ==
  ASSUME ~Discovery
  PROVE  Spec => RemoveNeverRacesSetup
<1>1. TypeOK /\ FlightInv /\ OwnerInv /\ [Next]_vars =>
        [\A c \in InFlight' \ InFlight : c.kind = "remove" => ~SetupUnderWay(c.dev)]_vars
  BY RemoveStep
<1> QED BY <1>1, ReactorInv, PTL DEF Spec, RemoveNeverRacesSetup

=============================================================================
