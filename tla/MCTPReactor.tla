----------------------------- MODULE MCTPReactor -----------------------------
(***************************************************************************)
(* The MCTP reactor (src/mctp/MCTPReactor.cpp, MCTPDeviceRepository.hpp,   *)
(* the device and endpoint objects of MCTPEndpoint.cpp): it keeps every    *)
(* MCTP device that Entity Manager publishes set up in mctpd, and hosts    *)
(* the association of each endpoint with its inventory item.               *)
(*                                                                         *)
(* The model follows ONE inventory item, its configuration and the one     *)
(* endpoint object path mctpd uses for it.  The reactor treats its items   *)
(* independently: everything it keeps is keyed by item, device or path.    *)
(* Over time the item is represented by several MCTPDevice objects (each   *)
(* publication makes one), each of which owns at most one MCTPEndpoint.    *)
(*                                                                         *)
(* mctpd is external.  It serves the calls of the reactor in order; its    *)
(* replies and signals reach the reactor in the order they were sent.  Of  *)
(* an InterfacesRemoved signal only what was matched when it was sent is   *)
(* delivered, and every match installed when it is handled sees it.        *)
(***************************************************************************)
EXTENDS Naturals, Sequences, FiniteSets

CONSTANTS Devices,      \* MCTPDevice objects (a freed one may be made again)
          Endpoints,    \* MCTPEndpoint objects (a freed one may be made again)
          NoDevice,     \* no device
          NoEndpoint,   \* no endpoint
          MaxCalls,     \* bound: another event happens while fewer calls and replies wait
          Discovery,    \* the bus owner sends DiscoveryNotify
          Faults        \* subscribe() may throw

ASSUME ReactorAssumption ==
    /\ NoDevice \notin Devices /\ NoEndpoint \notin Endpoints
    /\ MaxCalls \in Nat
    /\ Discovery \in BOOLEAN /\ Faults \in BOOLEAN

(* MCTPDeviceState; a device without an entry in `states' behaves like an  *)
(* Unmanaged one, operator[] and manageMCTPDevice insert it as such.       *)
States == {"Unmanaged", "Assigning", "Unassigned", "Assigned", "Quarantine", "Lost",
           "Recovering", "Recovered", "Removing", "Pending"}

(* Calls to mctpd: AssignEndpoint(Static), the endpoint's Remove, its Get  *)
(* of Connectivity, GetAll of the bridge interface, LearnEndpoint.  A      *)
(* Remove carries the device that waits for its reply (`then').            *)
Calls ==
    [kind : {"remove", "get"}, dev : Devices, ep : Endpoints, then : Devices \cup {NoDevice}]
      \cup [kind : {"setup", "bridge", "learn"}, dev : Devices, ep : {NoEndpoint},
            then : {NoDevice}]
Call(k, d, e, t) == [kind |-> k, dev |-> d, ep |-> e, then |-> t]

Outcomes == {"ok", "error", "new", "old", "gone"}
Removed == [kind |-> "removed"]     \* the InterfacesRemoved signal
Messages == {Removed} \cup [kind : {"reply"}, call : Calls, outcome : Outcomes]
Reply(c, o) == [kind |-> "reply", call |-> c, outcome |-> o]

VARIABLES
    present,    \* Entity Manager publishes the configuration
    state,      \* MCTPReactor::states of the item
    repo,       \* MCTPDeviceRepository: the device at the item's path
    endpoint,   \* [Devices -> Endpoints \cup {NoEndpoint}]: MCTPDDevice::endpoint, and removeMatch
    subscribed, \* endpoints whose notifyRemoved is set
    tracked,    \* trackedEndpointGenerations at the endpoint's path
    associated, \* the association is hosted
    failing,    \* devices with an entry in failureCounts
    scheduled,  \* devices with a DiscoveryNotify timer (discoveryNeeded)
    calls,      \* calls mctpd has not served
    inbox,      \* replies and signals the reactor has not handled
    published,  \* mctpd publishes the endpoint object
    crashed     \* an exception escaped to main()

reactor == <<state, repo, endpoint, subscribed, tracked, associated, failing, scheduled>>
vars == <<present, reactor, calls, inbox, published, crashed>>

TypeOK ==
    /\ present \in BOOLEAN
    /\ state \in States
    /\ repo \in Devices \cup {NoDevice}
    /\ endpoint \in [Devices -> Endpoints \cup {NoEndpoint}]
    /\ subscribed \in SUBSET Endpoints
    /\ tracked \in Endpoints \cup {NoEndpoint}
    /\ associated \in BOOLEAN
    /\ failing \in SUBSET Devices
    /\ scheduled \in SUBSET Devices
    /\ calls \in Seq(Calls)
    /\ inbox \in Seq(Messages)
    /\ published \in BOOLEAN
    /\ crashed \in BOOLEAN

Init ==
    /\ present = FALSE
    /\ state = "Unmanaged"
    /\ repo = NoDevice
    /\ endpoint = [d \in Devices |-> NoEndpoint]
    /\ subscribed = {}
    /\ tracked = NoEndpoint
    /\ associated = FALSE
    /\ failing = {}
    /\ scheduled = {}
    /\ calls = <<>>
    /\ inbox = <<>>
    /\ published \in BOOLEAN    \* mctpd may know the endpoint from an earlier reactor
    /\ crashed = FALSE

-----------------------------------------------------------------------------
(***************************************************************************)
(* Object lifetimes.  Callbacks hold their device weakly; the repository,  *)
(* failureCounts, the endpoint it refers to and a Remove under way keep it *)
(* alive.                                                                  *)
(***************************************************************************)
InFlight == {calls[i] : i \in DOMAIN calls}
              \cup {inbox[i].call : i \in {j \in DOMAIN inbox : inbox[j].kind = "reply"}}

Alive(d) ==
    \/ repo = d
    \/ d \in failing
    \/ endpoint[d] # NoEndpoint
    \/ \E c \in InFlight : c.kind = "remove" /\ (c.dev = d \/ c.then = d)

NewDevice(d) == ~Alive(d) /\ d \notin scheduled /\ \A c \in InFlight : c.dev # d
NewEndpoint(e) ==
    /\ \A d \in Devices : endpoint[d] # e
    /\ \A c \in InFlight : c.ep # e
    /\ tracked # e

-----------------------------------------------------------------------------
(* setupEndpoint() and MCTPDDevice::setup: ask mctpd to assign an EID. *)
Setup(d) == Call("setup", d, NoEndpoint, NoDevice)

(* terminate(): the device leaves the repository, failureCounts and states. *)
(* An unknown device makes MCTPDeviceRepository::remove throw.              *)
Terminate(d) ==
    /\ repo = d
    /\ repo' = NoDevice
    /\ state' = "Unmanaged"

(* The bound on what may be under way when something new happens. *)
Quiet == Len(calls) + Len(inbox) < MaxCalls

(* MCTPDDevice::remove: nothing is asked of mctpd without an endpoint. *)
RemoveUnchecked(d) == TRUE
HasEndpoint(d) == endpoint[d] # NoEndpoint

(***************************************************************************)
(* manageMCTPDevice: Entity Manager publishes the item, publishes it again *)
(* or changes one of its properties; d is the device made of it, which is  *)
(* forgotten in the states that keep the current one.                      *)
(***************************************************************************)
Manage ==
    /\ ~crashed /\ Quiet
    /\ present' = TRUE
    /\ \/ /\ state = "Unmanaged" /\ repo = NoDevice
          /\ \E d \in Devices :
               /\ NewDevice(d)
               /\ repo' = d
               /\ state' = "Assigning"
               /\ calls' = Append(calls, Setup(d))
          /\ UNCHANGED <<failing, scheduled>>
       \/ \* addDevice throws device_or_resource_busy, addInventory logs it
          /\ state \in {"Unmanaged", "Removing"} /\ repo # NoDevice
          /\ UNCHANGED <<state, repo, calls, failing, scheduled>>
       \/ /\ state \in {"Assigning", "Unassigned", "Lost", "Recovering", "Pending"}
          /\ UNCHANGED <<state, repo, calls, failing, scheduled>>
       \/ \* replace the device: terminate the current one and remove its endpoint
          /\ state = "Assigned" /\ repo # NoDevice
          /\ \E d \in Devices :
               /\ NewDevice(d)
               /\ repo' = d
               /\ \/ /\ HasEndpoint(repo)
                     /\ calls' = Append(calls, Call("remove", repo, endpoint[repo], d))
                     /\ state' = "Pending"
                  \/ /\ ~HasEndpoint(repo)
                     /\ UNCHANGED calls
                     /\ state' = "Unassigned"
          /\ failing' = failing \ {repo}
          /\ scheduled' = scheduled \ {repo}
       \/ /\ state = "Assigned" /\ repo = NoDevice
          /\ UNCHANGED <<state, repo, calls, failing, scheduled>>
       \/ /\ state = "Quarantine"
          /\ state' = "Assigning"
          /\ UNCHANGED <<repo, calls, failing, scheduled>>
       \/ /\ state = "Recovered"
          /\ state' = "Assigned"
          /\ UNCHANGED <<repo, calls, failing, scheduled>>
       \/ /\ state = "Removing" /\ repo = NoDevice
          /\ \E d \in Devices :
               /\ NewDevice(d)
               /\ repo' = d
          /\ state' = "Unassigned"
          /\ UNCHANGED <<calls, failing, scheduled>>
    /\ UNCHANGED <<endpoint, subscribed, tracked, associated, inbox, published, crashed>>

(***************************************************************************)
(* unmanageMCTPDevice: Entity Manager withdraws the item.                  *)
(***************************************************************************)
Unmanage ==
    /\ ~crashed /\ Quiet
    /\ present
    /\ present' = FALSE
    /\ \/ /\ \/ repo = NoDevice
             \/ state \in {"Unmanaged", "Quarantine", "Recovered", "Removing"}
          /\ UNCHANGED <<state, repo, calls, failing, scheduled>>
       \/ /\ repo # NoDevice /\ state \in {"Assigning", "Recovering"}
          /\ state' = "Quarantine"
          /\ UNCHANGED <<repo, calls, failing, scheduled>>
       \/ /\ repo # NoDevice /\ state \in {"Unassigned", "Lost"}
          /\ Terminate(repo)
          /\ failing' = failing \ {repo}
          /\ UNCHANGED <<calls, scheduled>>
       \/ /\ repo # NoDevice /\ state \in {"Assigned", "Pending"}
          /\ failing' = failing \ {repo}
          /\ scheduled' = scheduled \ {repo}
          /\ repo' = NoDevice
          /\ state' = "Removing"
          /\ calls' = IF HasEndpoint(repo)
                        THEN Append(calls, Call("remove", repo, endpoint[repo], NoDevice))
                        ELSE calls
    /\ UNCHANGED <<endpoint, subscribed, tracked, associated, inbox, published, crashed>>

(***************************************************************************)
(* tick(), every five seconds: retry what failed, recover what was lost.   *)
(***************************************************************************)
UnansweredToo == {"Unassigned", "Lost", "Assigning", "Recovering"}
OnlyUnassigned == {"Unassigned"}
Deferred == {"Unassigned", "Lost"}
Retries(s) == IF s = "Unassigned" THEN "Assigning" ELSE "Recovering"

Tick ==
    /\ ~crashed
    /\ repo # NoDevice /\ state \in Deferred
    /\ state' = Retries(state)
    /\ calls' = Append(calls, Setup(repo))
    /\ UNCHANGED <<present, repo, endpoint, subscribed, tracked, associated, failing,
                   scheduled, inbox, published, crashed>>

-----------------------------------------------------------------------------
(***************************************************************************)
(* The completion of a setup.  HandleReply(k) takes a reply to a call of   *)
(* kind k from the inbox.                                                  *)
(***************************************************************************)
HandleReply(k) ==
    /\ ~crashed
    /\ inbox # <<>> /\ Head(inbox).kind = "reply" /\ Head(inbox).call.kind = k
    /\ inbox' = Tail(inbox)
    /\ UNCHANGED <<present, published>>

(* The state after a failed setup; a Quarantine ends with its device. *)
StillAssigning(s) == IF s = "Recovering" THEN "Lost" ELSE s
AfterFailure(s) ==
    CASE s = "Assigning" -> "Unassigned"
      [] s = "Recovering" -> "Lost"
      [] OTHER -> s

(* setupEndpoint's callback, ec set: the failure is counted, after the device *)
(* may have been terminated.                                                  *)
SetupFails ==
    LET d == Head(inbox).call.dev IN
    /\ HandleReply("setup")
    /\ Head(inbox).outcome = "error"
    /\ \/ /\ ~Alive(d)
          /\ UNCHANGED <<state, repo, failing, crashed>>
       \/ /\ Alive(d) /\ state # "Quarantine"
          /\ state' = AfterFailure(state)
          /\ failing' = failing \cup {d}
          /\ UNCHANGED <<repo, crashed>>
       \/ /\ Alive(d) /\ state = "Quarantine"
          /\ Terminate(d)
          /\ failing' = failing \cup {d}
          /\ UNCHANGED crashed
       \/ \* terminate() of a device that left the repository throws
          /\ Alive(d) /\ state = "Quarantine" /\ repo # d
          /\ crashed' = TRUE
          /\ UNCHANGED <<state, repo, failing>>
    /\ UNCHANGED <<endpoint, subscribed, tracked, associated, scheduled, calls>>

(* The reply says the endpoint was known already (allocated is false) and  *)
(* the device has one: the callback gets no endpoint.                      *)
SetupKnown ==
    LET d == Head(inbox).call.dev IN
    /\ HandleReply("setup")
    /\ Head(inbox).outcome = "old" /\ endpoint[d] # NoEndpoint
    /\ failing' = failing \ {d}
    /\ UNCHANGED <<state, repo, endpoint, subscribed, tracked, associated, scheduled,
                   calls, crashed>>

(* trackEndpoint: the states whose endpoint is not tracked, and the state  *)
(* that follows the others.                                                *)
QuarantineIgnored == {"Unmanaged", "Lost", "Recovered", "Removing", "Pending", "Quarantine"}
Ignores == {"Unmanaged", "Lost", "Recovered", "Removing", "Pending"}
AfterSetup(s) ==
    IF s \in Ignores THEN s ELSE IF s = "Assigning" THEN "Assigned" ELSE "Recovered"

GenerationForgotten(e) == UNCHANGED tracked
TrackGeneration(e) == tracked' = e

(* MCTPDEndpoint::subscribe: set the callbacks, ask for the connectivity. *)
Subscribe(d, e) ==
    /\ subscribed' = (subscribed \ {endpoint[d]}) \cup {e}
    /\ calls' = Append(calls, Call("get", d, e, NoDevice))

(* finaliseEndpoint makes the device's endpoint, replacing the one it may  *)
(* have; trackEndpoint subscribes to it and hosts its association.         *)
SetupSucceeds ==
    LET d == Head(inbox).call.dev IN
    /\ HandleReply("setup")
    /\ Head(inbox).outcome \in {"new", "old"}
    /\ Head(inbox).outcome = "old" => endpoint[d] = NoEndpoint
    /\ Alive(d)
    /\ failing' = failing \ {d}
    /\ \E e \in Endpoints :
         /\ NewEndpoint(e)
         /\ endpoint' = [endpoint EXCEPT ![d] = e]
         /\ \/ /\ Subscribe(d, e)
               /\ state' = AfterSetup(state)
               /\ \/ /\ state \notin Ignores /\ repo = d
                     /\ associated' = TRUE
                     /\ TrackGeneration(e)
                  \/ /\ state \in Ignores \/ repo # d
                     /\ UNCHANGED <<associated, tracked>>
            \/ \* MCTPException
               /\ Faults
               /\ subscribed' = subscribed \ {endpoint[d]}
               /\ state' = "Quarantine"
               /\ UNCHANGED <<associated, tracked, calls>>
    /\ UNCHANGED <<repo, scheduled, crashed>>

SetupOrphaned ==
    /\ HandleReply("setup")
    /\ Head(inbox).outcome # "error" /\ ~Alive(Head(inbox).call.dev)
    /\ UNCHANGED <<reactor, calls, crashed>>

-----------------------------------------------------------------------------
(***************************************************************************)
(* The removal of endpoints: endpointRemoved() of every device in ds, all  *)
(* of which have an endpoint.  The callback set by trackEndpoint acts only *)
(* for the endpoint that is tracked, of which there is at most one.        *)
(***************************************************************************)
AnyGeneration(e) == TRUE
CurrentGeneration(e) == tracked = e

NotifyRemoved(d) ==
    \/ /\ repo = d /\ state \in {"Assigned", "Recovered"}
       /\ state' = "Lost"
       /\ UNCHANGED <<repo, failing>>
    \/ /\ repo = d /\ state = "Pending"
       /\ state' = "Unassigned"
       /\ UNCHANGED <<repo, failing>>
    \/ /\ state \in {"Quarantine", "Removing"}
       /\ Terminate(d)
       /\ failing' = failing \ {d}
    \/ /\ repo # d \/ state \in {"Unmanaged", "Assigning", "Unassigned", "Lost", "Recovering"}
       /\ UNCHANGED <<state, repo, failing>>

StillAssociated == tracked' = NoEndpoint /\ UNCHANGED associated
Disassociate == tracked' = NoEndpoint /\ associated' = FALSE

EndpointsRemoved(ds) ==
    LET es == {endpoint[d] : d \in ds} IN
    /\ endpoint' = [d \in Devices |-> IF d \in ds THEN NoEndpoint ELSE endpoint[d]]
    /\ subscribed' = subscribed \ es
    /\ \/ \E d \in ds :
            /\ endpoint[d] \in subscribed /\ CurrentGeneration(endpoint[d])
            /\ Disassociate
            /\ NotifyRemoved(d)
       \/ /\ \A d \in ds : endpoint[d] \in subscribed => ~CurrentGeneration(endpoint[d])
          /\ UNCHANGED <<tracked, associated, state, repo, failing>>

Matched == {d \in Devices : endpoint[d] # NoEndpoint}

InterfacesRemoved ==
    /\ ~crashed
    /\ inbox # <<>> /\ Head(inbox) = Removed
    /\ inbox' = Tail(inbox)
    /\ EndpointsRemoved(Matched)
    /\ UNCHANGED <<present, scheduled, calls, published, crashed>>

(* onConnectivityReply: an endpoint that mctpd no longer has is removed. *)
ConnectivityReply ==
    LET c == Head(inbox).call IN
    /\ HandleReply("get")
    /\ \/ /\ Head(inbox).outcome = "gone" /\ endpoint[c.dev] = c.ep
          /\ EndpointsRemoved({c.dev})
       \/ /\ Head(inbox).outcome # "gone" \/ endpoint[c.dev] # c.ep
          /\ UNCHANGED <<state, repo, endpoint, subscribed, tracked, associated, failing>>
    /\ UNCHANGED <<scheduled, calls, crashed>>

(* The callback manageMCTPDevice gave to remove(). *)
RemoveReply ==
    LET d == Head(inbox).call.then IN
    /\ HandleReply("remove")
    /\ state' = IF d # NoDevice /\ repo = d /\ state = "Pending" THEN "Unassigned" ELSE state
    /\ UNCHANGED <<repo, endpoint, subscribed, tracked, associated, failing, scheduled,
                   calls, crashed>>

-----------------------------------------------------------------------------
(***************************************************************************)
(* DiscoveryNotify.  Its match lives as long as the device object.  (The   *)
(* health check of a device without endpoint asks for a setup in the same  *)
(* way.)                                                                   *)
(***************************************************************************)
OnDiscoveryNotify(d) ==
    /\ Discovery /\ ~crashed /\ Quiet
    /\ Alive(d)
    /\ \/ /\ endpoint[d] = NoEndpoint
          /\ calls' = Append(calls, Setup(d))
          /\ UNCHANGED scheduled
       \/ /\ endpoint[d] # NoEndpoint /\ d \notin scheduled
          /\ scheduled' = scheduled \cup {d}
          /\ UNCHANGED calls
    /\ UNCHANGED <<present, state, repo, endpoint, subscribed, tracked, associated, failing,
                   inbox, published, crashed>>

(* The timer of onDiscoveryNotify and performDiscovery. *)
PerformDiscovery(d) ==
    /\ ~crashed /\ Quiet
    /\ d \in scheduled
    /\ scheduled' = scheduled \ {d}
    /\ calls' = IF ~Alive(d) THEN calls
                ELSE IF endpoint[d] = NoEndpoint THEN Append(calls, Setup(d))
                ELSE Append(calls, Call("bridge", d, NoEndpoint, NoDevice))
    /\ UNCHANGED <<present, state, repo, endpoint, subscribed, tracked, associated, failing,
                   inbox, published, crashed>>

(* hasBridgeInterface's callback; a bridge ("old") gets GetRoutingTable,   *)
(* whose reply changes nothing.                                            *)
BridgeReply ==
    LET d == Head(inbox).call.dev IN
    /\ HandleReply("bridge")
    /\ \/ /\ Alive(d) /\ Head(inbox).outcome \in {"ok", "old"} /\ endpoint[d] = NoEndpoint
          /\ calls' = Append(calls, Setup(d))
       \/ /\ Alive(d) /\ Head(inbox).outcome = "ok" /\ endpoint[d] # NoEndpoint
          /\ calls' = Append(calls, Call("learn", d, NoEndpoint, NoDevice))
       \/ /\ \/ ~Alive(d) \/ Head(inbox).outcome = "error"
             \/ Head(inbox).outcome = "old" /\ endpoint[d] # NoEndpoint
          /\ UNCHANGED calls
    /\ UNCHANGED <<reactor, crashed>>

LearnReply ==
    LET d == Head(inbox).call.dev IN
    /\ HandleReply("learn")
    /\ \/ /\ Alive(d) /\ Head(inbox).outcome = "gone"
          /\ calls' = Append(calls, Setup(d))
          /\ IF endpoint[d] # NoEndpoint
               THEN EndpointsRemoved({d})
               ELSE UNCHANGED <<state, repo, endpoint, subscribed, tracked, associated, failing>>
       \/ /\ ~Alive(d) \/ Head(inbox).outcome # "gone"
          /\ UNCHANGED <<state, repo, endpoint, subscribed, tracked, associated, failing, calls>>
    /\ UNCHANGED <<scheduled, crashed>>

-----------------------------------------------------------------------------
(***************************************************************************)
(* mctpd.  Withdrawing the endpoint object signals InterfacesRemoved,      *)
(* which reaches the reactor only if a removeMatch is installed.           *)
(***************************************************************************)
Signal(ms) == IF Matched # {} THEN <<Removed>> \o ms ELSE ms

Serve(k) ==
    /\ ~crashed
    /\ calls # <<>> /\ Head(calls).kind = k
    /\ calls' = Tail(calls)
    /\ UNCHANGED <<present, reactor, crashed>>

(* AssignEndpoint and AssignEndpointStatic return an endpoint they know,   *)
(* or else publish a new one.                                              *)
ServeSetup ==
    /\ Serve("setup")
    /\ published' = TRUE
    /\ inbox' = Append(inbox, Reply(Head(calls), IF published THEN "old" ELSE "new"))

(* The device does not answer; or it does after the call timed out. *)
ServeSetupFailing ==
    /\ Serve("setup")
    /\ published' \in {published, TRUE}
    /\ inbox' = Append(inbox, Reply(Head(calls), "error"))

ServeRemove ==
    /\ Serve("remove")
    /\ \/ /\ published
          /\ published' = FALSE
          /\ inbox' = inbox \o Signal(<<Reply(Head(calls), "ok")>>)
       \/ /\ published' = published
          /\ inbox' = Append(inbox, Reply(Head(calls), "error"))

ServeGet ==
    /\ Serve("get")
    /\ inbox' = Append(inbox, Reply(Head(calls), IF published THEN "ok" ELSE "gone"))
    /\ UNCHANGED published

ServeBridge ==
    /\ Serve("bridge")
    /\ \E o \in IF published THEN {"ok", "old"} ELSE {"error"} :
         inbox' = Append(inbox, Reply(Head(calls), o))
    /\ UNCHANGED published

(* LearnEndpoint withdraws an endpoint whose device was reset. *)
ServeLearn ==
    /\ Serve("learn")
    /\ \/ /\ published' = published
          /\ inbox' = Append(inbox, Reply(Head(calls), IF published THEN "ok" ELSE "error"))
       \/ /\ published
          /\ published' = FALSE
          /\ inbox' = inbox \o Signal(<<Reply(Head(calls), "gone")>>)

(* mctpd gives an endpoint up of its own accord. *)
EndpointLost ==
    /\ ~crashed /\ Quiet
    /\ published
    /\ published' = FALSE
    /\ inbox' = inbox \o Signal(<<>>)
    /\ UNCHANGED <<present, reactor, calls, crashed>>

-----------------------------------------------------------------------------
HandleInbox ==
    \/ SetupFails \/ SetupKnown \/ SetupSucceeds \/ SetupOrphaned
    \/ InterfacesRemoved \/ ConnectivityReply \/ RemoveReply
    \/ BridgeReply \/ LearnReply

ServeCall ==
    \/ ServeSetup \/ ServeSetupFailing \/ ServeRemove \/ ServeGet
    \/ ServeBridge \/ ServeLearn

(* What disturbs the system from outside. *)
Disturb ==
    \/ Manage \/ Unmanage \/ EndpointLost
    \/ \E d \in Devices : OnDiscoveryNotify(d)

Next ==
    \/ Disturb
    \/ Tick
    \/ \E d \in Devices : PerformDiscovery(d)
    \/ HandleInbox
    \/ ServeCall

Spec == Init /\ [][Next]_vars

(***************************************************************************)
(* The event loop handles what arrives, the tick timer keeps ticking and   *)
(* mctpd serves its calls; a setup that is tried for ever succeeds.        *)
(***************************************************************************)
Fairness ==
    /\ WF_vars(HandleInbox)
    /\ WF_vars(ServeCall)
    /\ SF_vars(ServeSetup)
    /\ WF_vars(Tick)
    /\ \A d \in Devices : WF_vars(PerformDiscovery(d))

FairSpec == Spec /\ Fairness
-----------------------------------------------------------------------------
(***************************************************************************)
(* Properties.                                                             *)
(***************************************************************************)

(* MCTPReactor.hpp: Assigning, Recovering and Quarantine mean that a setup *)
(* was issued and its response is awaited.  One is indeed under way.       *)
SetupUnderWay(d) == \E c \in InFlight : c.kind = "setup" /\ c.dev = d
WaitingHasSetup ==
    state \in {"Assigning", "Recovering", "Quarantine"} =>
        repo # NoDevice /\ SetupUnderWay(repo)

(* The association is hosted exactly while an endpoint is tracked, and a   *)
(* tracked endpoint is the current one of some device: its removal will be *)
(* noticed.                                                                *)
AssociationIsTracked ==
    /\ associated <=> tracked # NoEndpoint
    /\ associated => \E d \in Devices : endpoint[d] = tracked /\ tracked \in subscribed

(* A device that the reactor holds to be set up has an endpoint, whose     *)
(* association is hosted.                                                  *)
AssignedIsAssociated ==
    state \in {"Assigned", "Recovered"} =>
        repo # NoDevice /\ endpoint[repo] # NoEndpoint /\ associated

(* A Remove is never issued for a device whose setup is under way: mctpd    *)
(* would publish the endpoint again right after removing it.                *)
RemoveNeverRacesSetup ==
    [][\A c \in InFlight' \ InFlight : c.kind = "remove" => ~SetupUnderWay(c.dev)]_vars

(* An item that is lost, or being recovered, hosts no association: nobody   *)
(* finds the inventory of an endpoint that is known to be gone.             *)
LostIsBare == state \in {"Lost", "Recovering"} => ~associated

(* Once inventory, bus and endpoint stay as they are, an item that is      *)
(* present is set up and associated for good.                              *)
PresentIsAssociated ==
    <>[][~Disturb]_vars => <>[](present => associated)

(* ... and one that was withdrawn is no longer managed, unless its device   *)
(* was recovered meanwhile, which insulates it: it then is associated.      *)
AbsentIsReleased ==
    <>[][~Disturb]_vars =>
        <>[](~present /\ repo # NoDevice => state = "Recovered" /\ associated)
=============================================================================
