----------------------------- MODULE MctpHealth -----------------------------
(***************************************************************************)
(* How an MCTPDDevice watches its endpoint (src/src/mctp/MCTPEndpoint.cpp).*)
(* A timer pings the endpoint, and one that its bridge serves, without     *)
(* waiting for the answers to the last pings.  After a number of failures  *)
(* the device asks mctpd to recover the endpoint, stops its timer, and     *)
(* sets another in case nothing comes of it.  mctpd then degrades the      *)
(* endpoint, and makes it available or removes it; the reactor sets one    *)
(* that was removed up again.                                              *)
(***************************************************************************)
EXTENDS Naturals, Sequences

CONSTANTS
    PingThreshold,      \* pingFailureThreshold
    MaxPings,           \* bound: health checks whose pings are under way
    MaxHealthEvents     \* bound: devices that change, refusals, signals of others

HealthAssumption ==
    PingThreshold \in Nat \ {0, 1} /\ MaxPings \in Nat \ {0} /\ MaxHealthEvents \in Nat

VARIABLES
    bridge,             \* what is configured: "none", a "pool" or an "indeterministic" one
    responds,           \* the EIDs that answer
    link,               \* mctpd's object: "none", "Available" or "Degraded"
    established,        \* the device has an endpoint
    inRecovery,         \* inHealthRecoveryMode
    failures,           \* consecutivePingFailures, bridgePoolPingFailures
    discovered,         \* discoveredMctpEids
    unresponsive,       \* unresponsiveBridgePoolEids
    discoveryNeeded,
    healthTimer, recoveryTimer,     \* armed or not, and handlers queued
    pings,              \* the EIDs pinged, without answer yet
    requests,           \* other calls of mctpd under way, in their order
    suppressed,         \* suppressedHealthCheckEids: the main endpoint's
    logged,             \* history: transport errors logged since the endpoint was well
    overtaken,          \* history: two pings of the endpoint were under way since then
    unwatched,          \* history: an answer ended a recovery whose timer then does nothing
    healthEvents

healthVars == <<bridge, responds, link, established, inRecovery, failures, discovered,
                unresponsive, discoveryNeeded, healthTimer, recoveryTimer, pings, requests,
                suppressed, logged, overtaken, unwatched, healthEvents>>

world == <<bridge, responds, link>>
pool == <<unresponsive, discoveryNeeded>>
history == <<logged, overtaken, unwatched>>

Eids == {"main", "pool"}        \* the static EID, and one of the bridge's pool
Idle == [armed |-> FALSE, queued |-> FALSE]

Armed(t) == [t EXCEPT !.armed = TRUE]
Pending(t) == t.armed \/ t.queued
Cancelled(t) == [t EXCEPT !.armed = FALSE]      \* a queued handler runs all the same

StartWith(b) ==
    /\ bridge = b /\ responds = Eids /\ link = "none" /\ established = FALSE /\ inRecovery = FALSE
    /\ failures = [e \in Eids |-> 0] /\ discovered = {}
    /\ unresponsive = IF b = "none" THEN {} ELSE {"pool"}
    /\ discoveryNeeded = FALSE /\ healthTimer = Idle /\ recoveryTimer = Idle
    /\ pings = <<>> /\ requests = <<>> /\ suppressed = FALSE
    /\ logged = 0 /\ overtaken = FALSE /\ unwatched = FALSE
    /\ healthEvents = IF b = "none" THEN 0 ELSE 1

\* A call that is under way is not told from one more of its kind.
Asked(r) ==
    IF \E i \in DOMAIN requests : requests[i] = r THEN requests ELSE Append(requests, r)

Start == StartWith("none")
Init == \E b \in {"none", "pool", "indeterministic"} : StartWith(b)

-----------------------------------------------------------------------------
PingUnderWay == \E i \in DOMAIN pings : pings[i] = "main"

(* onEndpointEstablished and startHealthMonitoring. *)
EndpointEstablished ==
    /\ inRecovery' = FALSE
    /\ recoveryTimer' = Cancelled(recoveryTimer)
    /\ failures' = [failures EXCEPT !["main"] = 0]
    /\ healthTimer' = Armed(healthTimer)
    /\ logged' = 0 /\ overtaken' = PingUnderWay /\ unwatched' = FALSE

(* endpointRemoved. *)
EndpointRemoved ==
    /\ recoveryTimer' = IF inRecovery THEN recoveryTimer ELSE Cancelled(recoveryTimer)
    /\ discovered' = {}
    /\ failures' = [failures EXCEPT !["pool"] = 0]
    /\ established' = FALSE

\* Handlers that are queued run before a timer of a second or more expires again.
Queued == [armed |-> FALSE, queued |-> TRUE]

HealthTimerExpires ==
    /\ healthTimer.armed /\ ~healthTimer.queued /\ ~recoveryTimer.queued
    /\ healthTimer' = Queued
    /\ UNCHANGED <<world, established, inRecovery, failures, discovered, pool, recoveryTimer,
                   pings, requests, suppressed, history, healthEvents>>

RecoveryTimerExpires ==
    /\ recoveryTimer.armed /\ ~recoveryTimer.queued
    /\ recoveryTimer' = Queued
    /\ UNCHANGED <<world, established, inRecovery, failures, discovered, pool, healthTimer,
                   pings, requests, suppressed, history, healthEvents>>

(* The ping that may reach the threshold is the one whose errors count. *)
Counts(n) == n = PingThreshold - 1

(* The EIDs that are pinged: those of an indeterministic pool once they    *)
(* are discovered.                                                         *)
Pinged ==
    IF bridge = "pool" \/ (bridge = "indeterministic" /\ "pool" \in discovered)
    THEN <<"main", "pool">> ELSE <<"main">>

PerformHealthCheck ==
    /\ healthTimer.queued /\ Len(pings) <= IF bridge = "none" THEN MaxPings - 1 ELSE MaxPings
    /\ healthTimer' = [armed |-> TRUE, queued |-> FALSE]
    /\ suppressed' = ~Counts(failures["main"])
    /\ pings' = pings \o Pinged
    /\ overtaken' = (overtaken \/ PingUnderWay)
    /\ UNCHANGED <<world, established, inRecovery, failures, discovered, pool, recoveryTimer,
                   requests, logged, unwatched, healthEvents>>

(* onRecoveryTimeout: without endpoint the device stays in recovery, and   *)
(* is pinged until it answers.                                             *)
RecoveryTimeout ==
    /\ recoveryTimer.queued
    /\ recoveryTimer' = [recoveryTimer EXCEPT !.queued = FALSE]
    /\ inRecovery' = (inRecovery /\ ~established)
    /\ healthTimer' = IF inRecovery THEN Armed(healthTimer) ELSE healthTimer
    /\ UNCHANGED <<world, established, failures, discovered, pool, pings, requests, suppressed,
                   history, healthEvents>>

-----------------------------------------------------------------------------
(* The answers to pings, in their order: those of one EID do not meet      *)
(* those of the other.  An EID that has not been seen is not recovered.  *)
(* A count beyond the threshold is not told apart from one that reached it.*)
Answered(e) ==
    /\ pings # <<>> /\ Head(pings) = e
    /\ pings' = Tail(pings)

AtLeast(n) == IF n < PingThreshold THEN n + 1 ELSE n

RecoverEndpoint ==
    /\ inRecovery' = TRUE
    /\ healthTimer' = Cancelled(healthTimer)
    /\ recoveryTimer' = Armed(recoveryTimer)
    /\ requests' = Asked("recover")
    /\ suppressed' = TRUE

(* handleTransportErrorSignal: mctpd tells the error of a ping before it   *)
(* answers it.  Only those of an endpoint that is there are counted.       *)
TransportErrors == IF suppressed \/ ~established \/ logged = 2 THEN logged ELSE logged + 1

PingFails ==
    /\ Answered("main")
    /\ failures' = IF inRecovery \/ ~established THEN failures
                   ELSE [failures EXCEPT !["main"] = AtLeast(@)]
    /\ \/ /\ ~inRecovery /\ established
          /\ failures'["main"] = PingThreshold /\ "main" \in discovered
          /\ RecoverEndpoint
       \/ /\ \/ inRecovery \/ ~established
             \/ failures'["main"] < PingThreshold \/ "main" \notin discovered
          /\ UNCHANGED <<inRecovery, healthTimer, recoveryTimer, requests, suppressed>>
    /\ logged' = TransportErrors
    /\ UNCHANGED <<world, established, discovered, pool, overtaken, unwatched>>

PingSucceeds ==
    /\ Answered("main")
    /\ failures' = [failures EXCEPT !["main"] = 0]
    /\ suppressed' = FALSE
    /\ inRecovery' = (inRecovery /\ ~established)
    /\ requests' = IF inRecovery /\ ~established THEN Asked("setup") ELSE requests
    /\ logged' = 0
    /\ unwatched' = (unwatched \/ (inRecovery /\ established /\ ~Pending(healthTimer)))
    /\ UNCHANGED <<world, established, discovered, pool, healthTimer, recoveryTimer, overtaken>>

PoolPingFails ==
    LET n == failures["pool"] IN
    /\ Answered("pool")
    /\ \/ /\ "pool" \notin unresponsive \/ n < PingThreshold
          /\ failures' = [failures EXCEPT !["pool"] = AtLeast(@)]
          /\ IF AtLeast(n) = PingThreshold
               THEN /\ unresponsive' = {"pool"}
                    /\ requests' = IF "pool" \in discovered THEN Asked("recoverPool")
                                   ELSE requests
               ELSE UNCHANGED <<unresponsive, requests>>
       \/ /\ "pool" \in unresponsive /\ n = PingThreshold
          /\ UNCHANGED <<failures, unresponsive, requests>>
    /\ UNCHANGED <<world, established, inRecovery, discovered, discoveryNeeded, healthTimer,
                   recoveryTimer, suppressed, history>>

PoolPingSucceeds ==
    LET learn == ~discoveryNeeded /\ "pool" \in unresponsive IN
    /\ Answered("pool")
    /\ failures' = [failures EXCEPT !["pool"] = 0]
    /\ unresponsive' = IF learn THEN {} ELSE unresponsive
    /\ requests' = IF learn THEN Asked("learn") ELSE requests
    /\ UNCHANGED <<world, established, inRecovery, discovered, discoveryNeeded, healthTimer,
                   recoveryTimer, suppressed, history>>

\* A bounded number of pings goes astray, or was answered before the device changed.
Disturbs == healthEvents < MaxHealthEvents /\ healthEvents' = healthEvents + 1

PingReply ==
    \/ "main" \notin responds /\ PingFails /\ UNCHANGED healthEvents
    \/ "main" \in responds /\ PingSucceeds /\ UNCHANGED healthEvents
    \/ "pool" \notin responds /\ PoolPingFails /\ UNCHANGED healthEvents
    \/ "pool" \in responds /\ PoolPingSucceeds /\ UNCHANGED healthEvents

StrayReply ==
    /\ Disturbs
    /\ \/ "main" \in responds /\ PingFails
       \/ "main" \notin responds /\ PingSucceeds
       \/ "pool" \in responds /\ PoolPingFails
       \/ "pool" \notin responds /\ PoolPingSucceeds

-----------------------------------------------------------------------------
(* MCTPDEndpoint::updateEndpointConnectivity. *)
Degraded ==
    /\ link' = "Degraded"
    /\ healthTimer' = Cancelled(healthTimer)
    /\ UNCHANGED <<bridge, responds, established, inRecovery, failures, discovered, pool,
                   recoveryTimer, pings, suppressed, history>>

Available ==
    /\ link = "Degraded" /\ "main" \in responds
    /\ link' = "Available"
    /\ EndpointEstablished
    /\ UNCHANGED <<bridge, responds, established, discovered, pool, pings, requests, suppressed,
                   healthEvents>>

(* mctpd gives the endpoint up, with the pool behind it. *)
EndpointLost ==
    /\ link = "Degraded" /\ "main" \notin responds
    /\ link' = "none"
    /\ EndpointRemoved
    /\ UNCHANGED <<bridge, responds, inRecovery, pool, healthTimer, pings, requests, suppressed,
                   history, healthEvents>>

(* The reactor's tick: it tries to set up an endpoint that is lost. *)
Tick ==
    /\ ~established
    /\ requests' = Asked("setup") /\ requests' # requests
    /\ UNCHANGED <<world, established, inRecovery, failures, discovered, pool, healthTimer,
                   recoveryTimer, pings, suppressed, history, healthEvents>>

Served(r) == requests # <<>> /\ Head(requests) = r /\ requests' = Tail(requests)

Unserved ==
    UNCHANGED <<world, established, inRecovery, failures, discovered, pool, healthTimer,
                recoveryTimer, pings, suppressed, history>>

(* setup and finaliseEndpoint. *)
SetupServed ==
    /\ Served("setup")
    /\ IF "main" \in responds /\ ~established
         THEN /\ link' = "Available" /\ established' = TRUE
              /\ discovered' = discovered \cup {"main"}
              /\ EndpointEstablished
              /\ UNCHANGED <<bridge, responds, pool, pings, suppressed>>
         ELSE Unserved
    /\ UNCHANGED healthEvents

(* mctpd tries to reach the endpoint again, or refuses to. *)
RecoverServed ==
    /\ Served("recover")
    /\ \/ link = "Available" /\ Degraded /\ UNCHANGED healthEvents
       \/ link # "Available" /\ Unserved /\ UNCHANGED healthEvents
       \/ Disturbs /\ Unserved

RecoverPoolServed == Served("recoverPool") /\ Unserved /\ UNCHANGED healthEvents

(* The endpoint is published (markDiscoveredMctpEid), or it is to be       *)
(* learned again when it answers.                                          *)
LearnServed ==
    /\ Served("learn")
    /\ IF link = "Available" /\ "pool" \in responds
         THEN discovered' = discovered \cup {"pool"} /\ UNCHANGED unresponsive
         ELSE unresponsive' = {"pool"} /\ UNCHANGED discovered
    /\ UNCHANGED <<world, established, inRecovery, failures, discoveryNeeded, healthTimer,
                   recoveryTimer, pings, suppressed, history, healthEvents>>

(* The timer of a DiscoveryNotify that came. *)
DiscoveryTimeout ==
    /\ discoveryNeeded
    /\ discoveryNeeded' = FALSE
    /\ UNCHANGED <<world, established, inRecovery, failures, discovered, unresponsive, healthTimer,
                   recoveryTimer, pings, requests, suppressed, history, healthEvents>>

(* Devices stop answering and answer again; another daemon asks for a      *)
(* recovery; the bridge asks to be discovered.                             *)
Disturb ==
    /\ Disturbs
    /\ \/ /\ \E e \in Eids :
               responds' = IF e \in responds THEN responds \ {e} ELSE responds \cup {e}
          /\ UNCHANGED <<bridge, link, established, inRecovery, failures, discovered, pool,
                         healthTimer, recoveryTimer, pings, requests, suppressed, history>>
       \/ link = "Available" /\ Degraded /\ UNCHANGED requests
       \/ /\ bridge # "none" /\ established /\ ~discoveryNeeded /\ discoveryNeeded' = TRUE
          /\ UNCHANGED <<world, established, inRecovery, failures, discovered, unresponsive,
                         healthTimer, recoveryTimer, pings, requests, suppressed, history>>

Serves == SetupServed \/ RecoverServed \/ RecoverPoolServed \/ LearnServed

Next ==
    \/ HealthTimerExpires \/ RecoveryTimerExpires \/ PerformHealthCheck \/ RecoveryTimeout
    \/ PingReply \/ StrayReply \/ Available \/ EndpointLost
    \/ Tick \/ Serves \/ DiscoveryTimeout \/ Disturb

\* Time passes, handlers run, mctpd answers and makes up its mind.
Proceeds(k) ==
    \/ k = 1 /\ (HealthTimerExpires \/ PerformHealthCheck \/ RecoveryTimeout)
    \/ k = 2 /\ (RecoveryTimerExpires \/ DiscoveryTimeout)
    \/ k = 3 /\ PingReply
    \/ k = 4 /\ (Available \/ EndpointLost)
    \/ k = 5 /\ (Tick \/ Serves)
Fairness == \A k \in 1 .. 5 : WF_healthVars(Proceeds(k))

Spec == Init /\ [][Next]_healthVars /\ Fairness

-----------------------------------------------------------------------------
TypeOK ==
    /\ bridge \in {"none", "pool", "indeterministic"} /\ responds \subseteq Eids
    /\ link \in {"none", "Available", "Degraded"}
    /\ established \in BOOLEAN /\ inRecovery \in BOOLEAN /\ discoveryNeeded \in BOOLEAN
    /\ failures \in [Eids -> 0 .. PingThreshold]
    /\ discovered \subseteq Eids /\ unresponsive \subseteq {"pool"}
    /\ {healthTimer, recoveryTimer} \subseteq [armed : BOOLEAN, queued : BOOLEAN]
    /\ pings \in Seq(Eids) /\ Len(pings) <= 2 * MaxPings
    /\ requests \in Seq({"setup", "recover", "recoverPool", "learn"}) /\ Len(requests) <= 4
    /\ {suppressed, overtaken, unwatched} \subseteq BOOLEAN /\ logged \in 0 .. 2

(* An endpoint is pinged, or recovers and will be pinged again.            *)
IsWatched ==
    established =>
        \/ Pending(healthTimer)
        \/ inRecovery /\ Pending(recoveryTimer)
        \/ link = "Degraded"
        \/ unwatched

(* MCTPEndpoint.cpp:621: the threshold ping alone is left unsuppressed, so *)
(* an outage makes one log entry.                                          *)
OneLog == overtaken \/ logged < 2

(* What stays as it is is known: an endpoint that answers is there, an     *)
(* endpoint that does not is not.                                          *)
Settled ==
    \/ unwatched
    \/ IF "main" \in responds
         THEN /\ established /\ link = "Available" /\ ~inRecovery /\ failures["main"] = 0
              /\ "pool" \in responds => unresponsive = {} \/ bridge = "indeterministic"
         ELSE ~established
Settles == <>[]Settled
=============================================================================
