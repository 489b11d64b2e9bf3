----------------------------- MODULE PortForward -----------------------------
(***************************************************************************)
(* The OpenOCD port forwarder (src/src/OpenOCDPortForwardMain.cpp): while  *)
(* Enabled is set, a listener on each port accepts clients, and a session  *)
(* carries the bytes of each to the remote host and back.                  *)
(***************************************************************************)
EXTENDS Naturals, FiniteSets

CONSTANTS
    ForwardedPorts,     \* the number of ports, taken in order
    MaxSessions,        \* maxAcceptedSessions
    MaxForwardEvents    \* bound: clients, settings, changes of the ports other programs take

ForwardAssumption ==
    ForwardedPorts \in Nat \ {0} /\ MaxSessions \in Nat \ {0} /\ MaxForwardEvents \in Nat

VARIABLES
    enabled,            \* the property
    taken,              \* ports another program listens on
    listeners,          \* ports of the service's listeners
    forgotten,          \* ports whose listeners accept, though the service has let go of them
    acceptQueued,       \* ports with the handler of an accept that ended well queued
    sessions,           \* the sessions tracked: where they are, and of which port
    sessionIds,         \* sessions made
    lateSessions,       \* history: sessions accepted before their listener was stopped
    forwardEvents

forwardVars == <<enabled, taken, listeners, forgotten, acceptQueued, sessions, sessionIds,
                 lateSessions, forwardEvents>>

Ports == 1..ForwardedPorts

\* applyEnabled(false) in the constructor.
Start ==
    /\ enabled = FALSE /\ taken = {} /\ listeners = {} /\ forgotten = {}
    /\ acceptQueued = {} /\ sessions = {} /\ sessionIds = 0
    /\ lateSessions = {} /\ forwardEvents = 0

Init == Start

Event == forwardEvents < MaxForwardEvents /\ forwardEvents' = forwardEvents + 1

-----------------------------------------------------------------------------
\* An address a listener has cannot be bound again, SO_REUSEADDR or not.
Busy(p) == p \in taken \cup listeners \cup forgotten

\* stopForwarding: the sessions stop too, by removing themselves.
StopForwarding == listeners' = {} /\ sessions' = {}

\* startForwarding: when a port cannot be bound, the listeners already started are not among
\* those stopForwarding stops, and live on by the accept they wait for.
StartForwarding ==
    LET failing == {p \in Ports : Busy(p)} IN
    IF failing = {}
    THEN listeners' = Ports /\ enabled' = TRUE /\ UNCHANGED <<forgotten, sessions>>
    ELSE /\ forgotten' = forgotten \cup {p \in Ports : \A q \in failing : p < q}
         /\ StopForwarding /\ UNCHANGED enabled

\* onEnabledSet; what is set already is left alone.
SetEnabled(requested) ==
    /\ Event /\ requested # enabled
    /\ IF requested THEN StartForwarding
       ELSE StopForwarding /\ enabled' = FALSE /\ UNCHANGED forgotten
    /\ UNCHANGED <<taken, acceptQueued, sessionIds, lateSessions>>

-----------------------------------------------------------------------------
\* A client connects, and the handler of the accept is queued; one accept at a time.
ClientConnects(p) ==
    /\ Event /\ p \in (listeners \cup forgotten) \ acceptQueued
    /\ acceptQueued' = acceptQueued \cup {p}
    /\ UNCHANGED <<enabled, taken, listeners, forgotten, sessions, sessionIds, lateSessions>>

CanAcceptNewSession == Cardinality(sessions) < MaxSessions

\* onAccept: the next accept waits if the listener was not stopped meanwhile.  ProxySession::start
\* tracks the session, which stops when the remote host's name is not found.
OnAccept(p) ==
    /\ p \in acceptQueued /\ acceptQueued' = acceptQueued \ {p}
    /\ IF CanAcceptNewSession
       THEN /\ sessionIds' = sessionIds + 1
            /\ \/ sessions' = sessions \cup {[id |-> sessionIds + 1, at |-> "connecting", port |-> p]}
               \/ UNCHANGED sessions
            /\ lateSessions' = IF p \in listeners \cup forgotten THEN lateSessions
                               ELSE lateSessions \cup {sessionIds + 1}
       ELSE UNCHANGED <<sessions, sessionIds, lateSessions>>
    /\ UNCHANGED <<enabled, taken, listeners, forgotten, forwardEvents>>

\* onRemoteConnect: both directions are read from now on.
RemoteConnected(s) ==
    /\ s.at = "connecting"
    /\ sessions' = (sessions \ {s}) \cup {[s EXCEPT !.at = "carrying"]}
    /\ UNCHANGED <<enabled, taken, listeners, forgotten, acceptQueued, sessionIds, lateSessions,
                   forwardEvents>>

\* ProxySession::stop, after an error of either direction, or of the connection.
SessionEnds(s) ==
    /\ sessions' = sessions \ {s}
    /\ UNCHANGED <<enabled, taken, listeners, forgotten, acceptQueued, sessionIds, lateSessions,
                   forwardEvents>>

\* Another program listens on a port, or stops.
PortTaken(p) ==
    /\ Event /\ p \notin listeners \cup forgotten
    /\ taken' = IF p \in taken THEN taken \ {p} ELSE taken \cup {p}
    /\ UNCHANGED <<enabled, listeners, forgotten, acceptQueued, sessions, sessionIds,
                   lateSessions>>

Next ==
    \/ \E r \in BOOLEAN : SetEnabled(r)
    \/ \E p \in Ports : ClientConnects(p) \/ OnAccept(p) \/ PortTaken(p)
    \/ \E s \in sessions : RemoteConnected(s) \/ SessionEnds(s)

Spec == Init /\ [][Next]_forwardVars

-----------------------------------------------------------------------------
TypeOK ==
    /\ enabled \in BOOLEAN /\ {taken, listeners, forgotten, acceptQueued} \subseteq SUBSET Ports
    /\ sessions \subseteq [id : 1..sessionIds, at : {"connecting", "carrying"}, port : Ports]
    /\ sessionIds \in Nat /\ lateSessions \subseteq 1..sessionIds
    /\ forwardEvents \in 0..MaxForwardEvents

(* Enabled is what is done: all ports are served or none; a session that   *)
(* goes on without it came by a listener the service lost, or was being    *)
(* accepted when its listener was stopped.  There are no more sessions     *)
(* than allowed, though listeners accept in turn.                          *)
EnabledIsServed ==
    /\ IF enabled THEN listeners = Ports /\ taken = {} ELSE listeners = {}
    /\ Cardinality(sessions) <= MaxSessions
    /\ \A s \in sessions : enabled \/ s.port \in forgotten \/ s.id \in lateSessions
=============================================================================
