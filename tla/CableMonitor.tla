---------------------------- MODULE CableMonitor ----------------------------
(***************************************************************************)
(* The cable monitor (src/src/cable-monitor, with EntityManagerInterface   *)
(* and NotifyWatch): cables the configuration file expects are compared    *)
(* with those EntityManager publishes.  A cable that is missing has an     *)
(* entry in the log, which is resolved when the cable is there.  Every     *)
(* signal starts a task of its own; the logging service answers the calls  *)
(* of all of them in the order they were made.                             *)
(***************************************************************************)
EXTENDS Naturals, Sequences, SequencesExt

CONSTANTS
    Cables,
    MaxCableEvents      \* bound: changes of the inventory and the file, calls that fail

CableAssumption == MaxCableEvents \in Nat

VARIABLES
    inventory,          \* cables EntityManager publishes
    cableFile,          \* cables the file names, none if it is malformed
    fileEvents,         \* inotify events not read
    watching,           \* readNotifyAsync waits for an event, not for its handler
    objectCalls,        \* GetManagedObjects not answered: of start, of readNotifyAsync
    cableSignals,       \* signals and answers under way from EntityManager
    expectedCables,
    connectedCables,
    sleeping,           \* reconcileCableData calls that wait their five seconds
    logCalls,           \* calls the logging service has not answered
    pendingCables,      \* pendingEvents: the entry of each cable, 0 for none
    entries,            \* entries made
    openEntries,        \* those not resolved, with their cables
    crossed,            \* history: cables whose entries may be left open
    cableEvents

cableVars == <<inventory, cableFile, fileEvents, watching, objectCalls, cableSignals,
               expectedCables, connectedCables, sleeping, logCalls, pendingCables, entries,
               openEntries, crossed, cableEvents>>

Readers == {"start", "notify"}

Start ==
    /\ inventory = {} /\ cableFile = {} /\ fileEvents = 0 /\ watching = TRUE
    /\ objectCalls = {} /\ cableSignals = <<>> /\ expectedCables = {} /\ connectedCables = {}
    /\ sleeping = 0 /\ logCalls = <<>> /\ pendingCables = [c \in Cables |-> 0]
    /\ entries = 0 /\ openEntries = {} /\ crossed = {} /\ cableEvents = 0

\* Monitor::start reads a file that is there, and asks for the inventory.
Init ==
    \/ Start
    \/ /\ inventory \in SUBSET Cables /\ cableFile \in (SUBSET Cables) \ {{}}
       /\ fileEvents = 0 /\ watching = TRUE
       /\ objectCalls = {"start"} /\ cableSignals = <<>>
       /\ expectedCables = cableFile /\ connectedCables = {}
       /\ sleeping = 0 /\ logCalls = <<>> /\ pendingCables = [c \in Cables |-> 0]
       /\ entries = 0 /\ openEntries = {} /\ crossed = {} /\ cableEvents = 0

Event == cableEvents < MaxCableEvents /\ cableEvents' = cableEvents + 1

-----------------------------------------------------------------------------
(* EntityManager and the file *)

InventoryChanges(c) ==
    /\ Event
    /\ inventory' = IF c \in inventory THEN inventory \ {c} ELSE inventory \cup {c}
    /\ cableSignals' = Append(cableSignals,
                              [kind |-> IF c \in inventory THEN "removed" ELSE "added",
                               cables |-> {c}, reader |-> "none"])
    /\ UNCHANGED <<cableFile, fileEvents, watching, objectCalls, expectedCables,
                   connectedCables, sleeping, logCalls, pendingCables, entries, openEntries,
                   crossed>>

AnswerObjects(r) ==
    /\ r \in objectCalls /\ objectCalls' = objectCalls \ {r}
    /\ cableSignals' = Append(cableSignals, [kind |-> "objects", cables |-> inventory,
                                             reader |-> r])
    /\ UNCHANGED <<inventory, cableFile, fileEvents, watching, expectedCables, connectedCables,
                   sleeping, logCalls, pendingCables, entries, openEntries, crossed, cableEvents>>

FileWritten(names) ==
    /\ Event /\ cableFile' = names /\ fileEvents' = fileEvents + 1
    /\ UNCHANGED <<inventory, watching, objectCalls, cableSignals, expectedCables,
                   connectedCables, sleeping, logCalls, pendingCables, entries, openEntries,
                   crossed>>

-----------------------------------------------------------------------------
(* The monitor *)

\* configUpdateHandler, up to the answer it waits for; without cables it ends.
ConfigUpdateHandler(reader) ==
    /\ expectedCables' = cableFile
    /\ objectCalls' = IF cableFile = {} THEN objectCalls ELSE objectCalls \cup {reader}

\* readNotifyAsync: one event, and no other until its handler is done.
ReadNotify ==
    /\ watching /\ fileEvents > 0 /\ fileEvents' = fileEvents - 1
    /\ ConfigUpdateHandler("notify")
    /\ watching' = (cableFile = {})
    /\ UNCHANGED <<inventory, cableFile, cableSignals, connectedCables, sleeping, logCalls,
                   pendingCables, entries, openEntries, crossed, cableEvents>>

Calling(c) == \E k \in 1..Len(logCalls) : logCalls[k].cable = c

\* The calls that tasks of several cables make, in some order; a task may cross another's.
Make(calls, cables) ==
    /\ \E s \in SetToSeqs(calls) : logCalls' = logCalls \o s
    /\ crossed' = crossed \cup {c \in cables : Calling(c)}

Resolves(cables) ==
    {[cable |-> c, call |-> "resolve", entry |-> pendingCables[c]] :
        c \in {d \in cables : pendingCables[d] # 0}}
Disconnects(cables) ==
    {[cable |-> c, call |-> "disconnected", entry |-> 0] : c \in cables}

\* processCableAddedAsync and generateCableEvent, for cables that are new.
Connect(cables) ==
    LET new == (cables \cap expectedCables) \ connectedCables IN
    /\ connectedCables' = connectedCables \cup new
    /\ Make(Resolves(new), new)

\* processCableRemovedAsync; a cable not expected stays connected.
Disconnect(cables) ==
    LET gone == cables \cap expectedCables \cap connectedCables IN
    /\ connectedCables' = connectedCables \ gone
    /\ IF gone = {}
       THEN UNCHANGED logCalls /\ crossed' = crossed \cup (cables \cap connectedCables)
       ELSE Make(Disconnects(gone), gone)

\* The answer of GetManagedObjects ends configUpdateHandler, which leaves a task that sleeps.
Received ==
    /\ cableSignals # <<>> /\ cableSignals' = Tail(cableSignals)
    /\ LET m == Head(cableSignals) IN
       /\ IF m.kind = "removed" THEN Disconnect(m.cables) ELSE Connect(m.cables)
       /\ sleeping' = IF m.kind = "objects" THEN sleeping + 1 ELSE sleeping
       /\ watching' = (watching \/ m.reader = "notify")
    /\ UNCHANGED <<inventory, cableFile, fileEvents, objectCalls, expectedCables, pendingCables,
                   entries, openEntries, cableEvents>>

ReconcileCableData ==
    /\ sleeping > 0 /\ sleeping' = sleeping - 1
    /\ LET missing == expectedCables \ connectedCables IN Make(Disconnects(missing), missing)
    /\ UNCHANGED <<inventory, cableFile, fileEvents, watching, objectCalls, cableSignals,
                   expectedCables, connectedCables, pendingCables, entries, openEntries,
                   cableEvents>>

-----------------------------------------------------------------------------
(* generateCableEvent, when the logging service answers *)

\* The entry is forgotten, resolved or not, and another, of the connection, committed.
Resolved(x, ok) ==
    /\ x.call = "resolve"
    /\ pendingCables' = [pendingCables EXCEPT ![x.cable] = 0]
    /\ openEntries' = IF ok THEN {e \in openEntries : e.entry # x.entry} ELSE openEntries
    /\ logCalls' = Append(Tail(logCalls), [cable |-> x.cable, call |-> "connected", entry |-> 0])
    /\ UNCHANGED entries

\* emplace keeps the entry that is there.
Committed(x, ok) ==
    /\ x.call = "disconnected" /\ logCalls' = Tail(logCalls)
    /\ IF ok THEN /\ entries' = entries + 1
                  /\ openEntries' = openEntries \cup {[cable |-> x.cable, entry |-> entries + 1]}
                  /\ pendingCables' = [pendingCables EXCEPT
                                          ![x.cable] = IF @ = 0 THEN entries + 1 ELSE @]
       ELSE UNCHANGED <<entries, openEntries, pendingCables>>

Answered ==
    /\ logCalls # <<>>
    /\ \E ok \in BOOLEAN :
        LET x == Head(logCalls) IN
        /\ \/ Resolved(x, ok)
           \/ Committed(x, ok)
           \/ /\ x.call = "connected" /\ logCalls' = Tail(logCalls)
              /\ UNCHANGED <<entries, openEntries, pendingCables>>
        /\ crossed' = IF ~ok \/ (x.call = "disconnected" /\ pendingCables[x.cable] # 0)
                      THEN crossed \cup {x.cable} ELSE crossed
        /\ IF ok THEN UNCHANGED cableEvents ELSE Event
    /\ UNCHANGED <<inventory, cableFile, fileEvents, watching, objectCalls, cableSignals,
                   expectedCables, connectedCables, sleeping>>

-----------------------------------------------------------------------------
Proceeds(k) ==
    \/ k = 1 /\ \E r \in Readers : AnswerObjects(r)
    \/ k = 2 /\ ReadNotify
    \/ k = 3 /\ Received
    \/ k = 4 /\ ReconcileCableData
    \/ k = 5 /\ Answered

Next ==
    \/ \E k \in 1..5 : Proceeds(k)
    \/ \E c \in Cables : InventoryChanges(c)
    \/ \E names \in SUBSET Cables : FileWritten(names)

Spec == Init /\ [][Next]_cableVars /\ \A k \in 1..5 : WF_cableVars(Proceeds(k))

-----------------------------------------------------------------------------
TypeOK ==
    /\ {inventory, cableFile, expectedCables, connectedCables, crossed} \subseteq SUBSET Cables
    /\ fileEvents \in 0..MaxCableEvents /\ watching \in BOOLEAN /\ objectCalls \subseteq Readers
    /\ \A k \in 1..Len(cableSignals) :
        cableSignals[k] \in [kind : {"added", "removed", "objects"}, cables : SUBSET Cables,
                             reader : Readers \cup {"none"}]
    /\ sleeping \in Nat /\ entries \in Nat
    /\ \A k \in 1..Len(logCalls) :
        logCalls[k] \in [cable : Cables, call : {"resolve", "connected", "disconnected"},
                         entry : 0..entries]
    /\ pendingCables \in [Cables -> 0..entries]
    /\ openEntries \subseteq [cable : Cables, entry : 1..entries]
    /\ cableEvents \in 0..MaxCableEvents

(* A handler that waits for the inventory is resumed: while readNotifyAsync *)
(* does not watch, its answer is asked for or under way.                    *)
FileIsWatched ==
    \/ watching \/ "notify" \in objectCalls
    \/ \E k \in 1..Len(cableSignals) : cableSignals[k].reader = "notify"

(* An expected cable is known as it is, and has an open entry when, and    *)
(* only when, it is missing; not so a cable whose tasks crossed, whose     *)
(* call failed, that was logged as missing twice, or that left while it    *)
(* was not expected: the entries of these stay open.                       *)
CablesAreShown ==
    \A c \in expectedCables \ crossed :
        /\ c \in connectedCables <=> c \in inventory
        /\ c \in inventory <=> \A e \in openEntries : e.cable # c
LogFollowsCables == <>[]CablesAreShown
=============================================================================
