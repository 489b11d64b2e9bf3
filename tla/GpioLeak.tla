------------------------------ MODULE GpioLeak ------------------------------
(***************************************************************************)
(* A leak detector on a GPIO line (src/src/leakdetector, GPIOInterface,    *)
(* EntityManagerInterface): two tasks read the line, one once and one at   *)
(* every edge, and set the state of the detector; a change is logged, and  *)
(* the entry resolved when the leak ends, and a unit is started.  A task   *)
(* gives way while the logging service or systemd answers, and the other   *)
(* may come in between.                                                    *)
(*                                                                         *)
(* A detector may be removed at any time.  A task that waits for an edge   *)
(* goes with it; one that waits for an answer is resumed without it: what  *)
(* it does with the log is well defined, but then it reads the detector's  *)
(* freed memory, and starts a unit or none, or the process ends and is     *)
(* started again.                                                          *)
(***************************************************************************)
EXTENDS Naturals

CONSTANT MaxLineEvents      \* bound: edges of the line, readings that fail and removals

GpioLeakAssumption == MaxLineEvents \in Nat

VARIABLES
    line,               \* the line is active
    edges,              \* edges the kernel has queued
    fetching,           \* getDetectorConfig calls that wait, of GetManagedObjects and of signals
    present,            \* the detector exists
    abnormal,           \* its state
    task,               \* where the two tasks are, and those that a removed detector left
    pendingEvent,       \* pendingEvents has an entry
    open,               \* entries in the log not resolved
    unit,               \* the unit started last
    overlapped,         \* history of the detector: one task came between the steps of the
                        \* other, one that was left was there, or the first reading failed
    lineEvents

gpioLeakVars == <<line, edges, fetching, present, abnormal, task, pendingEvent, open, unit,
                  overlapped, lineEvents>>

Tasks == {"first", "edges"}

\* What a removed detector leaves of its tasks: those that were begun.
Leftovers == {"left first", "left edges"}
Owner(l) == IF l = "left first" THEN "first" ELSE "edges"
Begun == {"read", "commit", "resolve", "announce", "unit"}
Off == [t \in Tasks \cup Leftovers |-> "off"]

\* The inventory is asked and the signals are awaited at the same time.
Start ==
    /\ line = FALSE /\ edges = 0 /\ fetching = 1 /\ present = FALSE /\ abnormal = FALSE
    /\ task = Off
    /\ pendingEvent = FALSE /\ open = 0 /\ unit = "none" /\ overlapped = FALSE
    /\ lineEvents = 0

Init == Start

Event == lineEvents < MaxLineEvents /\ lineEvents' = lineEvents + 1

-----------------------------------------------------------------------------
LineChanges ==
    /\ Event /\ line' = ~line
    /\ edges' = IF present THEN edges + 1 ELSE edges
    /\ UNCHANGED <<fetching, present, abnormal, task, pendingEvent, open, unit, overlapped>>

\* InterfacesAdded, perhaps of an object GetManagedObjects told of too.
InventoryAdded ==
    /\ Event /\ fetching' = fetching + 1
    /\ UNCHANGED <<line, edges, present, abnormal, task, pendingEvent, open, unit, overlapped>>

\* processConfigAddedAsync: the first call to come back makes the detector.
ConfigAdded ==
    /\ fetching > 0 /\ fetching' = fetching - 1
    /\ IF present THEN UNCHANGED <<present, abnormal, task, edges, overlapped>>
       ELSE /\ present' = TRUE /\ abnormal' = FALSE /\ edges' = 0
            /\ task' = [task EXCEPT !["first"] = "read", !["edges"] = "wait"]
            /\ overlapped' = (\E l \in Leftovers : task[l] # "off")
    /\ UNCHANGED <<line, pendingEvent, open, unit, lineEvents>>

\* processInventoryRemoved: what was logged stays.  Bound: nothing is left
\* of an earlier detector.
InventoryRemoved ==
    /\ present /\ Event
    /\ \A l \in Leftovers : task[l] = "off"
    /\ present' = FALSE /\ edges' = 0
    /\ task' = [t \in DOMAIN task |-> IF t \in Leftovers /\ task[Owner(t)] \in Begun
                                      THEN task[Owner(t)] ELSE "off"]
    /\ UNCHANGED <<line, fetching, abnormal, pendingEvent, open, unit, overlapped>>

-----------------------------------------------------------------------------
Back(t) == IF t = "first" THEN "done" ELSE "wait"
Other(t) == CHOOSE o \in Tasks : o # t

\* updateGPIOStateAsync, up to its first wait.
UpdateGPIOState(t, isActive) ==
    /\ abnormal' = isActive
    /\ task' = [task EXCEPT ![t] = IF isActive = abnormal THEN Back(t)
                                   ELSE IF isActive THEN "commit"
                                   ELSE IF pendingEvent THEN "resolve"
                                   ELSE "unit"]
    /\ overlapped' = (overlapped \/ (isActive # abnormal
                                     /\ task[Other(t)] \in {"commit", "resolve", "announce", "unit"}))

\* readGPIOAsync, once; a reading that fails is not repeated.
ReadGPIO ==
    /\ task["first"] = "read"
    /\ \/ UpdateGPIOState("first", line) /\ UNCHANGED lineEvents
       \/ /\ Event /\ task' = [task EXCEPT !["first"] = "done"]
          /\ overlapped' = TRUE /\ UNCHANGED abnormal
    /\ UNCHANGED <<line, edges, fetching, present, pendingEvent, open, unit>>

\* readGPIOAsyncEvent reads one edge, and the line as it is now.
ReadGPIOEvent ==
    /\ task["edges"] = "wait" /\ edges > 0
    /\ edges' = edges - 1
    /\ UpdateGPIOState("edges", line)
    /\ UNCHANGED <<line, fetching, present, pendingEvent, open, unit, lineEvents>>

\* generateLeakEvent: the entry is remembered when the logging service answers.
Committed(t) ==
    /\ task[t] = "commit" /\ task' = [task EXCEPT ![t] = "unit"]
    /\ pendingEvent' = TRUE /\ open' = open + 1
    /\ UNCHANGED <<line, edges, fetching, present, abnormal, unit, overlapped, lineEvents>>

Resolved(t) ==
    /\ task[t] = "resolve" /\ task' = [task EXCEPT ![t] = "announce"]
    /\ open' = IF open = 0 THEN 0 ELSE open - 1
    /\ UNCHANGED <<line, edges, fetching, present, abnormal, pendingEvent, unit, overlapped,
                   lineEvents>>

\* The entry is forgotten when another, that all is normal, is committed.
Announced(t) ==
    /\ task[t] = "announce" /\ task' = [task EXCEPT ![t] = "unit"]
    /\ pendingEvent' = FALSE
    /\ UNCHANGED <<line, edges, fetching, present, abnormal, open, unit, overlapped, lineEvents>>

\* The unit for the state the detector has by now.
StartUnit(t) ==
    /\ t \in Tasks
    /\ task[t] = "unit" /\ task' = [task EXCEPT ![t] = Back(t)]
    /\ unit' = IF abnormal THEN "assert" ELSE "deassert"
    /\ UNCHANGED <<line, edges, fetching, present, abnormal, pendingEvent, open, overlapped,
                   lineEvents>>

\* A task without its detector: undefined; or the process is started again,
\* and the inventory has the detector by then, or not.
Dangles(l) ==
    /\ task[l] \in {"read", "unit"}
    /\ \/ /\ task' = [task EXCEPT ![l] = "off"]
          /\ unit' \in {unit, "assert", "deassert"}
          /\ UNCHANGED <<edges, fetching, present, abnormal, pendingEvent>>
       \/ /\ fetching' \in {0, 1} /\ present' = FALSE /\ abnormal' = FALSE /\ edges' = 0
          /\ task' = Off /\ pendingEvent' = FALSE
          /\ UNCHANGED unit
    /\ UNCHANGED <<line, open, overlapped, lineEvents>>

Proceeds ==
    \/ ConfigAdded \/ ReadGPIO \/ ReadGPIOEvent
    \/ \E t \in DOMAIN task : Committed(t) \/ Resolved(t) \/ Announced(t) \/ StartUnit(t)
    \/ \E l \in Leftovers : Dangles(l)

Next == Proceeds \/ LineChanges \/ InventoryAdded \/ InventoryRemoved

Spec == Init /\ [][Next]_gpioLeakVars /\ WF_gpioLeakVars(Proceeds)

-----------------------------------------------------------------------------
TypeOK ==
    /\ {line, present, abnormal, pendingEvent, overlapped} \subseteq BOOLEAN
    /\ edges \in Nat /\ fetching \in Nat /\ open \in 0..MaxLineEvents
    /\ task \in [Tasks \cup Leftovers -> {"off", "read", "wait", "commit", "resolve", "announce", "unit", "done"}]
    /\ unit \in {"none", "assert", "deassert"}
    /\ lineEvents \in 0..MaxLineEvents

(* When the line rests, the state is the line's, a leak has its entry in   *)
(* the log, and its unit was started, unless a task came between the steps *)
(* of the other, a task of an earlier detector was there when this one was *)
(* made, or its first reading failed.                                      *)
LineIsShown ==
    present /\ ~overlapped => abnormal = line /\ (abnormal => open > 0 /\ unit = "assert")
LeakIsLogged == <>[]LineIsShown
=============================================================================
