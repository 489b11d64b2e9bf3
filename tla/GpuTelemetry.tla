---------------------------- MODULE GpuTelemetry ----------------------------
(***************************************************************************)
(* A sensor, metric or inventory item that the GPU sensor daemon polls     *)
(* (src/src/nvidia-gpu/NvidiaGpu*Sensor.cpp, NvidiaGpu*Metric*.cpp,        *)
(* NvidiaPcie*.cpp, NvidiaEthPort.cpp and their like).                     *)
(*                                                                         *)
(* All encode one request when they are made, send it at every poll of     *)
(* their device without waiting for the answer to the last one, and write  *)
(* to D-Bus what a good answer holds; after an error the value stays.      *)
(* They differ in which of the properties an answer with fewer values      *)
(* writes, and in whether the values are those of the answer or a vector   *)
(* that outlives it.                                                       *)
(***************************************************************************)
EXTENDS Naturals, Sequences, FiniteSets

CONSTANTS
    MaxVersion,     \* bound: values the device goes through
    MaxOutstanding  \* bound: polls that wait for an answer

TelemetryAssumption == {MaxVersion, MaxOutstanding} \subseteq Nat \ {0}

VARIABLES
    class,          \* the kind of item
    exists,         \* the object has not been removed
    outstanding,    \* requests waiting for an answer
    value,          \* the value the device has now, in every field
    store,          \* the vector that outlives an answer
    shown,          \* what D-Bus shows of each field; 0 is the initial value
    seen,           \* history: the value of each field in the last good answer with it
    short           \* history: a good answer had fewer values than the store

telemetryVars == <<class, exists, outstanding, value, store, shown, seen, short>>

-----------------------------------------------------------------------------
(* The items: how many properties they have, and which a good answer       *)
(* writes: "all" - it holds all or is not good -, "least" - all if it      *)
(* holds that many -, "stored" - all if the vector does -, "each" and      *)
(* "held" - those the answer, or the vector, holds -, "tagged" - those     *)
(* whose tags are in it.  Some ask through the queue of long-running       *)
(* commands, and one needs a fact from the inventory.                      *)
Polled(fields, writes) ==
    [fields |-> fields, writes |-> writes, long |-> FALSE, inventory |-> FALSE]
Long(fields) == [Polled(fields, "all") EXCEPT !.long = TRUE]

TempSensor == Polled(1, "all")
PowerSensor == Polled(1, "all")
PowerPeakReading == Polled(1, "all")
EnergySensor == Polled(1, "all")
VoltageSensor == Polled(1, "all")
ClockFrequencyMetric == Polled(1, "all")
MemoryClockFrequency == Polled(1, "all")
DriverInformation == Polled(1, "all")
MemoryDevice == Polled(4, "all")
EccMode == Long(2)
UtilizationMetrics == Long(2)
ViolationDuration == Long(2)
MemoryCapacityUtilization == [Long(2) EXCEPT !.inventory = TRUE]
PcieFunction == Polled(4, "least")
PciePort == Polled(2, "stored")
PcieInterface == Polled(4, "held")
PciePortMetrics == Polled(3, "each")
EthPortMetrics == Polled(3, "tagged")
SmaLeakSensor == Polled(1, "tagged")

Items == [TempSensor |-> TempSensor, PowerSensor |-> PowerSensor,
          PowerPeakReading |-> PowerPeakReading, EnergySensor |-> EnergySensor,
          VoltageSensor |-> VoltageSensor, ClockFrequencyMetric |-> ClockFrequencyMetric,
          MemoryClockFrequency |-> MemoryClockFrequency,
          DriverInformation |-> DriverInformation, MemoryDevice |-> MemoryDevice,
          EccMode |-> EccMode, UtilizationMetrics |-> UtilizationMetrics,
          ViolationDuration |-> ViolationDuration,
          MemoryCapacityUtilization |-> MemoryCapacityUtilization,
          PcieFunction |-> PcieFunction, PciePort |-> PciePort,
          PcieInterface |-> PcieInterface, PciePortMetrics |-> PciePortMetrics,
          EthPortMetrics |-> EthPortMetrics, SmaLeakSensor |-> SmaLeakSensor]

Classes == DOMAIN Items
Item == Items[class]
AllFields == 1..Item.fields
Scalars == {"least", "stored", "held", "each"}

\* What a link's width and its generation show for the number in the answer.
LinkWidth(n) == IF n > 0 THEN 2 ^ (n - 1) ELSE 0
Generation(n) == IF n \in 1..6 THEN n ELSE 0

Shows(i, n) ==
    CASE class = "PcieInterface" -> IF i % 2 = 1 THEN Generation(n) ELSE LinkWidth(n)
      [] class = "PciePort" -> IF i = 1 THEN Generation(n) ELSE LinkWidth(n)
      [] OTHER -> n

-----------------------------------------------------------------------------
Start(c) ==
    /\ class = c /\ exists = TRUE /\ outstanding = 0
    /\ value = 1 /\ store = <<>>
    /\ shown = [i \in 1..Items[c].fields |-> 0]
    /\ seen = [i \in 1..Items[c].fields |-> 0]
    /\ short = FALSE

Init == \E c \in Classes : Start(c)

\* The device polls its items.  A long-running command waits for the last.
Update ==
    /\ exists /\ outstanding < (IF Item.long THEN 1 ELSE MaxOutstanding)
    /\ outstanding' = outstanding + 1
    /\ UNCHANGED <<class, exists, value, store, shown, seen, short>>

DeviceChanges ==
    /\ value < MaxVersion
    /\ value' = value + 1
    /\ UNCHANGED <<class, exists, outstanding, store, shown, seen, short>>

\* The call failed, the answer is no answer, or the device refuses.
Fails ==
    /\ outstanding > 0
    /\ outstanding' = outstanding - 1
    /\ UNCHANGED <<class, exists, value, store, shown, seen, short>>

\* The values are unpacked into the vector, which only grows, one by one;
\* n are announced and k of them arrived.
Unpacked(n, k) ==
    [i \in 1..(IF n > Len(store) THEN n ELSE Len(store)) |->
        IF i <= k THEN value ELSE IF i <= Len(store) THEN store[i] ELSE 0]

CutShort ==
    /\ outstanding > 0 /\ Item.writes \in Scalars
    /\ outstanding' = outstanding - 1
    /\ IF exists
       THEN \E n \in 1..Item.fields, k \in 0..(Item.fields - 1) :
               k < n /\ store' = Unpacked(n, k)
       ELSE UNCHANGED store
    /\ UNCHANGED <<class, exists, value, shown, seen, short>>

\* Which fields an answer with n values, or these tags, writes.
WrittenEarly(n, tags) == AllFields

Written(n, tags) ==
    CASE Item.writes = "all" -> AllFields
      [] Item.writes = "tagged" -> tags
      [] Item.writes = "least" -> IF n >= Item.fields THEN AllFields ELSE {}
      [] Item.writes = "each" -> {i \in AllFields : i <= n}
      [] Item.writes = "stored" -> IF Len(store') >= Item.fields THEN AllFields ELSE {}
      [] Item.writes = "held" -> {i \in AllFields : i <= Len(store')}

\* Of which fields such an answer has a value to show.
Held(n, tags) ==
    CASE Item.writes = "tagged" -> tags
      [] Item.writes \in {"all", "least"} -> Written(n, tags)
      [] OTHER -> {i \in Written(n, tags) : i <= n}

\* The utilization of the memory needs its size, which may not be known yet.
LacksInventory == Item.inventory

\* A good answer; nobody is left to take it when the object is gone.
ProcessResponse ==
    /\ outstanding > 0
    /\ outstanding' = outstanding - 1
    /\ IF exists
       THEN \E n \in 0..Item.fields, tags \in SUBSET AllFields :
               /\ Item.writes # "tagged" => tags = {}
               /\ Item.writes \notin Scalars => n = Item.fields
               /\ store' = IF Item.writes \in Scalars THEN Unpacked(n, n) ELSE store
               /\ short' = (Item.writes \in Scalars /\ n < Len(store'))
               /\ \/ /\ shown' = [i \in AllFields |->
                                    IF i \notin Written(n, tags) THEN shown[i]
                                    ELSE Shows(i, IF Item.writes \in Scalars THEN store'[i]
                                                  ELSE value)]
                     /\ seen' = [i \in AllFields |->
                                    IF i \in Held(n, tags) THEN Shows(i, value) ELSE seen[i]]
                  \/ LacksInventory /\ UNCHANGED <<shown, seen>>
       ELSE UNCHANGED <<store, shown, seen, short>>
    /\ UNCHANGED <<class, exists, value>>

Remove ==
    /\ exists
    /\ exists' = FALSE
    /\ UNCHANGED <<class, outstanding, value, store, shown, seen, short>>

Next ==
    \/ Update \/ DeviceChanges \/ Fails \/ CutShort \/ ProcessResponse \/ Remove

Spec == Init /\ [][Next]_telemetryVars

-----------------------------------------------------------------------------
TypeOK ==
    /\ class \in Classes /\ exists \in BOOLEAN /\ short \in BOOLEAN
    /\ outstanding \in 0..MaxOutstanding
    /\ store \in Seq(0..MaxVersion)
    /\ DOMAIN shown = AllFields /\ DOMAIN seen = AllFields

(* Each property shows what the last good answer with its value held.      *)
(* Where the vector of earlier values decides, an answer shorter than it   *)
(* shows values of earlier answers again, even of one cut short.           *)
ShownIsLastSeen ==
    \/ shown = seen
    \/ short /\ Item.writes \in {"stored", "held"}
=============================================================================
