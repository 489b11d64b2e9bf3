----------------------------- MODULE ShownProofs -----------------------------
(***************************************************************************)
(* Proofs about the small daemons (MCDaemons), for all values of their     *)
(* constants: what telemetry, shared memory, the chassis, redundancy and   *)
(* IPMB show is true, a scan leaves alone the sensors no signal named, and *)
(* the variables of eight parts keep their types.                          *)
(***************************************************************************)
EXTENDS MCDaemons, FiniteSetTheorems, WellFoundedInduction, TLAPS

(* Telemetry: a property that does not show what was seen last is one the  *)
(* vector of earlier values has a place for.                               *)
ItemIsSound(item) ==
    /\ item.fields \in Nat /\ item.long \in BOOLEAN
    /\ item.writes \in {"all", "tagged", "least", "stored", "held", "each"}
    /\ item.inventory \in BOOLEAN /\ (item.inventory => item.writes = "all")

LEMMA ItemsAreSound == \A c \in Telemetry!Classes : ItemIsSound(Telemetry!Items[c])
<1> SUFFICES ASSUME NEW c \in Telemetry!Classes PROVE ItemIsSound(Telemetry!Items[c])
  OBVIOUS
<1>1. \A fields \in Nat, writes \in {"all", "tagged", "least", "stored", "held", "each"} :
         ItemIsSound(Telemetry!Polled(fields, writes))
  BY DEF ItemIsSound, Telemetry!Polled
<1>2. ItemIsSound(Telemetry!Long(2)) /\ ItemIsSound(Telemetry!MemoryCapacityUtilization)
  BY DEF ItemIsSound, Telemetry!Long, Telemetry!Polled, Telemetry!MemoryCapacityUtilization
<1>3. /\ Telemetry!Items[c] \in
            {Telemetry!Polled(1, "all"), Telemetry!Polled(4, "all"), Telemetry!Long(2),
             Telemetry!MemoryCapacityUtilization, Telemetry!Polled(4, "least"),
             Telemetry!Polled(2, "stored"), Telemetry!Polled(4, "held"),
             Telemetry!Polled(3, "each"), Telemetry!Polled(3, "tagged"),
             Telemetry!Polled(1, "tagged")}
  BY DEF Telemetry!Items, Telemetry!Classes, Telemetry!TempSensor, Telemetry!PowerSensor,
         Telemetry!PowerPeakReading, Telemetry!EnergySensor, Telemetry!VoltageSensor,
         Telemetry!ClockFrequencyMetric, Telemetry!MemoryClockFrequency,
         Telemetry!DriverInformation, Telemetry!MemoryDevice, Telemetry!EccMode,
         Telemetry!UtilizationMetrics, Telemetry!ViolationDuration,
         Telemetry!PcieFunction, Telemetry!PciePort, Telemetry!PcieInterface,
         Telemetry!PciePortMetrics, Telemetry!EthPortMetrics, Telemetry!SmaLeakSensor
<1> QED BY <1>1, <1>2, <1>3

Shown == 
    /\ shown = [i \in Telemetry!AllFields |-> shown[i]]
    /\ seen = [i \in Telemetry!AllFields |-> seen[i]]

TelemetryInv ==
    /\ Telemetry!TypeOK /\ value \in 1..MaxVersion /\ Shown
    /\ Telemetry!ShownIsLastSeen
    /\ Telemetry!Item.writes = "stored" /\ Len(store) < Telemetry!Item.fields => shown = seen
    /\ Telemetry!Item.writes = "held" =>
          \A i \in Telemetry!AllFields : i > Len(store) => shown[i] = seen[i]

LEMMA TelemetryBounds == MaxVersion \in Nat \ {0} /\ MaxOutstanding \in Nat \ {0}
BY DaemonsAssumption DEF Telemetry!TelemetryAssumption

LEMMA TelemetryStart ==
  ASSUME NEW c \in Telemetry!Classes, Telemetry!Start(c) PROVE TelemetryInv
<1>1. ItemIsSound(Telemetry!Items[c]) /\ class = c
  BY ItemsAreSound DEF Telemetry!Start
<1>2. /\ exists = TRUE /\ outstanding = 0 /\ value = 1 /\ store = <<>> /\ short = FALSE
      /\ shown = [i \in Telemetry!AllFields |-> 0] /\ seen = [i \in Telemetry!AllFields |-> 0]
  BY <1>1 DEF Telemetry!Start, Telemetry!AllFields, Telemetry!Item
<1>3. Telemetry!TypeOK
  <2>1. /\ class \in Telemetry!Classes /\ 0 \in 0..MaxOutstanding /\ store \in Seq(0..MaxVersion)
        /\ DOMAIN shown = Telemetry!AllFields /\ DOMAIN seen = Telemetry!AllFields
    BY <1>1, <1>2, TelemetryBounds
  <2> QED BY <1>2, <2>1 DEF Telemetry!TypeOK
<1>4. shown = seen /\ value \in 1..MaxVersion
  BY <1>2, TelemetryBounds
<1>5. Shown
  BY <1>2 DEF Shown
<1> QED BY <1>3, <1>4, <1>5 DEF TelemetryInv, Telemetry!ShownIsLastSeen

LEMMA VectorGrows ==
  ASSUME TelemetryInv, NEW n \in Nat, NEW k \in Nat
  PROVE  LET v == Telemetry!Unpacked(n, k)
         IN  /\ v \in Seq(0..MaxVersion)
             /\ Len(v) = IF n > Len(store) THEN n ELSE Len(store)
             /\ \A i \in 1..Len(v) : i <= k => v[i] = value
<1> DEFINE m == IF n > Len(store) THEN n ELSE Len(store)
           at(i) == IF i <= k THEN value ELSE IF i <= Len(store) THEN store[i] ELSE 0
<1>1. store \in Seq(0..MaxVersion) /\ Len(store) \in Nat /\ value \in 1..MaxVersion
  BY DEF TelemetryInv, Telemetry!TypeOK
<1>2. m \in Nat
  BY <1>1
<1>3. \A i \in 1..m : at(i) \in 0..MaxVersion
  BY <1>1, TelemetryBounds
<1>4. [i \in 1..m |-> at(i)] \in Seq(0..MaxVersion) /\ Len([i \in 1..m |-> at(i)]) = m
  <2> HIDE DEF m, at
  <2> QED BY <1>2, <1>3
<1>5. Telemetry!Unpacked(n, k) = [i \in 1..m |-> at(i)]
  BY DEF Telemetry!Unpacked
<1>6. \A i \in 1..m : i <= k => [j \in 1..m |-> at(j)][i] = value
  OBVIOUS
<1> HIDE DEF at
<1> QED BY <1>4, <1>5, <1>6

LEMMA TelemetryStep ==
  ASSUME TelemetryInv, Telemetry!Next \/ UNCHANGED telemetryVars PROVE TelemetryInv'
<1> USE TelemetryBounds
<1> DEFINE item == Telemetry!Item
<1>0. class \in Telemetry!Classes /\ ItemIsSound(item)
  BY ItemsAreSound DEF TelemetryInv, Telemetry!TypeOK, Telemetry!Item
<1>1. CASE UNCHANGED <<class, store, shown, seen, short>> /\ outstanding' \in 0..MaxOutstanding
           /\ exists' \in BOOLEAN /\ value' \in 1..MaxVersion
  <2>1. item' = item /\ Telemetry!AllFields' = Telemetry!AllFields
    BY <1>1 DEF Telemetry!Item, Telemetry!AllFields
  <2>2. Telemetry!TypeOK'
    BY <1>1, <2>1 DEF TelemetryInv, Telemetry!TypeOK
  <2>3. Shown' /\ Telemetry!ShownIsLastSeen'
    BY <1>1, <2>1 DEF TelemetryInv, Shown, Telemetry!ShownIsLastSeen
  <2> QED BY <1>1, <2>1, <2>2, <2>3 DEF TelemetryInv
<1>2. CASE Telemetry!CutShort \/ Telemetry!ProcessResponse
  <2>1. /\ UNCHANGED <<class, exists, value>>
        /\ outstanding' \in 0..MaxOutstanding
    BY <1>2 DEF Telemetry!CutShort, Telemetry!ProcessResponse, TelemetryInv, Telemetry!TypeOK
  <2>2. item' = item /\ Telemetry!AllFields' = Telemetry!AllFields
    BY <2>1 DEF Telemetry!Item, Telemetry!AllFields
  <2>3. CASE ~exists
    <3>1. UNCHANGED <<store, shown, seen, short>>
      BY <1>2, <2>3 DEF Telemetry!CutShort, Telemetry!ProcessResponse
    <3>2. exists \in BOOLEAN /\ value \in 1..MaxVersion
      BY DEF TelemetryInv, Telemetry!TypeOK
    <3> QED BY <1>1, <2>1, <3>1, <3>2
  <2>4. CASE Telemetry!CutShort /\ exists
    <3>1. PICK n \in 1..item.fields, k \in 0..(item.fields - 1) : store' = Telemetry!Unpacked(n, k)
      BY <2>4 DEF Telemetry!CutShort
    <3>2. store' \in Seq(0..MaxVersion) /\ Len(store) <= Len(store')
          /\ Len(store) \in Nat /\ Len(store') \in Nat
      <4>1. n \in Nat /\ k \in Nat
        BY <1>0, <3>1 DEF ItemIsSound
      <4> QED BY <3>1, <4>1, VectorGrows DEF TelemetryInv, Telemetry!TypeOK
    <3>3. UNCHANGED <<shown, seen, short>>
      BY <2>4 DEF Telemetry!CutShort
    <3>4. Telemetry!TypeOK'
      BY <2>1, <2>2, <3>2, <3>3 DEF TelemetryInv, Telemetry!TypeOK
    <3>5. Telemetry!AllFields \subseteq Nat /\ item.fields \in Nat
      BY <1>0 DEF ItemIsSound, Telemetry!AllFields
    <3> QED BY <2>1, <2>2, <3>2, <3>3, <3>4, <3>5
            DEF TelemetryInv, Shown, Telemetry!ShownIsLastSeen
  <2>5. CASE Telemetry!ProcessResponse /\ exists
    <3> DEFINE writes == item.writes
               scalar == writes \in Telemetry!Scalars
               fields == Telemetry!AllFields
    <3>1. PICK n \in 0..item.fields, tags \in SUBSET fields :
            /\ writes # "tagged" => tags = {}
            /\ ~scalar => n = item.fields
            /\ store' = IF scalar THEN Telemetry!Unpacked(n, n) ELSE store
            /\ short' = (scalar /\ n < Len(store'))
            /\ \/ /\ shown' = [i \in fields |->
                                 IF i \notin Telemetry!Written(n, tags) THEN shown[i]
                                 ELSE Telemetry!Shows(i, IF scalar THEN store'[i] ELSE value)]
                  /\ seen' = [i \in fields |->
                                 IF i \in Telemetry!Held(n, tags) THEN Telemetry!Shows(i, value)
                                 ELSE seen[i]]
               \/ item.inventory /\ UNCHANGED <<shown, seen>>
      BY <2>5 DEF Telemetry!ProcessResponse, Telemetry!LacksInventory
    <3>2. n \in Nat /\ item.fields \in Nat /\ fields = 1..item.fields /\ n <= item.fields
      BY <1>0, <3>1 DEF ItemIsSound, Telemetry!AllFields
    <3>3. /\ store' \in Seq(0..MaxVersion) /\ Len(store) \in Nat /\ Len(store') \in Nat
          /\ scalar => Len(store') = IF n > Len(store) THEN n ELSE Len(store)
          /\ scalar => \A i \in 1..Len(store') : i <= n => store'[i] = value
          /\ ~scalar => store' = store
      <4>1. store \in Seq(0..MaxVersion) /\ Len(store) \in Nat
        BY DEF TelemetryInv, Telemetry!TypeOK
      <4>2. CASE scalar
        <5>1. store' = Telemetry!Unpacked(n, n)
          BY <3>1, <4>2
        <5>2. /\ store' \in Seq(0..MaxVersion)
              /\ Len(store') = IF n > Len(store) THEN n ELSE Len(store)
              /\ \A i \in 1..Len(store') : i <= n => store'[i] = value
          BY <3>2, <5>1, VectorGrows
        <5> QED BY <3>2, <4>1, <4>2, <5>2
      <4>3. CASE ~scalar
        BY <3>1, <4>1, <4>3
      <4> QED BY <4>2, <4>3
    <3>4. Shown'
      BY <2>2, <3>1 DEF Shown, TelemetryInv
    <3>5. Telemetry!TypeOK'
      BY <2>1, <2>2, <3>1, <3>3 DEF TelemetryInv, Telemetry!TypeOK, Shown
    <3>6. CASE item.inventory /\ UNCHANGED <<shown, seen>>
      <4>1. writes = "all" /\ shown = seen
        BY <1>0, <3>6 DEF ItemIsSound, TelemetryInv, Telemetry!ShownIsLastSeen
      <4> QED BY <2>1, <2>2, <3>4, <3>5, <3>6, <4>1 DEF TelemetryInv, Telemetry!ShownIsLastSeen
    <3>7. CASE ~(item.inventory /\ UNCHANGED <<shown, seen>>)
      <4>1. \A i \in fields :
              /\ shown'[i] = IF i \notin Telemetry!Written(n, tags) THEN shown[i]
                             ELSE Telemetry!Shows(i, IF scalar THEN store'[i] ELSE value)
              /\ seen'[i] = IF i \in Telemetry!Held(n, tags) THEN Telemetry!Shows(i, value)
                            ELSE seen[i]
        BY <3>1, <3>7
      <4>2. ASSUME \A i \in fields : shown'[i] = seen'[i] PROVE TelemetryInv'
        <5>1. shown' = seen'
          BY <2>2, <3>4, <4>2 DEF Shown
        <5> QED BY <2>1, <2>2, <3>4, <3>5, <5>1 DEF TelemetryInv, Telemetry!ShownIsLastSeen
      <4>3. CASE writes = "all"
        <5>1. ~scalar
          BY <4>3 DEF Telemetry!Scalars
        <5>2. Telemetry!Written(n, tags) = fields /\ Telemetry!Held(n, tags) = fields
          BY <4>3 DEF Telemetry!Written, Telemetry!Held
        <5> QED BY <4>1, <4>2, <5>1, <5>2
      <4>4. CASE writes = "tagged"
        <5>1. ~scalar /\ shown = seen
          BY <4>4 DEF Telemetry!Scalars, TelemetryInv, Telemetry!ShownIsLastSeen
        <5>2. Telemetry!Written(n, tags) = tags /\ Telemetry!Held(n, tags) = tags
          BY <4>4 DEF Telemetry!Written, Telemetry!Held
        <5> QED BY <4>1, <4>2, <5>1, <5>2
      <4>5. CASE writes = "least"
        <5>1. scalar /\ shown = seen
          BY <4>5 DEF Telemetry!Scalars, TelemetryInv, Telemetry!ShownIsLastSeen
        <5>2. Telemetry!Written(n, tags) = Telemetry!Held(n, tags)
              /\ Telemetry!Written(n, tags) = IF n >= item.fields THEN fields ELSE {}
          BY <4>5 DEF Telemetry!Written, Telemetry!Held
        <5>3. \A i \in Telemetry!Written(n, tags) : store'[i] = value
          BY <3>2, <3>3, <5>1, <5>2
        <5> QED BY <4>1, <4>2, <5>1, <5>2, <5>3
      <4>6. CASE writes = "each"
        <5>1. scalar /\ shown = seen
          BY <4>6 DEF Telemetry!Scalars, TelemetryInv, Telemetry!ShownIsLastSeen
        <5>2. Telemetry!Written(n, tags) = {i \in fields : i <= n}
          BY <4>6 DEF Telemetry!Written
        <5>3. Telemetry!Held(n, tags) = Telemetry!Written(n, tags)
          BY <4>6, <5>2 DEF Telemetry!Held
        <5>4. \A i \in Telemetry!Written(n, tags) : store'[i] = value
          BY <3>2, <3>3, <5>1, <5>2
        <5> QED BY <4>1, <4>2, <5>1, <5>3, <5>4
      <4>7. CASE writes = "stored"
        <5>1. scalar /\ short' = (n < Len(store'))
          BY <3>1, <4>7 DEF Telemetry!Scalars
        <5>2. Telemetry!Written(n, tags) = IF Len(store') >= item.fields THEN fields ELSE {}
          BY <4>7 DEF Telemetry!Written
        <5>3. Telemetry!Held(n, tags) = {i \in Telemetry!Written(n, tags) : i <= n}
          BY <4>7 DEF Telemetry!Held
        <5>4. CASE Len(store') >= item.fields /\ n < Len(store')
          <6>1. Telemetry!ShownIsLastSeen'
            BY <2>2, <4>7, <5>1, <5>4 DEF Telemetry!ShownIsLastSeen
          <6>2. ~(Len(store') < item'.fields) /\ item'.writes = "stored"
            BY <2>2, <3>2, <3>3, <4>7, <5>4
          <6>3. value' \in 1..MaxVersion
            BY <2>1 DEF TelemetryInv
          <6> QED BY <3>4, <3>5, <6>1, <6>2, <6>3 DEF TelemetryInv
        <5>5. CASE Len(store') >= item.fields /\ ~(n < Len(store'))
          <6>1. n = item.fields /\ Telemetry!Held(n, tags) = fields
                /\ Telemetry!Written(n, tags) = fields
            BY <3>2, <3>3, <5>1, <5>2, <5>3, <5>5
          <6>2. \A i \in fields : store'[i] = value
            BY <3>2, <3>3, <5>1, <5>5, <6>1
          <6> QED BY <4>1, <4>2, <5>1, <6>1, <6>2
        <5>6. CASE ~(Len(store') >= item.fields)
          <6>1. shown = seen
            BY <3>2, <3>3, <4>7, <5>1, <5>6 DEF TelemetryInv
          <6>2. Telemetry!Written(n, tags) = {} /\ Telemetry!Held(n, tags) = {}
            BY <5>2, <5>3, <5>6
          <6> QED BY <4>1, <4>2, <6>1, <6>2
        <5> QED BY <5>4, <5>5, <5>6
      <4>8. CASE writes = "held"
        <5>1. scalar /\ short' = (n < Len(store'))
          BY <3>1, <4>8 DEF Telemetry!Scalars
        <5>2. Telemetry!Written(n, tags) = {i \in fields : i <= Len(store')}
          BY <4>8 DEF Telemetry!Written
        <5>3. Telemetry!Held(n, tags) = {i \in Telemetry!Written(n, tags) : i <= n}
          BY <4>8 DEF Telemetry!Held
        <5>4. \A i \in fields : i > Len(store') => shown'[i] = seen'[i]
          BY <3>2, <3>3, <4>1, <4>8, <5>1, <5>2, <5>3 DEF TelemetryInv
        <5>5. CASE n < Len(store')
          BY <2>1, <2>2, <3>4, <3>5, <4>8, <5>1, <5>4, <5>5
             DEF TelemetryInv, Telemetry!ShownIsLastSeen
        <5>6. CASE ~(n < Len(store'))
          <6>1. n = Len(store')
            BY <3>2, <3>3, <5>1, <5>6
          <6>2. \A i \in fields : i <= n => store'[i] = value
            BY <3>2, <3>3, <5>1, <6>1
          <6>3. \A i \in fields : i <= n => shown'[i] = seen'[i]
            BY <3>2, <4>1, <5>1, <5>2, <5>3, <6>1, <6>2
          <6> QED BY <3>2, <4>2, <5>4, <6>1, <6>3
        <5> QED BY <5>5, <5>6
      <4> QED BY <1>0, <4>3, <4>4, <4>5, <4>6, <4>7, <4>8 DEF ItemIsSound
    <3> QED BY <3>6, <3>7
  <2> QED BY <1>2, <2>3, <2>4, <2>5
<1>3. CASE Telemetry!Update
  <2>1. outstanding \in 0..MaxOutstanding /\ outstanding < MaxOutstanding
    BY <1>3 DEF Telemetry!Update, TelemetryInv, Telemetry!TypeOK
  <2> QED BY <1>1, <1>3, <2>1 DEF Telemetry!Update, TelemetryInv, Telemetry!TypeOK
<1>4. CASE Telemetry!DeviceChanges \/ Telemetry!Fails \/ Telemetry!Remove
           \/ UNCHANGED telemetryVars
  <2>1. UNCHANGED <<class, store, shown, seen, short>>
    BY <1>4 DEF Telemetry!DeviceChanges, Telemetry!Fails, Telemetry!Remove, telemetryVars
  <2>2. /\ outstanding \in 0..MaxOutstanding /\ value \in 1..MaxVersion /\ exists \in BOOLEAN
    BY DEF TelemetryInv, Telemetry!TypeOK
  <2>3. outstanding' \in 0..MaxOutstanding /\ value' \in 1..MaxVersion
    BY <1>4, <2>2
       DEF Telemetry!DeviceChanges, Telemetry!Fails, Telemetry!Remove, telemetryVars
  <2>4. exists' \in BOOLEAN
    BY <1>4, <2>2, Zenon
       DEF Telemetry!DeviceChanges, Telemetry!Fails, Telemetry!Remove, telemetryVars
  <2> QED BY <1>1, <2>1, <2>3, <2>4
<1> QED BY <1>2, <1>3, <1>4 DEF Telemetry!Next

-----------------------------------------------------------------------------
(* Chassis intrusion: what the sensor remembers says where it is between   *)
(* arming, an intrusion and its rearming.                                  *)
Monitors == [exists : BOOLEAN, kind : {"pch", "gpio", "hwmon"}, auto : BOOLEAN,
             polling : BOOLEAN, value : BOOLEAN, status : BOOLEAN, rearm : BOOLEAN]
Phases == {"armed", "due", "rearmed"}

Remembers(m, p) ==
    /\ p = "due" => m.value /\ m.status /\ (m.auto \/ ~m.rearm)
    /\ p = "armed" => ~m.value /\ ~m.status
    /\ p = "rearmed" => ~m.auto /\ m.value /\ m.rearm /\ ~m.status

ChassisInv ==
    /\ opened \in BOOLEAN /\ alarm \in BOOLEAN /\ phase \in Phases
    /\ configured \in Chassis!Configurations /\ monitor \in Monitors
    /\ chassisEvents \in 0..MaxChassisEvents /\ edge \in 0..chassisEvents
    /\ monitor.exists => Remembers(monitor, phase)

LEMMA ChassisBounded == MaxChassisEvents \in Nat
BY DaemonsAssumption DEF Chassis!IntrusionAssumption

LEMMA NewSensor ==
  ASSUME NEW c \in Chassis!Configurations
  PROVE  Chassis!Sensor(c) \in Monitors /\ Remembers(Chassis!Sensor(c), "armed")
BY DEF Chassis!Sensor, Chassis!Configurations, Monitors, Remembers

LEMMA ChassisStart == ASSUME Chassis!Init \/ Chassis!Start PROVE ChassisInv
<1>1. PICK c \in Chassis!Configurations : Chassis!With(c)
  BY DEF Chassis!Init, Chassis!Start, Chassis!Configurations
<1>2. /\ opened = FALSE /\ alarm = FALSE /\ edge = 0 /\ configured = c /\ phase = "armed"
      /\ monitor = Chassis!Sensor(c) /\ chassisEvents = 0
  BY <1>1 DEF Chassis!With
<1>3. monitor \in Monitors /\ Remembers(monitor, phase)
  BY <1>2, NewSensor
<1>4. chassisEvents \in 0..MaxChassisEvents /\ edge \in 0..chassisEvents
  BY <1>2, ChassisBounded
<1> QED BY <1>2, <1>3, <1>4 DEF ChassisInv, Phases

LEMMA ReadingRemembered ==
  ASSUME monitor \in Monitors, phase \in Phases, NEW v \in BOOLEAN, Chassis!Updated(v)
  PROVE  /\ monitor' \in Monitors /\ phase' \in Phases
         /\ monitor.exists /\ Remembers(monitor, phase) => Remembers(monitor', phase')
<1>1. phase' = IF v /\ phase = "armed" THEN "due"
               ELSE IF ~v /\ (phase = "rearmed" \/ monitor.auto) THEN "armed" ELSE phase
  BY DEF Chassis!Updated
<1>2. CASE v = monitor.value
  <2>1. monitor' = monitor
    BY <1>2 DEF Chassis!Updated, Chassis!UpdateValue
  <2> QED BY <1>1, <1>2, <2>1 DEF Monitors, Phases, Remembers
<1>3. CASE v # monitor.value /\ ~monitor.auto /\ ~v /\ monitor.rearm
  <2>1. monitor' = [monitor EXCEPT !.rearm = FALSE, !.value = FALSE]
    BY <1>3 DEF Chassis!Updated, Chassis!UpdateValue
  <2> QED BY <1>1, <1>3, <2>1 DEF Monitors, Phases, Remembers
<1>4. CASE v # monitor.value /\ ~monitor.auto /\ ~v /\ ~monitor.rearm
  <2>1. monitor' = monitor
    BY <1>4 DEF Chassis!Updated, Chassis!UpdateValue
  <2> QED BY <1>1, <1>4, <2>1 DEF Monitors, Phases, Remembers
<1>5. CASE v # monitor.value /\ (monitor.auto \/ v)
  <2>1. monitor' = [monitor EXCEPT !.rearm = FALSE, !.status = v, !.value = v]
    BY <1>5 DEF Chassis!Updated, Chassis!UpdateValue
  <2> QED BY <1>1, <1>5, <2>1 DEF Monitors, Phases, Remembers
<1> QED BY <1>2, <1>3, <1>4, <1>5

LEMMA ChassisStep == ASSUME ChassisInv, Chassis!Next \/ UNCHANGED chassisVars PROVE ChassisInv'
<1> USE ChassisBounded
<1>1. CASE Chassis!ChassisMoves
  <2>1. /\ UNCHANGED <<configured, monitor, phase>> /\ chassisEvents < MaxChassisEvents
        /\ chassisEvents' = chassisEvents + 1 /\ (edge' = edge \/ edge' = edge + 1)
    BY <1>1 DEF Chassis!ChassisMoves, Chassis!Event
  <2>2. opened' \in BOOLEAN /\ alarm' \in BOOLEAN
    BY <1>1, Zenon DEF Chassis!ChassisMoves, ChassisInv
  <2>3. chassisEvents' \in 0..MaxChassisEvents /\ edge' \in 0..chassisEvents'
    BY <2>1 DEF ChassisInv
  <2> QED BY <2>1, <2>2, <2>3 DEF ChassisInv
<1>2. ASSUME NEW v \in BOOLEAN, Chassis!Updated(v), UNCHANGED <<opened, configured, chassisEvents>>,
             alarm' \in BOOLEAN, edge' \in 0..chassisEvents, monitor.exists
      PROVE  ChassisInv'
  BY <1>2, ReadingRemembered DEF ChassisInv
<1>3. CASE Chassis!PollPch
  <2>1. /\ Chassis!Updated(opened) /\ UNCHANGED <<opened, alarm, edge, configured, chassisEvents>>
        /\ monitor.exists
    BY <1>3 DEF Chassis!PollPch, Chassis!Reads
  <2> QED BY <1>2, <2>1 DEF ChassisInv
<1>4. CASE Chassis!PollHwmon
  <2>1. /\ Chassis!Updated(alarm) /\ UNCHANGED <<opened, edge, configured, chassisEvents>>
        /\ monitor.exists /\ alarm' \in BOOLEAN
    BY <1>4 DEF Chassis!PollHwmon, Chassis!Reads, ChassisInv
  <2> QED BY <1>2, <2>1 DEF ChassisInv
<1>5. CASE Chassis!ReadEdge
  <2>1. CASE Chassis!Updated(opened) /\ edge' = edge - 1 /\ UNCHANGED chassisEvents
    <3>1. UNCHANGED <<opened, alarm, configured>> /\ monitor.exists /\ edge > 0
      BY <1>5 DEF Chassis!ReadEdge, Chassis!Reads
    <3>2. edge' \in 0..chassisEvents
      BY <2>1, <3>1 DEF ChassisInv
    <3> QED BY <1>2, <2>1, <3>1, <3>2 DEF ChassisInv
  <2>2. CASE ~(Chassis!Updated(opened) /\ edge' = edge - 1 /\ UNCHANGED chassisEvents)
    <3>1. /\ monitor' = [monitor EXCEPT !.polling = FALSE] /\ UNCHANGED <<phase, edge>>
          /\ chassisEvents < MaxChassisEvents /\ chassisEvents' = chassisEvents + 1
          /\ UNCHANGED <<opened, alarm, configured>>
      BY <1>5, <2>2, Zenon DEF Chassis!ReadEdge, Chassis!Event
    <3>2. monitor' \in Monitors /\ monitor'.exists = monitor.exists
          /\ (Remembers(monitor, phase) => Remembers(monitor', phase'))
      BY <3>1 DEF ChassisInv, Monitors, Remembers
    <3>3. chassisEvents' \in 0..MaxChassisEvents /\ edge' \in 0..chassisEvents'
      BY <3>1 DEF ChassisInv
    <3> QED BY <3>1, <3>2, <3>3 DEF ChassisInv
  <2> QED BY <2>1, <2>2
<1>6. CASE Chassis!SetSensorValue
  <2>1. /\ UNCHANGED <<opened, alarm, edge, configured>> /\ monitor.exists
        /\ chassisEvents < MaxChassisEvents /\ chassisEvents' = chassisEvents + 1
    BY <1>6 DEF Chassis!SetSensorValue, Chassis!Event
  <2>2. \/ UNCHANGED <<monitor, phase>>
        \/ /\ ~monitor.auto /\ monitor' = [monitor EXCEPT !.rearm = TRUE, !.status = FALSE]
           /\ phase' = IF phase = "armed" THEN phase ELSE "rearmed"
    BY <1>6 DEF Chassis!SetSensorValue
  <2>3. monitor' \in Monitors /\ phase' \in Phases /\ Remembers(monitor', phase')
    BY <2>1, <2>2 DEF ChassisInv, Monitors, Phases, Remembers
  <2>4. chassisEvents' \in 0..MaxChassisEvents /\ edge' \in 0..chassisEvents'
    BY <2>1 DEF ChassisInv
  <2> QED BY <2>1, <2>3, <2>4 DEF ChassisInv
<1>7. CASE Chassis!CreateSensors
  <2>1. /\ UNCHANGED <<opened, alarm>> /\ configured' \in Chassis!Configurations
        /\ chassisEvents < MaxChassisEvents /\ chassisEvents' = chassisEvents + 1
    BY <1>7 DEF Chassis!CreateSensors, Chassis!Event
  <2>2. \/ UNCHANGED <<monitor, phase, edge>>
        \/ monitor' = Chassis!Sensor(configured') /\ phase' = "armed" /\ edge' = 0
        \/ monitor' = [monitor EXCEPT !.exists = FALSE] /\ edge' = 0 /\ UNCHANGED phase
    BY <1>7 DEF Chassis!CreateSensors
  <2>3. /\ monitor' \in Monitors /\ phase' \in Phases
        /\ monitor'.exists => Remembers(monitor', phase')
    <3>1. CASE UNCHANGED <<monitor, phase, edge>>
      BY <3>1 DEF ChassisInv
    <3>2. CASE monitor' = Chassis!Sensor(configured') /\ phase' = "armed"
      BY <2>1, <3>2, NewSensor DEF Phases
    <3>3. CASE monitor' = [monitor EXCEPT !.exists = FALSE] /\ UNCHANGED phase
      BY <3>3 DEF ChassisInv, Monitors
    <3> QED BY <2>2, <3>1, <3>2, <3>3
  <2>4. chassisEvents' \in 0..MaxChassisEvents /\ edge' \in 0..chassisEvents'
    BY <2>1, <2>2 DEF ChassisInv
  <2> QED BY <2>1, <2>3, <2>4 DEF ChassisInv
<1>8. CASE UNCHANGED chassisVars
  BY <1>8 DEF chassisVars, ChassisInv
<1> QED BY <1>1, <1>3, <1>4, <1>5, <1>6, <1>7, <1>8 DEF Chassis!Next, Chassis!Proceeds

LEMMA ChassisShows == ASSUME ChassisInv PROVE Chassis!TypeOK /\ Chassis!IntrusionIsShown
<1>1. Chassis!IntrusionIsShown
  BY DEF ChassisInv, Phases, Remembers, Monitors, Chassis!IntrusionIsShown
<1>2. [kind |-> monitor.kind, auto |-> monitor.auto] \in Chassis!Configurations
  BY DEF ChassisInv, Monitors, Chassis!Configurations
<1>3. edge \in 0..MaxChassisEvents
  BY ChassisBounded DEF ChassisInv
<1> QED BY <1>1, <1>2, <1>3 DEF ChassisInv, Phases, Chassis!TypeOK

-----------------------------------------------------------------------------
(* IPMB: what a format decodes is the number meant.                        *)
LEMMA HighAndLow ==
  ASSUME NEW w \in Nat
  PROVE  \E h \in Nat, l \in 0..255 : h = w \div 256 /\ l = w % 256 /\ w = 256 * h + l
<1>1. PICK h \in Int : h = w \div 256
  OBVIOUS
<1>2. w >= 256 * h
  BY <1>1
<1>3. w < 256 * h + 256
  BY <1>1
<1>4. h \in Nat
  BY <1>2, <1>3
<1>5. w % 256 = w - 256 * h
  BY <1>2, <1>3, <1>4
<1>6. w - 256 * h \in 0..255 /\ w = 256 * h + (w - 256 * h)
  BY <1>2, <1>3, <1>4
<1> QED BY <1>1, <1>4, <1>5, <1>6

\* What a format keeps of the high byte.
LEMMA LowBits ==
  ASSUME NEW h \in Nat
  PROVE  /\ \E g \in Nat, b \in 0..1 : b = h % 2 /\ h = 2 * g + b
         /\ \E g \in Nat, b \in 0..3 : b = h % 4 /\ h = 4 * g + b
         /\ \E g \in Nat, b \in 0..127 : b = h % 128 /\ h = 128 * g + b
<1>1. \E g \in Nat, b \in 0..1 : b = h % 2 /\ h = 2 * g + b
  <2>1. PICK g \in Int : g = h \div 2
    OBVIOUS
  <2>2. h >= 2 * g /\ h < 2 * g + 2
    BY <2>1
  <2>3. g \in Nat /\ h % 2 = h - 2 * g /\ h - 2 * g \in 0..1
    BY <2>2
  <2> QED BY <2>3
<1>2. \E g \in Nat, b \in 0..3 : b = h % 4 /\ h = 4 * g + b
  <2>1. PICK g \in Int : g = h \div 4
    OBVIOUS
  <2>2. h >= 4 * g /\ h < 4 * g + 4
    BY <2>1
  <2>3. g \in Nat /\ h % 4 = h - 4 * g /\ h - 4 * g \in 0..3
    BY <2>2
  <2> QED BY <2>3
<1>3. \E g \in Nat, b \in 0..127 : b = h % 128 /\ h = 128 * g + b
  <2>1. PICK g \in Int : g = h \div 128
    OBVIOUS
  <2>2. h >= 128 * g /\ h < 128 * g + 128
    BY <2>1
  <2>3. g \in Nat /\ h % 128 = h - 128 * g /\ h - 128 * g \in 0..127
    BY <2>2
  <2> QED BY <2>3
<1> QED BY <1>1, <1>2, <1>3

LEMMA DecodedIsMeant ==
  ASSUME NEW w \in Nat, format \in {"nineBit", "tenBit", "fifteenBit", "linearElevenBit"}
  PROVE  Ipmb!Decoded(w) = Ipmb!Meant(w) /\ Ipmb!Meant(w) \in Ipmb!SInt16
<1>1. PICK h \in Nat, l \in 0..255 : h = w \div 256 /\ l = w % 256 /\ w = 256 * h + l
  BY HighAndLow
<1>2. CASE format = "nineBit"
  <2>1. PICK g \in Nat, b \in 0..1 : b = h % 2 /\ h = 2 * g + b
    BY LowBits
  <2>2. w % 512 = 256 * b + l
    <3>1. w = 512 * g + (256 * b + l) /\ 256 * b + l \in 0..511
      BY <1>1, <2>1
    <3> QED BY <3>1
  <2>3. Ipmb!Numbers = 512 /\ Ipmb!Signed
    BY <1>2 DEF Ipmb!Numbers, Ipmb!Signed
  <2>4. 512 \div 2 = 256
    OBVIOUS
  <2>5. Ipmb!Meant(w) = IF 256 * b + l >= 256 THEN 256 * b + l - 512 ELSE 256 * b + l
    BY <2>2, <2>3, <2>4, SMT DEF Ipmb!Meant
  <2>6. Ipmb!Decoded(w) = IF b = 1 THEN Ipmb!Int16(65280 + l) ELSE l
    BY <1>1, <1>2, <2>1, SMT DEF Ipmb!Decoded, Ipmb!High, Ipmb!Low
  <2>7. Ipmb!Int16(65280 + l) = l - 256
    BY DEF Ipmb!Int16
  <2>8. Ipmb!Meant(w) \in Ipmb!SInt16
    BY <2>5, SMT DEF Ipmb!SInt16
  <2> QED BY <2>8, <2>5, <2>6, <2>7
<1>3. CASE format = "tenBit"
  <2>1. PICK g \in Nat, b \in 0..3 : b = h % 4 /\ h = 4 * g + b
    BY LowBits
  <2>2. w % 1024 = 256 * b + l
    <3>1. w = 1024 * g + (256 * b + l) /\ 256 * b + l \in 0..1023
      BY <1>1, <2>1
    <3> QED BY <3>1
  <2>3. Ipmb!Numbers = 1024 /\ ~Ipmb!Signed
    BY <1>3 DEF Ipmb!Numbers, Ipmb!Signed
  <2>4. Ipmb!Meant(w) = 256 * b + l
    BY <2>2, <2>3, SMT DEF Ipmb!Meant
  <2>5. Ipmb!Decoded(w) = b * 256 + l
    BY <1>1, <1>3, <2>1, SMT DEF Ipmb!Decoded, Ipmb!High, Ipmb!Low
  <2>6. Ipmb!Meant(w) \in Ipmb!SInt16
    BY <2>4, SMT DEF Ipmb!SInt16
  <2> QED BY <2>6, <2>4, <2>5
<1>4. CASE format = "fifteenBit"
  <2>1. PICK g \in Nat, b \in 0..127 : b = h % 128 /\ h = 128 * g + b
    BY LowBits
  <2>2. w % 32768 = 256 * b + l
    <3>1. w = 32768 * g + (256 * b + l) /\ 256 * b + l < 32768
      BY <1>1, <2>1, SMT
    <3> QED BY <3>1, SMT
  <2>3. Ipmb!Numbers = 32768 /\ ~Ipmb!Signed
    BY <1>4 DEF Ipmb!Numbers, Ipmb!Signed
  <2>4. Ipmb!Meant(w) = 256 * b + l
    BY <2>2, <2>3, SMT DEF Ipmb!Meant
  <2>5. Ipmb!Decoded(w) = b * 256 + l
    <3>1. Ipmb!Decoded(w) = (Ipmb!High(w) % 128) * 256 + Ipmb!Low(w)
      BY <1>4, SMT DEF Ipmb!Decoded
    <3>2. Ipmb!High(w) = h /\ Ipmb!Low(w) = l
      BY <1>1 DEF Ipmb!High, Ipmb!Low
    <3> QED BY <2>1, <3>1, <3>2, Zenon
  <2>6. Ipmb!Meant(w) \in Ipmb!SInt16
    BY <2>4, SMT DEF Ipmb!SInt16
  <2> QED BY <2>6, <2>4, <2>5
<1>5. CASE format = "linearElevenBit"
  <2>1. PICK n \in Nat : n = w % 2048 /\ n < 2048
    OBVIOUS
  <2>2. (w * 32) % 65536 = 32 * n
    BY <2>1, SMT
  <2>3. Ipmb!Numbers = 2048 /\ Ipmb!Signed
    BY <1>5 DEF Ipmb!Numbers, Ipmb!Signed
  <2>4. 2048 \div 2 = 1024
    BY SMT
  <2>5. Ipmb!Meant(w) = IF n >= 1024 THEN n - 2048 ELSE n
    BY <2>1, <2>3, <2>4, SMT DEF Ipmb!Meant
  <2>6. Ipmb!Decoded(w) = Ipmb!Int16(w * 32) \div 32
    BY <1>5, SMT DEF Ipmb!Decoded
  <2>7. Ipmb!Int16(w * 32) = 32 * (IF n >= 1024 THEN n - 2048 ELSE n)
    BY <2>1, <2>2, SMT DEF Ipmb!Int16
  <2>8. \A m \in Int : (32 * m) \div 32 = m
    BY SMT
  <2>9. (32 * (IF n >= 1024 THEN n - 2048 ELSE n)) \div 32 = IF n >= 1024 THEN n - 2048 ELSE n
    BY <2>1, <2>8, SMT
  <2>10. Ipmb!Meant(w) \in Ipmb!SInt16
    BY <2>1, <2>5, SMT DEF Ipmb!SInt16
  <2> QED BY <2>10, <2>5, <2>6, <2>7, <2>9, SMT
<1> QED BY <1>2, <1>3, <1>4, <1>5

IpmbTypes ==
    /\ format \in IpmbFormats /\ word \in Words /\ ipmbHost \in BOOLEAN /\ toInit \in BOOLEAN
    /\ initWait \subseteq {"armed", "queued"}
IpmbValueInv == IpmbTypes /\ Ipmb!ShownIsMeant

LEMMA IpmbConstants ==
  /\ IpmbFormats \subseteq {"nineBit", "tenBit", "fifteenBit", "linearElevenBit"}
  /\ IpmbFormats # {} /\ Words \subseteq Nat /\ Words # {}
<1>1. Ipmb!IpmbAssumption
  BY DaemonsAssumption
<1>2. Ipmb!UInt16 \subseteq Nat
  BY SMT DEF Ipmb!UInt16
<1> QED BY <1>1, <1>2, Zenon DEF Ipmb!IpmbAssumption

LEMMA IpmbValueStart ==
  ASSUME Ipmb!Init \/ Ipmb!Start PROVE IpmbValueInv
<1>1. /\ format \in IpmbFormats /\ word \in Words
  BY IpmbConstants DEF Ipmb!Init, Ipmb!Start, Ipmb!StartWith
<1>2. ipmbHost = FALSE /\ toInit = FALSE /\ initWait = {} /\ ipmbShown = {}
  BY DEF Ipmb!Init, Ipmb!Start, Ipmb!StartWith
<1> QED BY <1>1, <1>2 DEF IpmbValueInv, IpmbTypes, Ipmb!ShownIsMeant

LEMMA SameMeaning ==
  ASSUME format' = format
  PROVE  \A w : Ipmb!Missing(w)' = Ipmb!Missing(w) /\ Ipmb!Meant(w)' = Ipmb!Meant(w)
<1>1. Ipmb!Signed' = Ipmb!Signed
  BY Zenon DEF Ipmb!Signed
<1>2. Ipmb!Numbers' = Ipmb!Numbers
  BY SMT DEF Ipmb!Numbers
<1>3. \A w : Ipmb!Missing(w)' = Ipmb!Missing(w)
  BY Zenon DEF Ipmb!Missing
<1> QED BY <1>1, <1>2, <1>3, Zenon DEF Ipmb!Meant

LEMMA IpmbValueStep ==
  ASSUME IpmbValueInv, Ipmb!Next \/ UNCHANGED ipmbVars PROVE IpmbValueInv'
<1>1. /\ format \in IpmbFormats /\ word \in Words /\ ipmbHost \in BOOLEAN /\ toInit \in BOOLEAN
      /\ initWait \subseteq {"armed", "queued"}
  BY DEF IpmbValueInv, IpmbTypes
<1>2. ASSUME UNCHANGED format, ipmbShown' \subseteq ipmbShown PROVE Ipmb!ShownIsMeant'
  <2>1. \A w : Ipmb!Missing(w)' = Ipmb!Missing(w) /\ Ipmb!Meant(w)' = Ipmb!Meant(w)
    BY <1>2, SameMeaning
  <2> QED BY <1>2, <2>1, Zenon DEF IpmbValueInv, Ipmb!ShownIsMeant
<1>3. CASE Ipmb!WaitExpires \/ Ipmb!WaitHandler \/ Ipmb!Recreate \/ Ipmb!InitExpires
           \/ Ipmb!InitHandler \/ Ipmb!HostChanges \/ Ipmb!WordChanges \/ UNCHANGED ipmbVars
  <2>1. UNCHANGED format /\ (ipmbShown' = ipmbShown \/ ipmbShown' = {})
    BY <1>3 DEF Ipmb!WaitExpires, Ipmb!WaitHandler, Ipmb!SendRequest, Ipmb!Recreate,
                Ipmb!InitExpires, Ipmb!InitHandler, Ipmb!HostChanges, Ipmb!WordChanges, ipmbVars
  <2>2. word' \in Words
    BY <1>1, <1>3
       DEF Ipmb!WaitExpires, Ipmb!WaitHandler, Ipmb!Recreate,
           Ipmb!InitExpires, Ipmb!InitHandler, Ipmb!HostChanges, Ipmb!WordChanges, ipmbVars
  <2>3. ipmbHost' \in BOOLEAN /\ toInit' \in BOOLEAN
    BY <1>1, <1>3, Zenon
       DEF Ipmb!WaitExpires, Ipmb!WaitHandler, Ipmb!Recreate, Ipmb!RunInitCmd,
           Ipmb!InitExpires, Ipmb!InitHandler, Ipmb!HostChanges, Ipmb!WordChanges, ipmbVars
  <2>4. initWait' \subseteq {"armed", "queued"}
    BY <1>1, <1>3
       DEF Ipmb!WaitExpires, Ipmb!WaitHandler, Ipmb!Recreate,
           Ipmb!InitExpires, Ipmb!InitHandler, Ipmb!HostChanges, Ipmb!WordChanges, ipmbVars
  <2> QED BY <1>1, <1>2, <2>1, <2>2, <2>3, <2>4 DEF IpmbValueInv, IpmbTypes
<1>4. CASE Ipmb!Completion
  <2>1. /\ UNCHANGED <<format, word, ipmbHost, initWait, toInit>>
        /\ \/ ipmbShown' \subseteq ipmbShown
           \/ ~Ipmb!Missing(word) /\ ipmbShown' = {Ipmb!Decoded(word)}
    <3>1. UNCHANGED <<format, word, ipmbHost, initWait, toInit>>
      BY <1>4 DEF Ipmb!Completion
    <3>2. ipmbShown' = (IF ~ipmbHost THEN {} ELSE IF Ipmb!Missing(word) THEN ipmbShown
                        ELSE {Ipmb!Decoded(word)}) \/ ipmbShown' = ipmbShown
      BY <1>4, Zenon DEF Ipmb!Completion
    <3> QED BY <3>1, <3>2
  <2>2. CASE ~Ipmb!Missing(word) /\ ipmbShown' = {Ipmb!Decoded(word)}
    <3>1. ipmbShown' = {Ipmb!Meant(word)}
      BY <1>1, <2>2, IpmbConstants, DecodedIsMeant
    <3>2. \A w : Ipmb!Missing(w)' = Ipmb!Missing(w) /\ Ipmb!Meant(w)' = Ipmb!Meant(w)
      BY <2>1, SameMeaning
    <3> QED BY <1>1, <2>1, <2>2, <3>1, <3>2, Zenon DEF IpmbValueInv, IpmbTypes, Ipmb!ShownIsMeant
  <2> QED BY <1>1, <1>2, <2>1, <2>2 DEF IpmbValueInv, IpmbTypes
<1> QED BY <1>3, <1>4 DEF Ipmb!Next

LEMMA IpmbShows ==
  ASSUME IpmbValueInv, ipmbCalls \in 0..2, waitQueued \in 0..2, waitArmed \in BOOLEAN
  PROVE  Ipmb!TypeOK
<1>1. \A v \in ipmbShown : \E w \in Words : v = Ipmb!Meant(w)
  BY DEF IpmbValueInv, Ipmb!ShownIsMeant
<1>2. \A w \in Words : Ipmb!Meant(w) \in Ipmb!SInt16
  BY DecodedIsMeant, IpmbConstants, Zenon DEF IpmbValueInv, IpmbTypes
<1>3. ipmbShown \subseteq Ipmb!SInt16
  BY <1>1, <1>2, Zenon
<1> QED BY <1>3, Zenon DEF IpmbValueInv, IpmbTypes, Ipmb!TypeOK

-----------------------------------------------------------------------------
LEMMA QueueGrows ==
  ASSUME NEW S, NEW q \in Seq(S), NEW x \in S
  PROVE  /\ Append(q, x) \in Seq(S) /\ Append(q, x) # <<>>
         /\ Len(Append(q, x)) = Len(q) + 1 /\ Append(q, x)[Len(q) + 1] = x
         /\ \A i \in 1 .. Len(q) : Append(q, x)[i] = q[i]
OBVIOUS

LEMMA QueueShrinks ==
  ASSUME NEW S, NEW q \in Seq(S), q # <<>>
  PROVE  /\ Tail(q) \in Seq(S) /\ Len(Tail(q)) = Len(q) - 1 /\ Len(q) >= 1
         /\ Head(q) = q[1] /\ Head(q) \in S
         /\ \A i \in 1 .. Len(q) - 1 : Tail(q)[i] = q[i + 1]
OBVIOUS

-----------------------------------------------------------------------------
(* Power supplies: the signals that wait lead from the count there is to   *)
(* that of the supplies that work, by counts there can be.                 *)
Leads(counts, from, sigs, to) ==
    /\ counts \in [0..Len(sigs) -> 0..TotalPSU]
    /\ counts[0] = from /\ counts[Len(sigs)] = to
    /\ \A k \in 1..Len(sigs) :
          counts[k] = IF sigs[k] THEN counts[k - 1] + 1 ELSE counts[k - 1] - 1

StatusFits(s, n) ==
    /\ s = "fullyRedundant" => n >= TotalPSU
    /\ s \in {"redundancyRegained", "redundancyDegraded", "redundancyDegradedFromFull"} =>
          n >= RedundantPSU
    /\ s \in {"sufficient", "sufficientFromRedundant"} => n < RedundantPSU

Tallied == functional \cap 0..tallied - 1

PsuTypes ==
    /\ functional \subseteq Psu!Supplies /\ tallied \in 0..TotalPSU + 1
    /\ workable \in Int /\ previous \in Int /\ signals \in Seq(BOOLEAN)
    /\ redundancyLost \in BOOLEAN /\ unseen \in BOOLEAN
    /\ supplyEvents \in 0..MaxSupplyEvents

PsuInv ==
    /\ PsuTypes
    /\ tallied <= TotalPSU =>
          /\ signals = <<>> /\ previous = TotalPSU /\ status = "none" /\ workable \in 0..tallied
          /\ unseen = FALSE => workable = Cardinality(Tallied)
    /\ tallied > TotalPSU =>
          /\ previous = workable /\ StatusFits(status, workable)
          /\ unseen = FALSE => \E c : Leads(c, workable, signals, Cardinality(functional))

LEMMA PsuConstants ==
  /\ TotalPSU \in Nat /\ RedundantPSU \in Nat /\ SufficientPSU \in Nat /\ MaxSupplyEvents \in Nat
  /\ SufficientPSU < RedundantPSU /\ RedundantPSU <= TotalPSU
BY DaemonsAssumption DEF Psu!PsuAssumption

LEMMA PsuCounts == \A S : Psu!Cardinality(S) = Cardinality(S)
BY DEF Psu!Cardinality, Cardinality

LEMMA SuppliesCounted ==
  ASSUME NEW S \in SUBSET Psu!Supplies
  PROVE  /\ IsFiniteSet(S) /\ Cardinality(S) \in 0..TotalPSU
         /\ Cardinality(S) >= TotalPSU => S = Psu!Supplies
<1>1. IsFiniteSet(Psu!Supplies) /\ Cardinality(Psu!Supplies) = TotalPSU
  <2>1. 0 \in Int /\ TotalPSU - 1 \in Int
    BY PsuConstants
  <2>2. IsFiniteSet(0..TotalPSU - 1)
        /\ Cardinality(0..TotalPSU - 1) = IF 0 > TotalPSU - 1 THEN 0 ELSE TotalPSU - 1 - 0 + 1
    BY <2>1, FS_Interval
  <2> QED BY <2>2, PsuConstants DEF Psu!Supplies
<1>2. /\ IsFiniteSet(S) /\ Cardinality(S) <= TotalPSU
      /\ TotalPSU = Cardinality(S) => Psu!Supplies = S
  BY <1>1, FS_Subset
<1>3. Cardinality(S) \in Nat
  BY <1>2, FS_CardinalityType
<1> QED BY <1>2, <1>3, PsuConstants

LEMMA PsuStart == ASSUME Psu!Start PROVE PsuInv
<1>1. /\ functional = Psu!Supplies /\ tallied = 0 /\ workable = 0 /\ previous = TotalPSU
      /\ status = "none" /\ redundancyLost = FALSE /\ signals = <<>> /\ unseen = FALSE
      /\ supplyEvents = 0
  BY DEF Psu!Start
<1>2. Tallied = {}
  <2>1. 0..(0 - 1) = {}
    OBVIOUS
  <2> QED BY <1>1, <2>1 DEF Tallied
<1>3. Cardinality(Tallied) = 0
  BY <1>2, FS_EmptySet
<1>4. PsuTypes
  <2>1. 0 \in 0..TotalPSU + 1 /\ 0 \in 0..MaxSupplyEvents /\ signals \in Seq(BOOLEAN)
    BY <1>1, PsuConstants
  <2>2. workable \in Int /\ previous \in Int
    BY <1>1, PsuConstants
  <2> QED BY <1>1, <2>1, <2>2, Zenon DEF PsuTypes
<1> QED BY <1>1, <1>3, <1>4, PsuConstants DEF PsuInv

\* A status that is set is that of the new count.
LEMMA StatusFollows ==
  ASSUME previous \in Int, NEW n \in Int, StatusFits(status, previous),
         status = "none" \/ n = previous + 1 \/ n = previous - 1
  PROVE  StatusFits(Psu!Status(n), n)
<1>1. CASE n > previous
  <2>1. CASE n >= RedundantPSU /\ n = TotalPSU
    <3>1. Psu!Status(n) = "fullyRedundant"
      BY <1>1, <2>1, PsuConstants DEF Psu!Status
    <3> QED BY <2>1, <3>1, PsuConstants DEF StatusFits
  <2>2. CASE n >= RedundantPSU /\ n # TotalPSU /\ previous < RedundantPSU
    <3>1. Psu!Status(n) = "redundancyRegained"
      BY <1>1, <2>2, PsuConstants DEF Psu!Status
    <3> QED BY <2>2, <3>1 DEF StatusFits
  <2>3. CASE n < RedundantPSU /\ previous = SufficientPSU
    <3>1. Psu!Status(n) = "sufficient"
      BY <1>1, <2>3, PsuConstants DEF Psu!Status
    <3> QED BY <2>3, <3>1 DEF StatusFits
  <2>4. CASE ~(n >= RedundantPSU /\ n = TotalPSU)
             /\ ~(n >= RedundantPSU /\ n # TotalPSU /\ previous < RedundantPSU)
             /\ ~(n < RedundantPSU /\ previous = SufficientPSU)
    <3>1. Psu!Status(n) = status
      BY <1>1, <2>4 DEF Psu!Status
    <3> QED BY <1>1, <2>4, <3>1, PsuConstants DEF StatusFits
  <2> QED BY <2>1, <2>2, <2>3, <2>4
<1>2. CASE n = previous
  <2>1. Psu!Status(n) = status
    BY <1>2 DEF Psu!Status
  <2> QED BY <1>2, <2>1
<1>3. CASE n < previous /\ n >= RedundantPSU
  <2>1. Psu!Status(n) \in {"redundancyDegradedFromFull", "redundancyDegraded"}
    BY <1>3, PsuConstants DEF Psu!Status
  <2> QED BY <1>3, <2>1 DEF StatusFits
<1>4. CASE n < previous /\ n < RedundantPSU
  <2>1. CASE n = SufficientPSU
    <3>1. Psu!Status(n) = "insufficient"
      BY <1>4, <2>1, PsuConstants DEF Psu!Status
    <3> QED BY <3>1 DEF StatusFits
  <2>2. CASE n # SufficientPSU /\ n > SufficientPSU /\ previous >= RedundantPSU
    <3>1. Psu!Status(n) = "sufficientFromRedundant"
      BY <1>4, <2>2, PsuConstants DEF Psu!Status
    <3> QED BY <1>4, <3>1 DEF StatusFits
  <2>3. CASE n # SufficientPSU /\ ~(n > SufficientPSU /\ previous >= RedundantPSU)
    <3>1. Psu!Status(n) = status
      BY <1>4, <2>3, PsuConstants DEF Psu!Status
    <3> QED BY <1>4, <2>3, <3>1, PsuConstants DEF StatusFits
  <2> QED BY <2>1, <2>2, <2>3, PsuConstants
<1> QED BY <1>1, <1>2, <1>3, <1>4, PsuConstants

\* A supply that changes changes their number by one.
LEMMA OneSupply ==
  ASSUME NEW S \in SUBSET Psu!Supplies, NEW x \in Psu!Supplies
  PROVE  /\ x \in S => Cardinality(S \ {x}) = Cardinality(S) - 1
         /\ x \notin S => Cardinality(S \cup {x}) = Cardinality(S) + 1
BY SuppliesCounted, FS_AddElement, FS_RemoveElement

LEMMA LeadsOn ==
  ASSUME NEW from, NEW sigs \in Seq(BOOLEAN), NEW to, NEW c, Leads(c, from, sigs, to),
         NEW up \in BOOLEAN, NEW then \in 0..TotalPSU,
         then = IF up THEN to + 1 ELSE to - 1
  PROVE  \E d : Leads(d, from, Append(sigs, up), then)
<1> DEFINE n == Len(sigs)
           d == [k \in 0..n + 1 |-> IF k <= n THEN c[k] ELSE then]
<1>1. n \in Nat
  OBVIOUS
<1>2. PICK q : q = Append(sigs, up)
  OBVIOUS
<1>3. /\ q \in Seq(BOOLEAN) /\ Len(q) = n + 1 /\ q[n + 1] = up
      /\ \A k \in 1..n : q[k] = sigs[k]
  BY <1>2, QueueGrows
<1>4. /\ c \in [0..n -> 0..TotalPSU] /\ c[0] = from /\ c[n] = to
      /\ \A k \in 1..n : c[k] = IF sigs[k] THEN c[k - 1] + 1 ELSE c[k - 1] - 1
  BY DEF Leads
<1> HIDE DEF n
<1>5. d \in [0..Len(q) -> 0..TotalPSU]
  BY <1>1, <1>3, <1>4
<1>6. d[0] = from /\ d[Len(q)] = then
  BY <1>1, <1>3, <1>4
<1>7. ASSUME NEW k \in 1..Len(q)
      PROVE  d[k] = IF q[k] THEN d[k - 1] + 1 ELSE d[k - 1] - 1
  <2>1. CASE k = n + 1
    <3>1. d[k] = then /\ d[k - 1] = to /\ q[k] = up
      BY <1>1, <1>3, <1>4, <2>1
    <3> QED BY <3>1
  <2>2. CASE k \in 1..n
    <3>1. d[k] = c[k] /\ d[k - 1] = c[k - 1] /\ q[k] = sigs[k]
      BY <1>1, <1>3, <2>2
    <3> QED BY <1>4, <2>2, <3>1
  <2> QED BY <1>1, <1>3, <2>1, <2>2
<1>8. Leads(d, from, q, then)
  BY <1>5, <1>6, <1>7 DEF Leads
<1> QED BY <1>2, <1>8

LEMMA LeadsFrom ==
  ASSUME NEW from, NEW sigs \in Seq(BOOLEAN), sigs # <<>>, NEW to, NEW c,
         Leads(c, from, sigs, to)
  PROVE  LET next == IF Head(sigs) THEN from + 1 ELSE from - 1
         IN  next \in 0..TotalPSU /\ \E d : Leads(d, next, Tail(sigs), to)
<1> DEFINE n == Len(sigs)
           d == [k \in 0..n - 1 |-> c[k + 1]]
<1>1. PICK q : q = Tail(sigs)
  OBVIOUS
<1>2. /\ q \in Seq(BOOLEAN) /\ Len(q) = n - 1 /\ n >= 1 /\ Head(sigs) = sigs[1] /\ n \in Nat
      /\ \A k \in 1..n - 1 : q[k] = sigs[k + 1]
  BY <1>1, QueueShrinks
<1>3. /\ c \in [0..n -> 0..TotalPSU] /\ c[0] = from /\ c[n] = to
      /\ \A k \in 1..n : c[k] = IF sigs[k] THEN c[k - 1] + 1 ELSE c[k - 1] - 1
  BY DEF Leads
<1> HIDE DEF n
<1>4. c[1] = (IF Head(sigs) THEN from + 1 ELSE from - 1) /\ c[1] \in 0..TotalPSU
  <2>1. 1 \in 1..n /\ 1 \in 0..n /\ 1 - 1 = 0
    BY <1>2
  <2>2. c[1] = IF sigs[1] THEN c[0] + 1 ELSE c[0] - 1
    BY <1>3, <2>1
  <2> QED BY <1>2, <1>3, <2>1, <2>2
<1>5. d \in [0..Len(q) -> 0..TotalPSU] /\ d[0] = c[1] /\ d[Len(q)] = to
  BY <1>2, <1>3
<1>6. ASSUME NEW k \in 1..Len(q)
      PROVE  d[k] = IF q[k] THEN d[k - 1] + 1 ELSE d[k - 1] - 1
  <2>1. /\ d[k] = c[k + 1] /\ d[k - 1] = c[k] /\ q[k] = sigs[k + 1] /\ k + 1 \in 1..n
        /\ (k + 1) - 1 = k
    BY <1>2
  <2>2. c[k + 1] = IF sigs[k + 1] THEN c[k] + 1 ELSE c[k] - 1
    BY <1>3, <2>1
  <2> QED BY <2>1, <2>2
<1>7. Leads(d, c[1], q, to)
  BY <1>5, <1>6 DEF Leads
<1> QED BY <1>1, <1>4, <1>7

LEMMA SupplyChangesStep == ASSUME PsuInv, Psu!SupplyChanges PROVE PsuInv'
<1>1. PICK s \in Psu!Supplies :
        /\ functional' = IF s \in functional THEN functional \ {s} ELSE functional \cup {s}
        /\ signals' = IF Psu!Monitored THEN Append(signals, s \in functional') ELSE signals
        /\ unseen' = (unseen \/ (s < tallied /\ ~Psu!Monitored))
  BY DEF Psu!SupplyChanges
<1>2. /\ UNCHANGED <<tallied, workable, previous, status, redundancyLost>>
      /\ supplyEvents' \in 0..MaxSupplyEvents
  BY PsuConstants DEF Psu!SupplyChanges, Psu!Event, PsuInv, PsuTypes
<1>3. functional' \subseteq Psu!Supplies
  BY <1>1 DEF PsuInv, PsuTypes
<1>4. unseen' \in BOOLEAN /\ (unseen' = FALSE => unseen = FALSE)
  BY <1>1, Zenon DEF PsuInv, PsuTypes
<1>5. PICK up \in BOOLEAN : up = (s \in functional')
  <2>1. (s \in functional') = TRUE \/ (s \in functional') = FALSE
    OBVIOUS
  <2> QED BY <2>1
<1>6. signals' = (IF Psu!Monitored THEN Append(signals, up) ELSE signals)
      /\ signals' \in Seq(BOOLEAN)
  BY <1>1, <1>5, QueueGrows DEF PsuInv, PsuTypes
<1>7. PsuTypes'
  BY <1>2, <1>3, <1>4, <1>6 DEF PsuInv, PsuTypes
<1>8. CASE tallied <= TotalPSU
  <2>1. ~Psu!Monitored
    BY <1>8, PsuConstants DEF Psu!Monitored, PsuInv, PsuTypes
  <2>2. ASSUME unseen' = FALSE PROVE Tallied' = Tallied
    <3>1. ~(s < tallied)
      BY <1>1, <2>1, <2>2
    <3>2. s \notin 0..tallied - 1
      BY <3>1 DEF PsuInv, PsuTypes
    <3> QED BY <1>1, <1>2, <3>2 DEF Tallied
  <2>3. signals' = signals /\ tallied' = tallied /\ ~(tallied > TotalPSU)
    BY <1>2, <1>6, <2>1 DEF Psu!Monitored
  <2>4. unseen' = FALSE => workable' = Cardinality(Tallied')
    BY <1>2, <1>4, <1>8, <2>2 DEF PsuInv
  <2> QED BY <1>2, <1>7, <1>8, <2>3, <2>4 DEF PsuInv
<1>9. CASE tallied > TotalPSU
  <2>1. Psu!Monitored
    BY <1>9 DEF Psu!Monitored
  <2>2. ASSUME unseen' = FALSE
        PROVE  \E c : Leads(c, workable, Append(signals, up), Cardinality(functional'))
    <3>1. PICK c : Leads(c, workable, signals, Cardinality(functional))
      BY <1>4, <1>9, <2>2 DEF PsuInv
    <3>2. Cardinality(functional') = IF up THEN Cardinality(functional) + 1
                                     ELSE Cardinality(functional) - 1
      <4>1. CASE s \in functional
        <5>1. up = FALSE /\ functional' = functional \ {s}
          BY <1>1, <1>5, <4>1
        <5> QED BY <4>1, <5>1, OneSupply DEF PsuInv, PsuTypes
      <4>2. CASE s \notin functional
        <5>1. up = TRUE /\ functional' = functional \cup {s}
          BY <1>1, <1>5, <4>2
        <5> QED BY <4>2, <5>1, OneSupply DEF PsuInv, PsuTypes
      <4> QED BY <4>1, <4>2
    <3>3. Cardinality(functional') \in 0..TotalPSU
      BY <1>3, SuppliesCounted
    <3> QED BY <3>1, <3>2, <3>3, LeadsOn DEF PsuInv, PsuTypes
  <2>3. signals' = Append(signals, up)
    BY <1>6, <2>1
  <2>4. ~(tallied <= TotalPSU)
    BY <1>9, PsuConstants DEF PsuInv, PsuTypes
  <2> QED BY <1>2, <1>4, <1>7, <1>9, <2>2, <2>3, <2>4 DEF PsuInv
<1>10. tallied \in Int /\ TotalPSU \in Int
  BY PsuConstants DEF PsuInv, PsuTypes
<1> QED BY <1>8, <1>9, <1>10

LEMMA PsuStep == ASSUME PsuInv, Psu!Next \/ UNCHANGED psuVars PROVE PsuInv'
<1>0. tallied \in Nat /\ tallied <= TotalPSU + 1 /\ TotalPSU \in Nat
  BY PsuConstants DEF PsuInv, PsuTypes
<1>1. CASE Psu!ReadSupply
  <2>1. /\ tallied < TotalPSU /\ tallied' = tallied + 1
        /\ workable' = IF tallied \in functional THEN workable + 1 ELSE workable
        /\ UNCHANGED <<functional, previous, status, redundancyLost, signals, unseen, supplyEvents>>
    BY <1>1 DEF Psu!ReadSupply
  <2>2. /\ signals = <<>> /\ previous = TotalPSU /\ status = "none" /\ workable \in 0..tallied
        /\ unseen = FALSE => workable = Cardinality(Tallied)
    BY <1>0, <2>1 DEF PsuInv
  <2>3. workable' \in 0..tallied' /\ tallied' \in 0..TotalPSU
    BY <1>0, <2>1, <2>2
  <2>4. ASSUME unseen = FALSE PROVE workable' = Cardinality(Tallied')
    <3>1. Tallied \in SUBSET Psu!Supplies /\ tallied \notin Tallied /\ tallied \in Psu!Supplies
      BY <1>0, <2>1 DEF Tallied, Psu!Supplies, PsuInv, PsuTypes
    <3>2. 0..tallied' - 1 = (0..tallied - 1) \cup {tallied}
      BY <1>0, <2>1
    <3>3. CASE tallied \in functional
      <4>1. Tallied' = Tallied \cup {tallied}
        BY <2>1, <3>2, <3>3 DEF Tallied
      <4> QED BY <2>1, <2>2, <2>4, <3>1, <3>3, <4>1, OneSupply
    <3>4. CASE tallied \notin functional
      <4>1. Tallied' = Tallied
        BY <2>1, <3>2, <3>4 DEF Tallied
      <4> QED BY <2>1, <2>2, <2>4, <3>4, <4>1
    <3> QED BY <3>3, <3>4
  <2>5. PsuTypes'
    BY <1>0, <2>1, <2>3 DEF PsuInv, PsuTypes
  <2>6. ~(tallied' > TotalPSU)
    BY <1>0, <2>1
  <2>7. signals' = <<>> /\ previous' = TotalPSU /\ status' = "none" /\ unseen' = unseen
    BY <2>1, <2>2
  <2> QED BY <2>3, <2>4, <2>5, <2>6, <2>7, Zenon DEF PsuInv
<1>2. CASE Psu!InstallMatch
  <2>1. /\ tallied = TotalPSU /\ tallied' = TotalPSU + 1
        /\ workable' = workable /\ previous' = workable /\ status' = Psu!Status(workable)
        /\ UNCHANGED <<functional, signals, unseen, supplyEvents>>
    BY <1>2 DEF Psu!InstallMatch, Psu!SetStatus
  <2>2. redundancyLost' \in BOOLEAN
    BY <1>2, Zenon DEF Psu!InstallMatch, Psu!SetStatus, PsuInv, PsuTypes
  <2>3. /\ signals = <<>> /\ previous = TotalPSU /\ status = "none" /\ workable \in 0..TotalPSU
        /\ unseen = FALSE => workable = Cardinality(Tallied)
    BY <1>0, <2>1 DEF PsuInv
  <2>4. StatusFits(status', workable')
    <3>1. StatusFits(status, previous)
      BY <2>3 DEF StatusFits
    <3> QED BY <2>1, <2>3, <3>1, StatusFollows DEF PsuInv, PsuTypes
  <2>5. ASSUME unseen = FALSE
        PROVE  \E c : Leads(c, workable', signals', Cardinality(functional'))
    <3>1. Tallied = functional
      BY <1>0, <2>1 DEF Tallied, PsuInv, PsuTypes, Psu!Supplies
    <3>2. Cardinality(functional) = workable /\ Len(signals) = 0
      BY <2>3, <2>5, <3>1
    <3>3. Leads([k \in 0..0 |-> workable], workable, signals, workable)
      <4>1. 1..0 = {} /\ 0 \in 0..0
        OBVIOUS
      <4> QED BY <2>3, <3>2, <4>1 DEF Leads
    <3> QED BY <2>1, <3>2, <3>3
  <2>6. PsuTypes'
    BY <1>0, <2>1, <2>2 DEF PsuInv, PsuTypes
  <2>7. ~(tallied' <= TotalPSU)
    BY <1>0, <2>1
  <2> QED BY <2>1, <2>4, <2>5, <2>6, <2>7 DEF PsuInv
<1>3. CASE Psu!PsuEvent
  <2>1. /\ tallied > TotalPSU /\ signals # <<>> /\ signals' = Tail(signals)
        /\ workable' = Psu!Counted(Head(signals)) /\ previous' = workable'
        /\ status' = Psu!Status(workable')
        /\ UNCHANGED <<functional, tallied, unseen, supplyEvents>>
    BY <1>3 DEF Psu!PsuEvent, Psu!Monitored, Psu!SetStatus
  <2>2. redundancyLost' \in BOOLEAN
    BY <1>3, Zenon DEF Psu!PsuEvent, Psu!SetStatus, PsuInv, PsuTypes
  <2>3. /\ Head(signals) \in BOOLEAN /\ signals' \in Seq(BOOLEAN)
    BY <2>1, QueueShrinks DEF PsuInv, PsuTypes
  <2>4. workable' = IF Head(signals) THEN workable + 1 ELSE workable - 1
    BY <2>1, Zenon DEF Psu!Counted
  <2>5. workable' \in Int
    <3>1. workable \in Int
      BY DEF PsuInv, PsuTypes
    <3>2. workable + 1 \in Int /\ workable - 1 \in Int
      BY <3>1
    <3> QED BY <2>4, <3>2, Zenon
  <2>6. previous = workable /\ StatusFits(status, workable)
    BY <2>1 DEF PsuInv
  <2>7. PsuTypes'
    BY <2>1, <2>2, <2>3, <2>5 DEF PsuInv, PsuTypes
  <2>8. StatusFits(status', workable')
    <3>1. workable' = previous + 1 \/ workable' = previous - 1
      BY <2>4, <2>6, Zenon
    <3>2. previous \in Int /\ StatusFits(status, previous)
      BY <2>6, Zenon DEF PsuInv, PsuTypes
    <3>3. StatusFits(Psu!Status(workable'), workable')
      BY <2>5, <3>1, <3>2, StatusFollows
    <3> QED BY <2>1, <3>3
  <2>9. ASSUME unseen = FALSE
        PROVE  \E c : Leads(c, workable', signals', Cardinality(functional'))
    <3>1. PICK c : Leads(c, workable, signals, Cardinality(functional))
      BY <2>1, <2>9 DEF PsuInv
    <3> QED BY <2>1, <2>4, <3>1, LeadsFrom DEF PsuInv, PsuTypes
  <2>10. ~(tallied' <= TotalPSU)
    BY <1>0, <2>1
  <2> QED BY <2>1, <2>7, <2>8, <2>9, <2>10 DEF PsuInv
<1>4. CASE Psu!Recreate
  <2>1. /\ tallied' = 0 /\ workable' = 0 /\ previous' = TotalPSU /\ status' = "none"
        /\ redundancyLost' = FALSE /\ signals' = <<>> /\ unseen' = FALSE
        /\ UNCHANGED functional /\ supplyEvents' \in 0..MaxSupplyEvents
    BY <1>4, PsuConstants DEF Psu!Recreate, Psu!Event, PsuInv, PsuTypes
  <2>2. Tallied' = {}
    <3>1. 0..(0 - 1) = {}
      OBVIOUS
    <3> QED BY <2>1, <3>1 DEF Tallied
  <2>3. Cardinality(Tallied') = 0
    BY <2>2, FS_EmptySet
  <2>4. PsuTypes'
    <3>1. 0 \in 0..TotalPSU + 1 /\ 0 \in Int /\ TotalPSU \in Int /\ signals' \in Seq(BOOLEAN)
      BY <1>0, <2>1
    <3> QED BY <2>1, <3>1, Zenon DEF PsuInv, PsuTypes
  <2> QED BY <1>0, <2>1, <2>3, <2>4 DEF PsuInv
<1>5. CASE UNCHANGED psuVars
  BY <1>5, Zenon DEF psuVars, PsuInv, PsuTypes, Tallied
<1> QED BY <1>1, <1>2, <1>3, <1>4, <1>5, SupplyChangesStep DEF Psu!Next, Psu!Proceeds

LEMMA PsuShows == ASSUME PsuInv PROVE Psu!TypeOK /\ Psu!RedundancyIsCounted
<1>0. tallied \in Nat /\ TotalPSU \in Nat
  BY PsuConstants DEF PsuInv, PsuTypes
<1>1. unseen = FALSE => workable \in 0..TotalPSU
  <2>1. CASE tallied <= TotalPSU
    BY <1>0, <2>1 DEF PsuInv
  <2>2. ASSUME tallied > TotalPSU, unseen = FALSE PROVE workable \in 0..TotalPSU
    <3>1. PICK c : Leads(c, workable, signals, Cardinality(functional))
      BY <2>2 DEF PsuInv
    <3>2. 0 \in 0..Len(signals)
      BY DEF PsuInv, PsuTypes
    <3>3. c \in [0..Len(signals) -> 0..TotalPSU] /\ c[0] = workable
      BY <3>1, Zenon DEF Leads
    <3>4. ASSUME NEW N \in Nat, c \in [0..N -> 0..TotalPSU] PROVE c[0] \in 0..TotalPSU
      BY <3>4
    <3>5. Len(signals) \in Nat
      BY DEF PsuInv, PsuTypes
    <3>6. c[0] \in 0..TotalPSU
      BY <3>3, <3>4, <3>5
    <3> QED BY <3>3, <3>6, Zenon
  <2>3. unseen \in BOOLEAN
    BY DEF PsuInv, PsuTypes
  <2>4. tallied <= TotalPSU \/ tallied > TotalPSU
    BY <1>0
  <2> QED BY <2>1, <2>2, <2>3, <2>4
<1>2. Psu!TypeOK
  BY <1>1 DEF PsuInv, PsuTypes, Psu!TypeOK
<1>3. ASSUME tallied > TotalPSU, signals = <<>>, unseen = FALSE
      PROVE  /\ workable = Cardinality(functional)
             /\ status = "fullyRedundant" => functional = Psu!Supplies
             /\ StatusFits(status, Cardinality(functional))
  <2>1. PICK c : Leads(c, workable, signals, Cardinality(functional))
    BY <1>3 DEF PsuInv
  <2>2. workable = Cardinality(functional)
    BY <1>3, <2>1 DEF Leads
  <2>3. StatusFits(status, workable)
    BY <1>3 DEF PsuInv
  <2> QED BY <2>2, <2>3, SuppliesCounted DEF StatusFits, PsuInv, PsuTypes
<1>4. unseen \in BOOLEAN
  BY DEF PsuInv, PsuTypes
<1>5. Psu!RedundancyIsCounted
  BY <1>3, <1>4, PsuCounts DEF Psu!RedundancyIsCounted, Psu!Monitored, StatusFits
<1> QED BY <1>2, <1>5

-----------------------------------------------------------------------------
(* Shared memory.                                                          *)
Records == [ready : BOOLEAN, held : BOOLEAN, epoch : Nat, seq : Nat, first : Nat, second : Nat,
            last : Nat]
Reading == {"first", "second", "load2"}

Mappings == [inode : 0..2, epoch : Nat]
Readers == [at : {"idle", "load1", "done", "contention"} \cup Reading, seq1 : Nat, seq2 : Nat,
            first : Nat, second : Nat, tries : 0..Retries, floor : Nat, crossed : BOOLEAN]
Satellites == [value : Nat, second : Nat, available : BOOLEAN, errors : 0..ErrorThreshold,
               floor : Nat, crossed : BOOLEAN]

ShmTypes ==
    /\ files \in [1..2 -> Records] /\ path \in 0..2 /\ written \in 0..MaxWrites
    /\ writer \in {"down", "fill", "lock", "idle", "first", "second", "end"}
    /\ mapping \in Mappings
    /\ reader \in Readers
    /\ seenWriter \in BOOLEAN /\ power \in BOOLEAN /\ shmEvents \in 0..MaxShmEvents
    /\ satellite \in Satellites

\* What a record holds: outside a write, the last value in both its parts.
RecordFits(f) ==
    /\ f.last <= f.first /\ f.last <= f.second /\ f.first <= written /\ f.second <= written
    /\ f.seq % 2 = 0 => f.first = f.last /\ f.second = f.last

WriterFits ==
    /\ writer # "down" => path \in 1..2
    /\ writer \in {"fill", "lock", "idle"} => files[path].seq % 2 = 0
    /\ writer \in {"first", "second", "end"} => files[path].seq % 2 = 1
    /\ writer \in {"second", "end"} => files[path].first = written
    /\ writer = "end" => files[path].second = written

\* What the reader copied is what the record holds, as long as its sequence number is the same.
ReaderFits(r, f) ==
    /\ r.floor <= f.last
    /\ r.at \in Reading => r.seq1 % 2 = 0 /\ r.seq1 <= f.seq
    /\ r.at \in {"second", "load2"} /\ f.seq = r.seq1 => r.first = f.first
    /\ r.at = "load2" /\ f.seq = r.seq1 => r.second = f.second
    /\ r.at = "done" => r.second = r.first /\ r.floor <= r.first

ShmInv ==
    /\ ShmTypes
    /\ \A i \in 1..2 : RecordFits(files[i]) /\ (files[i].held => i = path /\ writer # "down")
    /\ WriterFits
    /\ reader.at # "idle" =>
          mapping.inode \in 1..2 /\ (~reader.crossed => ReaderFits(reader, files[mapping.inode]))
    /\ Shm!ShownIsWhole

LEMMA ShmConstants ==
  Retries \in Nat /\ ErrorThreshold \in Nat \ {0} /\ MaxWrites \in Nat /\ MaxShmEvents \in Nat
BY DaemonsAssumption DEF Shm!ShmAssumption

LEMMA Parity ==
  ASSUME NEW n \in Nat
  PROVE  /\ n % 2 = 0 \/ n % 2 = 1
         /\ n % 2 = 0 => (n + 1) % 2 = 1
         /\ n % 2 = 1 => (n + 1) % 2 = 0
OBVIOUS

LEMMA BlankFits ==
  ASSUME NEW available \in BOOLEAN, NEW n \in 0..ErrorThreshold
  PROVE  [Shm!Blank(available) EXCEPT !.errors = n] \in Satellites
BY DEF Shm!Blank, Shm!NaN, Satellites

LEMMA ShmStart == ASSUME Shm!Start PROVE ShmInv
<1>1. /\ files = [i \in 1..2 |-> Shm!Empty] /\ path = 0 /\ writer = "down" /\ written = 0
      /\ mapping = Shm!NotMapped /\ reader = Shm!Idle /\ seenWriter = FALSE
      /\ satellite = Shm!Blank(TRUE) /\ power = TRUE /\ shmEvents = 0
  BY DEF Shm!Start
<1>2. ShmTypes
  <2>1. files \in [1..2 -> Records]
    BY <1>1 DEF Shm!Empty, Records
  <2>2. mapping \in Mappings
    BY <1>1 DEF Shm!NotMapped, Mappings
  <2>3. reader \in Readers
    BY <1>1, ShmConstants DEF Shm!Idle, Readers, Reading
  <2>4. satellite \in Satellites
    BY <1>1, ShmConstants DEF Shm!Blank, Shm!NaN, Satellites
  <2>5. path \in 0..2 /\ written \in 0..MaxWrites /\ shmEvents \in 0..MaxShmEvents
    BY <1>1, ShmConstants
  <2> QED BY <1>1, <2>1, <2>2, <2>3, <2>4, <2>5 DEF ShmTypes
<1>3. ASSUME NEW i \in 1..2
      PROVE  RecordFits(files[i]) /\ (files[i].held => i = path /\ writer # "down")
  BY <1>1 DEF RecordFits, Shm!Empty
<1>4. WriterFits /\ reader.at = "idle" /\ Shm!ShownIsWhole
  BY <1>1 DEF WriterFits, Shm!Idle, Shm!ShownIsWhole, Shm!Blank, Shm!NaN
<1> QED BY <1>2, <1>3, <1>4 DEF ShmInv

\* A writer that goes on does not disturb what the reader copied.
LEMMA ReaderGoesOn ==
  ASSUME NEW r, r.seq1 \in Nat, r.floor \in Nat, NEW f \in Records, NEW g \in Records,
         ReaderFits(r, f), g.last >= f.last, g.seq >= f.seq,
         f.seq % 2 = 0 /\ g.seq = f.seq => g.first = f.first /\ g.second = f.second
  PROVE  ReaderFits(r, g)
BY DEF ReaderFits, Records, Reading

\* A step of the writer that writes to the record under the path.
LEMMA RecordWritten ==
  ASSUME ShmInv, NEW g \in Records, path \in 1..2, files' = [files EXCEPT ![path] = g],
         UNCHANGED <<path, mapping, reader, seenWriter, satellite, power>>, writer' # "down",
         writer' \in {"fill", "lock", "idle", "first", "second", "end"},
         written' \in 0..MaxWrites, written' >= written, shmEvents' = shmEvents,
         RecordFits(g)', WriterFits',
         g.last >= files[path].last, g.seq >= files[path].seq,
         files[path].seq % 2 = 0 /\ g.seq = files[path].seq =>
            g.first = files[path].first /\ g.second = files[path].second
  PROVE  ShmInv'
<1>1. files' \in [1..2 -> Records] /\ files'[path] = g
      /\ \A i \in 1..2 : i # path => files'[i] = files[i]
  BY DEF ShmInv, ShmTypes
<1>2. ShmTypes'
  BY <1>1 DEF ShmInv, ShmTypes
<1>3. ASSUME NEW i \in 1..2
      PROVE  RecordFits(files[i])' /\ (files'[i].held => i = path' /\ writer' # "down")
  <2>1. CASE i = path
    BY <1>1, <2>1 DEF RecordFits
  <2>2. CASE i # path
    <3>1. files'[i] = files[i] /\ files[i] \in Records /\ RecordFits(files[i]) /\ ~files[i].held
      BY <1>1, <2>2 DEF ShmInv, ShmTypes
    <3> QED BY <3>1 DEF RecordFits, Records, ShmInv, ShmTypes
  <2> QED BY <2>1, <2>2
<1>4. ASSUME reader.at # "idle", ~reader.crossed
      PROVE  ReaderFits(reader, files'[mapping.inode])
  <2>1. mapping.inode \in 1..2 /\ ReaderFits(reader, files[mapping.inode])
    BY <1>4 DEF ShmInv
  <2>2. reader.seq1 \in Nat /\ reader.floor \in Nat /\ files[path] \in Records
    BY DEF ShmInv, ShmTypes, Readers
  <2>3. CASE mapping.inode = path
    BY <1>1, <2>1, <2>2, <2>3, ReaderGoesOn
  <2>4. CASE mapping.inode # path
    BY <1>1, <2>1, <2>4
  <2> QED BY <2>3, <2>4
<1>5. reader.at # "idle" => mapping.inode \in 1..2
  BY DEF ShmInv
<1>6. Shm!ShownIsWhole'
  BY DEF ShmInv, Shm!ShownIsWhole
<1> QED BY <1>2, <1>3, <1>4, <1>5, <1>6 DEF ShmInv

LEMMA ShmWriterStep == ASSUME ShmInv, Shm!WriterStep PROVE ShmInv'
<1>1. CASE Shm!Fill
  <2>1. PICK i \in 1..2 :
           /\ i = path \/ i # mapping.inode
           /\ files' = [files EXCEPT ![i] = [Shm!Empty EXCEPT !.epoch = files[i].epoch + 1]]
           /\ path' = i
    BY <1>1 DEF Shm!Fill
  <2>2. /\ writer = "down" /\ writer' = "fill"
        /\ reader' = IF i = mapping.inode THEN [reader EXCEPT !.crossed = TRUE] ELSE reader
        /\ UNCHANGED <<written, shmEvents, mapping, seenWriter, satellite, power>>
    BY <1>1, <2>1 DEF Shm!Fill, Shm!WriterUnchanged
  <2>3. files[i].epoch + 1 \in Nat
    BY DEF ShmInv, ShmTypes, Records
  <2>4. PICK g : g = [Shm!Empty EXCEPT !.epoch = files[i].epoch + 1]
    OBVIOUS
  <2>5. /\ g \in Records /\ ~g.held
        /\ g.seq = 0 /\ g.first = 0 /\ g.second = 0 /\ g.last = 0
    BY <2>3, <2>4 DEF Records, Shm!Empty
  <2>6. /\ files' \in [1..2 -> Records] /\ files'[i] = g
        /\ \A j \in 1..2 : j # i => files'[j] = files[j]
    BY <2>1, <2>4, <2>5 DEF ShmInv, ShmTypes
  <2>7. ShmTypes'
    <3>1. reader' \in Readers
      BY <2>2 DEF ShmInv, ShmTypes, Readers
    <3> QED BY <2>1, <2>2, <2>6, <3>1 DEF ShmInv, ShmTypes
  <2>8. ASSUME NEW j \in 1..2
        PROVE  RecordFits(files[j])' /\ (files'[j].held => j = path' /\ writer' # "down")
    <3>1. CASE j = i
      <4>1. written' \in Nat
        BY <2>2, ShmConstants DEF ShmInv, ShmTypes
      <4> QED BY <2>5, <2>6, <3>1, <4>1 DEF RecordFits
    <3>2. CASE j # i
      <4>1. files'[j] = files[j] /\ written' = written /\ RecordFits(files[j]) /\ ~files[j].held
        BY <2>2, <2>6, <3>2 DEF ShmInv
      <4> QED BY <4>1 DEF RecordFits
    <3> QED BY <3>1, <3>2
  <2>9. WriterFits'
    <3>1. path' \in 1..2 /\ files'[path'] = g /\ writer' = "fill"
      BY <2>1, <2>2, <2>6
    <3>2. g.seq % 2 = 0
      BY <2>5
    <3> QED BY <3>1, <3>2 DEF WriterFits
  <2>10. ASSUME reader'.at # "idle", ~reader'.crossed
         PROVE  mapping.inode \in 1..2 /\ ReaderFits(reader', files'[mapping.inode])
    <3>1. i # mapping.inode /\ reader' = reader
      BY <2>2, <2>10 DEF ShmInv, ShmTypes, Readers
    <3> QED BY <2>6, <2>10, <3>1 DEF ShmInv
  <2>11. reader'.at = reader.at
    BY <2>2 DEF ShmInv, ShmTypes, Readers
  <2>12. reader.at # "idle" => mapping.inode \in 1..2
    BY DEF ShmInv
  <2>13. Shm!ShownIsWhole'
    BY <2>2 DEF ShmInv, Shm!ShownIsWhole
  <2> QED BY <2>2, <2>7, <2>8, <2>9, <2>10, <2>11, <2>12, <2>13 DEF ShmInv
<1>2. CASE Shm!Crash
  <2>1. /\ writer # "down" /\ writer' = "down" /\ files' = [files EXCEPT ![path].held = FALSE]
        /\ shmEvents < MaxShmEvents /\ shmEvents' = shmEvents + 1
        /\ UNCHANGED <<path, written, reader, mapping, seenWriter, satellite, power>>
    BY <1>2 DEF Shm!Crash, Shm!WriterUnchanged
  <2>2. /\ files' \in [1..2 -> Records]
        /\ \A j \in 1..2 : /\ files'[j].seq = files[j].seq /\ files'[j].first = files[j].first
                           /\ files'[j].second = files[j].second /\ files'[j].last = files[j].last
                           /\ ~files'[j].held
    BY <2>1 DEF ShmInv, ShmTypes, Records, WriterFits
  <2>3. shmEvents' \in 0..MaxShmEvents
    BY <2>1, ShmConstants DEF ShmInv, ShmTypes
  <2>4. ShmTypes'
    BY <2>1, <2>2, <2>3 DEF ShmInv, ShmTypes
  <2>5. \A j \in 1..2 : RecordFits(files[j])' /\ ~files'[j].held
    BY <2>1, <2>2 DEF ShmInv, RecordFits
  <2>6. WriterFits'
    BY <2>1 DEF WriterFits
  <2>7. ASSUME reader.at # "idle"
        PROVE  mapping.inode \in 1..2
               /\ (~reader.crossed => ReaderFits(reader, files'[mapping.inode]))
    BY <2>2, <2>7 DEF ShmInv, ReaderFits
  <2>8. Shm!ShownIsWhole'
    BY <2>1 DEF ShmInv, Shm!ShownIsWhole
  <2> QED BY <2>1, <2>4, <2>5, <2>6, <2>7, <2>8 DEF ShmInv
<1>3. CASE Shm!Ready
  <2>1. /\ writer = "fill" /\ writer' = "lock" /\ written' = written
        /\ files' = [files EXCEPT ![path].ready = TRUE]
        /\ UNCHANGED <<path, reader, shmEvents, mapping, seenWriter, satellite, power>>
    BY <1>3 DEF Shm!Ready, Shm!WriterUnchanged
  <2>2. /\ path \in 1..2 /\ files[path] \in Records /\ RecordFits(files[path])
        /\ written \in 0..MaxWrites /\ MaxWrites \in Nat /\ WriterFits
    BY <2>1, ShmConstants DEF ShmInv, ShmTypes, WriterFits
  <2>3. PICK g : g = [files[path] EXCEPT !.ready = TRUE]
    OBVIOUS
  <2>4. g \in Records /\ g.seq = files[path].seq /\ g.first = files[path].first /\ g.second = files[path].second /\ g.last = files[path].last
    BY <2>2, <2>3 DEF Records
  <2>5. files' = [files EXCEPT ![path] = g] /\ files'[path] = g
    BY <2>1, <2>2, <2>3 DEF ShmInv, ShmTypes
  <2>6. written' \in 0..MaxWrites /\ written' >= written
    BY <2>1, <2>2
  <2>7. RecordFits(g)' /\ WriterFits'
    BY <2>1, <2>2, <2>4, <2>5, <2>6 DEF RecordFits, WriterFits, Records
  <2>8. /\ g.last >= files[path].last /\ g.seq >= files[path].seq
        /\ files[path].seq % 2 = 0 /\ g.seq = files[path].seq =>
              g.first = files[path].first /\ g.second = files[path].second
    BY <2>1, <2>2, <2>4 DEF Records, RecordFits, WriterFits
  <2> QED BY <2>1, <2>2, <2>4, <2>5, <2>6, <2>7, <2>8, RecordWritten
<1>4. CASE Shm!HoldLock
  <2>1. /\ writer = "lock" /\ writer' = "idle" /\ written' = written
        /\ files' = [files EXCEPT ![path].held = TRUE]
        /\ UNCHANGED <<path, reader, shmEvents, mapping, seenWriter, satellite, power>>
    BY <1>4 DEF Shm!HoldLock, Shm!WriterUnchanged
  <2>2. /\ path \in 1..2 /\ files[path] \in Records /\ RecordFits(files[path])
        /\ written \in 0..MaxWrites /\ MaxWrites \in Nat /\ WriterFits
    BY <2>1, ShmConstants DEF ShmInv, ShmTypes, WriterFits
  <2>3. PICK g : g = [files[path] EXCEPT !.held = TRUE]
    OBVIOUS
  <2>4. g \in Records /\ g.seq = files[path].seq /\ g.first = files[path].first /\ g.second = files[path].second /\ g.last = files[path].last
    BY <2>2, <2>3 DEF Records
  <2>5. files' = [files EXCEPT ![path] = g] /\ files'[path] = g
    BY <2>1, <2>2, <2>3 DEF ShmInv, ShmTypes
  <2>6. written' \in 0..MaxWrites /\ written' >= written
    BY <2>1, <2>2
  <2>7. RecordFits(g)' /\ WriterFits'
    BY <2>1, <2>2, <2>4, <2>5, <2>6 DEF RecordFits, WriterFits, Records
  <2>8. /\ g.last >= files[path].last /\ g.seq >= files[path].seq
        /\ files[path].seq % 2 = 0 /\ g.seq = files[path].seq =>
              g.first = files[path].first /\ g.second = files[path].second
    BY <2>1, <2>2, <2>4 DEF Records, RecordFits, WriterFits
  <2> QED BY <2>1, <2>2, <2>4, <2>5, <2>6, <2>7, <2>8, RecordWritten
<1>5. CASE Shm!BeginWrite
  <2>1. /\ writer = "idle" /\ writer' = "first" /\ written < MaxWrites /\ written' = written + 1
        /\ files' = [files EXCEPT ![path] = [files[path] EXCEPT !.seq = @ + 1]]
        /\ UNCHANGED <<path, reader, shmEvents, mapping, seenWriter, satellite, power>>
    BY <1>5 DEF Shm!BeginWrite, Shm!Write, Shm!Record, Shm!WriterUnchanged
  <2>2. /\ path \in 1..2 /\ files[path] \in Records /\ RecordFits(files[path])
        /\ written \in 0..MaxWrites /\ MaxWrites \in Nat /\ WriterFits
    BY <2>1, ShmConstants DEF ShmInv, ShmTypes, WriterFits
  <2>3. PICK g : g = [files[path] EXCEPT !.seq = @ + 1]
    OBVIOUS
  <2>4. g \in Records /\ g.seq = files[path].seq + 1 /\ g.first = files[path].first /\ g.second = files[path].second /\ g.last = files[path].last
    BY <2>2, <2>3 DEF Records
  <2>5. files' = [files EXCEPT ![path] = g] /\ files'[path] = g
    BY <2>1, <2>2, <2>3 DEF ShmInv, ShmTypes
  <2>6. written' \in 0..MaxWrites /\ written' >= written
    BY <2>1, <2>2
  <2>7. RecordFits(g)' /\ WriterFits'
    BY <2>1, <2>2, <2>4, <2>5, Parity, <2>6 DEF RecordFits, WriterFits, Records
  <2>8. /\ g.last >= files[path].last /\ g.seq >= files[path].seq
        /\ files[path].seq % 2 = 0 /\ g.seq = files[path].seq =>
              g.first = files[path].first /\ g.second = files[path].second
    BY <2>1, <2>2, <2>4 DEF Records, RecordFits, WriterFits
  <2> QED BY <2>1, <2>2, <2>4, <2>5, <2>6, <2>7, <2>8, RecordWritten
<1>6. CASE Shm!FirstPart
  <2>1. /\ writer = "first" /\ writer' = "second" /\ written' = written
        /\ files' = [files EXCEPT ![path] = [files[path] EXCEPT !.first = written]]
        /\ UNCHANGED <<path, reader, shmEvents, mapping, seenWriter, satellite, power>>
    BY <1>6 DEF Shm!FirstPart, Shm!Write, Shm!Record, Shm!WriterUnchanged
  <2>2. /\ path \in 1..2 /\ files[path] \in Records /\ RecordFits(files[path])
        /\ written \in 0..MaxWrites /\ MaxWrites \in Nat /\ WriterFits
    BY <2>1, ShmConstants DEF ShmInv, ShmTypes, WriterFits
  <2>3. PICK g : g = [files[path] EXCEPT !.first = written]
    OBVIOUS
  <2>4. g \in Records /\ g.seq = files[path].seq /\ g.first = written /\ g.second = files[path].second /\ g.last = files[path].last
    BY <2>2, <2>3 DEF Records
  <2>5. files' = [files EXCEPT ![path] = g] /\ files'[path] = g
    BY <2>1, <2>2, <2>3 DEF ShmInv, ShmTypes
  <2>6. written' \in 0..MaxWrites /\ written' >= written
    BY <2>1, <2>2
  <2>7. RecordFits(g)' /\ WriterFits'
    BY <2>1, <2>2, <2>4, <2>5, <2>6 DEF RecordFits, WriterFits, Records
  <2>8. /\ g.last >= files[path].last /\ g.seq >= files[path].seq
        /\ files[path].seq % 2 = 0 /\ g.seq = files[path].seq =>
              g.first = files[path].first /\ g.second = files[path].second
    BY <2>1, <2>2, <2>4 DEF Records, RecordFits, WriterFits
  <2> QED BY <2>1, <2>2, <2>4, <2>5, <2>6, <2>7, <2>8, RecordWritten
<1>7. CASE Shm!SecondPart
  <2>1. /\ writer = "second" /\ writer' = "end" /\ written' = written
        /\ files' = [files EXCEPT ![path] = [files[path] EXCEPT !.second = written]]
        /\ UNCHANGED <<path, reader, shmEvents, mapping, seenWriter, satellite, power>>
    BY <1>7 DEF Shm!SecondPart, Shm!Write, Shm!Record, Shm!WriterUnchanged
  <2>2. /\ path \in 1..2 /\ files[path] \in Records /\ RecordFits(files[path])
        /\ written \in 0..MaxWrites /\ MaxWrites \in Nat /\ WriterFits
    BY <2>1, ShmConstants DEF ShmInv, ShmTypes, WriterFits
  <2>3. PICK g : g = [files[path] EXCEPT !.second = written]
    OBVIOUS
  <2>4. g \in Records /\ g.seq = files[path].seq /\ g.first = files[path].first /\ g.second = written /\ g.last = files[path].last
    BY <2>2, <2>3 DEF Records
  <2>5. files' = [files EXCEPT ![path] = g] /\ files'[path] = g
    BY <2>1, <2>2, <2>3 DEF ShmInv, ShmTypes
  <2>6. written' \in 0..MaxWrites /\ written' >= written
    BY <2>1, <2>2
  <2>7. RecordFits(g)' /\ WriterFits'
    BY <2>1, <2>2, <2>4, <2>5, <2>6 DEF RecordFits, WriterFits, Records
  <2>8. /\ g.last >= files[path].last /\ g.seq >= files[path].seq
        /\ files[path].seq % 2 = 0 /\ g.seq = files[path].seq =>
              g.first = files[path].first /\ g.second = files[path].second
    BY <2>1, <2>2, <2>4 DEF Records, RecordFits, WriterFits
  <2> QED BY <2>1, <2>2, <2>4, <2>5, <2>6, <2>7, <2>8, RecordWritten
<1>8. CASE Shm!EndWrite
  <2>1. /\ writer = "end" /\ writer' = "idle" /\ written' = written
        /\ files' = [files EXCEPT ![path] = [files[path] EXCEPT !.seq = @ + 1, !.last = written]]
        /\ UNCHANGED <<path, reader, shmEvents, mapping, seenWriter, satellite, power>>
    BY <1>8 DEF Shm!EndWrite, Shm!Write, Shm!Record, Shm!WriterUnchanged
  <2>2. /\ path \in 1..2 /\ files[path] \in Records /\ RecordFits(files[path])
        /\ written \in 0..MaxWrites /\ MaxWrites \in Nat /\ WriterFits
    BY <2>1, ShmConstants DEF ShmInv, ShmTypes, WriterFits
  <2>3. PICK g : g = [files[path] EXCEPT !.seq = @ + 1, !.last = written]
    OBVIOUS
  <2>4. g \in Records /\ g.seq = files[path].seq + 1 /\ g.first = files[path].first /\ g.second = files[path].second /\ g.last = written
    <3>1. written \in Nat /\ files[path].seq + 1 \in Nat
      BY <2>2 DEF Records
    <3>2. PICK h \in Records : h = [files[path] EXCEPT !.seq = @ + 1]
      BY <2>2, <3>1 DEF Records
    <3>3. g = [h EXCEPT !.last = written]
      BY <2>2, <2>3, <3>2 DEF Records
    <3> QED BY <2>2, <3>1, <3>2, <3>3 DEF Records
  <2>5. files' = [files EXCEPT ![path] = g] /\ files'[path] = g
    BY <2>1, <2>2, <2>3 DEF ShmInv, ShmTypes
  <2>6. written' \in 0..MaxWrites /\ written' >= written
    BY <2>1, <2>2
  <2>7. RecordFits(g)' /\ WriterFits'
    BY <2>1, <2>2, <2>4, <2>5, Parity, <2>6 DEF RecordFits, WriterFits, Records
  <2>8. /\ g.last >= files[path].last /\ g.seq >= files[path].seq
        /\ files[path].seq % 2 = 0 /\ g.seq = files[path].seq =>
              g.first = files[path].first /\ g.second = files[path].second
    BY <2>1, <2>2, <2>4 DEF Records, RecordFits, WriterFits
  <2> QED BY <2>1, <2>2, <2>4, <2>5, <2>6, <2>7, <2>8, RecordWritten
<1> QED BY <1>1, <1>2, <1>3, <1>4, <1>5, <1>6, <1>7, <1>8 DEF Shm!WriterStep


\* A step of the reader, which changes nothing the writer has.
LEMMA RecordRead ==
  ASSUME ShmInv, UNCHANGED <<files, path, writer, written>>,
         mapping' \in Mappings, reader' \in Readers, satellite' \in Satellites,
         seenWriter' \in BOOLEAN, power' \in BOOLEAN, shmEvents' \in 0..MaxShmEvents,
         reader'.at # "idle" =>
            mapping'.inode \in 1..2
            /\ (~reader'.crossed => ReaderFits(reader', files[mapping'.inode])),
         Shm!ShownIsWhole'
  PROVE  ShmInv'
<1>1. ShmTypes'
  BY DEF ShmInv, ShmTypes
<1>2. WriterFits' /\ \A i \in 1..2 : RecordFits(files[i])'
                                   /\ (files'[i].held => i = path' /\ writer' # "down")
  BY DEF ShmInv, WriterFits, RecordFits
<1> QED BY <1>1, <1>2 DEF ShmInv

\* What is marked or counted shows no value that was not shown before.
LEMMA Marked ==
  ASSUME ShmInv, NEW is \in BOOLEAN, NEW s \in {Shm!MarkAvailable(is), Shm!IncrementError}
  PROVE  /\ s \in Satellites
         /\ satellite' = s => Shm!ShownIsWhole'
<1>1. satellite \in Satellites
  BY DEF ShmInv, ShmTypes
<1>2. CASE s = Shm!MarkAvailable(is)
  <2>1. CASE is
    <3>1. s = [satellite EXCEPT !.available = TRUE, !.errors = 0]
      BY <1>2, <2>1 DEF Shm!MarkAvailable
    <3>2. PICK t \in Satellites : t = [satellite EXCEPT !.available = TRUE]
      BY <1>1 DEF Satellites
    <3>3. s = [t EXCEPT !.errors = 0]
      BY <1>1, <3>1, <3>2 DEF Satellites
    <3>4. s \in Satellites
      <4>1. 0 \in 0..ErrorThreshold
        BY ShmConstants
      <4> QED BY <3>2, <3>3, <4>1 DEF Satellites
    <3>5. /\ s.value = satellite.value /\ s.second = satellite.second
          /\ s.floor = satellite.floor /\ s.crossed = satellite.crossed
      BY <1>1, <3>2, <3>3 DEF Satellites
    <3> QED BY <3>4, <3>5 DEF ShmInv, Shm!ShownIsWhole
  <2>2. CASE ~is
    <3>1. s = Shm!Blank(FALSE)
      BY <1>2, <2>2 DEF Shm!MarkAvailable
    <3> QED BY <3>1, ShmConstants DEF Satellites, Shm!ShownIsWhole, Shm!Blank, Shm!NaN
  <2> QED BY <2>1, <2>2
<1>3. CASE s = Shm!IncrementError
  <2>1. CASE satellite.errors >= ErrorThreshold
    <3>1. s = satellite
      BY <1>3, <2>1 DEF Shm!IncrementError
    <3> QED BY <1>1, <3>1 DEF ShmInv, Shm!ShownIsWhole
  <2>2. CASE ~(satellite.errors >= ErrorThreshold) /\ satellite.errors + 1 = ErrorThreshold
    <3>1. s = [Shm!Blank(satellite.available) EXCEPT !.errors = ErrorThreshold]
      BY <1>3, <2>2 DEF Shm!IncrementError
    <3>2. s \in Satellites
      BY <1>1, <3>1, BlankFits, ShmConstants DEF Satellites
    <3> QED BY <3>1, <3>2 DEF Shm!ShownIsWhole, Shm!Blank, Shm!NaN
  <2>3. CASE ~(satellite.errors >= ErrorThreshold) /\ satellite.errors + 1 # ErrorThreshold
    <3>1. s = [satellite EXCEPT !.errors = @ + 1]
      BY <1>3, <2>3 DEF Shm!IncrementError
    <3>2. satellite.errors + 1 \in 0..ErrorThreshold
      BY <1>1, <2>3, ShmConstants DEF Satellites
    <3> QED BY <1>1, <3>1, <3>2 DEF Satellites, ShmInv, Shm!ShownIsWhole
  <2> QED BY <2>1, <2>2, <2>3
<1> QED BY <1>2, <1>3

LEMMA ShmPollStep == ASSUME ShmInv, Shm!Poll PROVE ShmInv'
<1>1. /\ UNCHANGED <<files, path, writer, written, power, shmEvents>> /\ reader.at = "idle"
      /\ power \in BOOLEAN /\ shmEvents \in 0..MaxShmEvents
  BY DEF Shm!Poll, Shm!ReaderUnchanged, ShmInv, ShmTypes
<1>2. CASE ~power
  <2>1. satellite' = Shm!MarkAvailable(FALSE) /\ UNCHANGED <<mapping, reader, seenWriter>>
    BY <1>2 DEF Shm!Poll
  <2>2. satellite' \in Satellites /\ Shm!ShownIsWhole'
    BY <2>1, Marked
  <2>3. mapping \in Mappings /\ reader \in Readers /\ seenWriter \in BOOLEAN
    BY DEF ShmInv, ShmTypes
  <2> QED BY <1>1, <2>1, <2>2, <2>3, RecordRead
<1>3. CASE power
  <2>1. /\ mapping' = Shm!EnsureMapped
        /\ seenWriter' = (seenWriter \/ (mapping' # mapping /\ mapping'.inode # 0))
        /\ IF Shm!Usable(mapping')
           THEN /\ reader' = [Shm!Idle EXCEPT !.at = "load1", !.floor = files[mapping'.inode].last]
                /\ satellite' = satellite
           ELSE /\ satellite' = IF seenWriter' THEN Shm!IncrementError ELSE Shm!MarkAvailable(FALSE)
                /\ reader' = reader
    BY <1>3 DEF Shm!Poll
  <2>2. mapping' \in Mappings
    <3>1. mapping \in Mappings /\ path \in 0..2 /\ files \in [1..2 -> Records]
      BY DEF ShmInv, ShmTypes
    <3>2. Shm!TryMap \in Mappings
      BY <3>1 DEF Shm!TryMap, Shm!NotMapped, Mappings, Records
    <3> QED BY <2>1, <3>1, <3>2, Zenon DEF Shm!EnsureMapped
  <2>3. seenWriter' \in BOOLEAN
    BY <2>1, Zenon DEF ShmInv, ShmTypes
  <2>4. CASE Shm!Usable(mapping')
    <3>1. mapping'.inode \in 1..2 /\ files[mapping'.inode] \in Records
      BY <2>2, <2>4 DEF Shm!Usable, Mappings, ShmInv, ShmTypes
    <3>2. PICK n \in Nat : n = files[mapping'.inode].last
      BY <3>1 DEF Records
    <3>3. reader' = [Shm!Idle EXCEPT !.at = "load1", !.floor = n] /\ satellite' = satellite
      BY <2>1, <2>4, <3>2
    <3>4. reader' \in Readers /\ reader'.at = "load1" /\ reader'.floor = n
      <4>1. Shm!Idle \in Readers
        BY ShmConstants DEF Shm!Idle, Readers, Reading
      <4>2. PICK t \in Readers : t = [Shm!Idle EXCEPT !.at = "load1"]
        BY <4>1 DEF Readers
      <4>3. reader' = [t EXCEPT !.floor = n]
        BY <3>3, <4>1, <4>2 DEF Readers
      <4> QED BY <4>1, <4>2, <4>3 DEF Readers
    <3>5. ReaderFits(reader', files[mapping'.inode])
      BY <3>2, <3>4 DEF ReaderFits, Reading
    <3>6. satellite \in Satellites /\ Shm!ShownIsWhole'
      BY <3>3 DEF ShmInv, ShmTypes, Shm!ShownIsWhole
    <3> QED BY <1>1, <2>2, <2>3, <3>1, <3>3, <3>4, <3>5, <3>6, RecordRead
  <2>5. CASE ~Shm!Usable(mapping')
    <3>1. satellite' \in {Shm!IncrementError, Shm!MarkAvailable(FALSE)} /\ reader' = reader
      BY <2>1, <2>5
    <3>2. satellite' \in Satellites /\ Shm!ShownIsWhole'
      BY <3>1, Marked
    <3>3. reader \in Readers
      BY DEF ShmInv, ShmTypes
    <3> QED BY <1>1, <2>2, <2>3, <3>1, <3>2, <3>3, RecordRead
  <2> QED BY <2>4, <2>5
<1> QED BY <1>2, <1>3


\* What the loop's end leaves of a reading.
LEMMA Looped ==
  ASSUME NEW r \in Readers
  PROVE  /\ Shm!Loop(r) \in Readers
         /\ Shm!Loop(r).floor = r.floor /\ Shm!Loop(r).crossed = r.crossed
         /\ Shm!Loop(r).at \in {"load1", "done"}
         /\ Shm!Loop(r).at = "done" =>
               /\ r.seq1 = r.seq2 /\ r.seq2 % 2 # 1
               /\ Shm!Loop(r).first = r.first /\ Shm!Loop(r).second = r.second
<1>1. CASE Shm!Again(r)
  <2>1. Shm!Loop(r) = [r EXCEPT !.at = "load1"]
    BY <1>1 DEF Shm!Loop
  <2> QED BY <2>1 DEF Readers
<1>2. CASE ~Shm!Again(r)
  <2>1. Shm!Loop(r) = [r EXCEPT !.at = "done"]
    BY <1>2 DEF Shm!Loop
  <2> QED BY <1>2, <2>1 DEF Readers, Shm!Again
<1> QED BY <1>1, <1>2

LEMMA ShmReadStep ==
  ASSUME ShmInv, Shm!Load1 \/ Shm!CopyFirst \/ Shm!CopySecond \/ Shm!Load2
  PROVE  ShmInv'
<1>1. /\ UNCHANGED <<files, path, writer, written, power, mapping, seenWriter, satellite, shmEvents>>
      /\ reader.at \in {"load1"} \cup Reading
  BY DEF Shm!Load1, Shm!CopyFirst, Shm!CopySecond, Shm!Load2, Shm!ReadStep, Shm!ReaderUnchanged, Reading
<1> DEFINE f == files[mapping.inode]
<1>2. /\ reader \in Readers /\ mapping.inode \in 1..2 /\ f \in Records /\ RecordFits(f)
      /\ ~reader.crossed => ReaderFits(reader, f)
  BY <1>1 DEF ShmInv, ShmTypes, Reading
<1>3. Shm!Mapped = f
  BY DEF Shm!Mapped
<1> HIDE DEF f
<1>4. SUFFICES reader' \in Readers /\ (~reader'.crossed => ReaderFits(reader', f))
  <2>1. mapping \in Mappings /\ satellite \in Satellites /\ seenWriter \in BOOLEAN
        /\ power \in BOOLEAN /\ shmEvents \in 0..MaxShmEvents
    BY DEF ShmInv, ShmTypes
  <2>2. Shm!ShownIsWhole'
    BY <1>1 DEF ShmInv, Shm!ShownIsWhole
  <2> QED BY <1>1, <1>2, <1>4, <2>1, <2>2, RecordRead DEF f
<1>5. CASE Shm!Load1
  <2>1. CASE reader.tries = Retries
    <3>1. reader' = [reader EXCEPT !.at = "contention"]
      BY <1>5, <2>1 DEF Shm!Load1, Shm!ReadStep
    <3> QED BY <1>2, <3>1 DEF Readers, ReaderFits, Reading
  <2>2. CASE reader.tries # Retries
    <3>1. PICK r : r = [reader EXCEPT !.seq1 = f.seq, !.tries = @ + 1]
      OBVIOUS
    <3>2. /\ r \in Readers /\ r.seq1 = f.seq /\ r.floor = reader.floor
          /\ r.crossed = reader.crossed
      <4>1. reader.tries + 1 \in 0..Retries /\ f.seq \in Nat
        BY <1>2, <2>2, ShmConstants DEF Readers, Records
      <4>2. PICK t \in Readers : t = [reader EXCEPT !.seq1 = f.seq]
        BY <1>2, <4>1 DEF Readers
      <4>3. r = [t EXCEPT !.tries = reader.tries + 1]
        BY <1>2, <3>1, <4>2 DEF Readers
      <4> QED BY <1>2, <4>1, <4>2, <4>3 DEF Readers
    <3>3. reader' = IF r.seq1 % 2 = 1 THEN Shm!Loop(r) ELSE [r EXCEPT !.at = "first"]
      BY <1>3, <1>5, <2>2, <3>1 DEF Shm!Load1, Shm!ReadStep
    <3>4. CASE r.seq1 % 2 = 1
      <4>1. reader' = Shm!Loop(r)
        BY <3>3, <3>4
      <4>2. reader'.at # "done"
        BY <3>4, <4>1, Looped, <3>2
      <4>3. reader' \in Readers /\ reader'.at = "load1" /\ reader'.floor = reader.floor
            /\ reader'.crossed = reader.crossed
        BY <3>2, <4>1, <4>2, Looped
      <4> QED BY <1>2, <4>3 DEF ReaderFits, Reading
    <3>5. CASE r.seq1 % 2 # 1
      <4>1. reader' = [r EXCEPT !.at = "first"]
        BY <3>3, <3>5
      <4>2. /\ reader' \in Readers /\ reader'.at = "first" /\ reader'.floor = reader.floor
            /\ reader'.crossed = reader.crossed /\ reader'.seq1 = f.seq
        BY <3>2, <4>1 DEF Readers, Reading
      <4>3. f.seq % 2 = 0 /\ f.seq <= f.seq
        BY <1>2, <3>2, <3>5, Parity DEF Records
      <4> QED BY <1>2, <4>2, <4>3 DEF ReaderFits, Reading
    <3> QED BY <3>4, <3>5
  <2> QED BY <2>1, <2>2
<1>6. CASE Shm!CopyFirst
  <2>1. reader.at = "first" /\ reader' = [reader EXCEPT !.at = "second", !.first = f.first]
    BY <1>3, <1>6 DEF Shm!CopyFirst, Shm!ReadStep
  <2>2. PICK t \in Readers : t = [reader EXCEPT !.at = "second"]
    BY <1>2 DEF Readers, Reading
  <2>3. reader' = [t EXCEPT !.first = f.first] /\ f.first \in Nat
    BY <1>2, <2>1, <2>2 DEF Readers, Records
  <2>4. /\ reader' \in Readers /\ reader'.at = "second" /\ reader'.first = f.first
        /\ reader'.seq1 = reader.seq1 /\ reader'.floor = reader.floor
        /\ reader'.crossed = reader.crossed
    BY <1>2, <2>2, <2>3 DEF Readers
  <2> QED BY <1>2, <2>1, <2>4 DEF ReaderFits, Reading
<1>7. CASE Shm!CopySecond
  <2>1. reader.at = "second" /\ reader' = [reader EXCEPT !.at = "load2", !.second = f.second]
    BY <1>3, <1>7 DEF Shm!CopySecond, Shm!ReadStep
  <2>2. PICK t \in Readers : t = [reader EXCEPT !.at = "load2"]
    BY <1>2 DEF Readers, Reading
  <2>3. reader' = [t EXCEPT !.second = f.second] /\ f.second \in Nat
    BY <1>2, <2>1, <2>2 DEF Readers, Records
  <2>4. /\ reader' \in Readers /\ reader'.at = "load2" /\ reader'.second = f.second
        /\ reader'.first = reader.first /\ reader'.seq1 = reader.seq1
        /\ reader'.floor = reader.floor /\ reader'.crossed = reader.crossed
    BY <1>2, <2>2, <2>3 DEF Readers
  <2> QED BY <1>2, <2>1, <2>4 DEF ReaderFits, Reading
<1>8. CASE Shm!Load2
  <2>1. PICK r : r = [reader EXCEPT !.seq2 = f.seq]
    OBVIOUS
  <2>2. reader.at = "load2" /\ reader' = Shm!Loop(r)
    BY <1>3, <1>8, <2>1 DEF Shm!Load2, Shm!ReadStep
  <2>3. /\ r \in Readers /\ r.seq2 = f.seq /\ r.seq1 = reader.seq1 /\ r.first = reader.first
        /\ r.second = reader.second /\ r.floor = reader.floor /\ r.crossed = reader.crossed
    BY <1>2, <2>1 DEF Readers, Records
  <2>4. /\ reader' \in Readers /\ reader'.at \in {"load1", "done"}
        /\ reader'.floor = reader.floor /\ reader'.crossed = reader.crossed
    BY <2>2, <2>3, Looped
  <2>5. ASSUME reader'.at = "done", ~reader.crossed
        PROVE  reader'.second = reader'.first /\ reader'.floor <= reader'.first
    <3>1. /\ reader.seq1 = f.seq /\ f.seq % 2 # 1
          /\ reader'.first = reader.first /\ reader'.second = reader.second
      BY <2>2, <2>3, <2>5, Looped
    <3>2. f.seq % 2 = 0
      BY <1>2, <3>1, Parity DEF Records
    <3>3. /\ reader.floor <= f.last /\ reader.first = f.first /\ reader.second = f.second
      BY <1>2, <2>2, <2>5, <3>1 DEF ReaderFits, Reading
    <3> QED BY <1>2, <2>4, <3>1, <3>2, <3>3 DEF RecordFits
  <2> QED BY <1>2, <2>4, <2>5 DEF ReaderFits, Reading
<1> QED BY <1>5, <1>6, <1>7, <1>8

LEMMA ShmStep == ASSUME ShmInv, Shm!Next \/ UNCHANGED shmVars PROVE ShmInv'
<1>1. CASE Shm!Finish
  <2>1. /\ UNCHANGED <<files, path, writer, written, power, mapping, seenWriter>>
        /\ reader' = Shm!Idle /\ reader.at \in {"done", "contention"}
        /\ \/ /\ reader.at = "done" /\ shmEvents' = shmEvents
              /\ satellite' = [value |-> reader.first, second |-> reader.second, available |-> TRUE,
                            errors |-> 0, floor |-> reader.floor, crossed |-> reader.crossed]
           \/ satellite' = Shm!IncrementError
    BY <1>1 DEF Shm!Finish, Shm!ReaderUnchanged
  <2>2. shmEvents' \in 0..MaxShmEvents
    BY <1>1, ShmConstants DEF Shm!Finish, ShmInv, ShmTypes
  <2>3. reader' \in Readers /\ reader'.at = "idle"
    BY <2>1, ShmConstants DEF Shm!Idle, Readers
  <2>4. satellite' \in Satellites /\ Shm!ShownIsWhole'
    <3>1. CASE satellite' = Shm!IncrementError
      BY <3>1, Marked
    <3>2. CASE /\ reader.at = "done"
               /\ satellite' = [value |-> reader.first, second |-> reader.second, available |-> TRUE,
                             errors |-> 0, floor |-> reader.floor, crossed |-> reader.crossed]
      <4>1. reader \in Readers /\ (~reader.crossed => ReaderFits(reader, files[mapping.inode]))
        BY <3>2 DEF ShmInv, ShmTypes
      <4>2. satellite' \in Satellites
        BY <3>2, <4>1, ShmConstants DEF Readers, Satellites
      <4>3. ~reader.crossed => reader.second = reader.first /\ reader.floor <= reader.first
        BY <3>2, <4>1 DEF ReaderFits
      <4> QED BY <3>2, <4>1, <4>2, <4>3 DEF Shm!ShownIsWhole, Readers
    <3> QED BY <2>1, <3>1, <3>2
  <2>5. mapping \in Mappings /\ seenWriter \in BOOLEAN /\ power \in BOOLEAN
    BY DEF ShmInv, ShmTypes
  <2> QED BY <2>1, <2>2, <2>3, <2>4, <2>5, RecordRead
<1>2. CASE Shm!PowerStateChanged
  <2>1. /\ power' = ~power /\ satellite' = Shm!MarkAvailable(power') /\ reader.at = "idle"
        /\ UNCHANGED <<files, path, writer, written, mapping, reader, seenWriter>>
    BY <1>2 DEF Shm!PowerStateChanged
  <2>2. shmEvents' \in 0..MaxShmEvents
    BY <1>2, ShmConstants DEF Shm!PowerStateChanged, ShmInv, ShmTypes
  <2>3. power' \in BOOLEAN
    BY <2>1, Zenon DEF ShmInv, ShmTypes
  <2>4. satellite' \in Satellites /\ Shm!ShownIsWhole'
    BY <2>1, <2>3, Marked
  <2>5. mapping \in Mappings /\ seenWriter \in BOOLEAN /\ reader \in Readers
    BY DEF ShmInv, ShmTypes
  <2> QED BY <2>1, <2>2, <2>3, <2>4, <2>5, RecordRead
<1>3. CASE UNCHANGED shmVars
  <2>1. UNCHANGED <<files, path, writer, written, mapping, reader, seenWriter, satellite, power, shmEvents>>
    BY <1>3 DEF shmVars
  <2>2. /\ mapping \in Mappings /\ reader \in Readers /\ satellite \in Satellites
        /\ seenWriter \in BOOLEAN /\ power \in BOOLEAN /\ shmEvents \in 0..MaxShmEvents
        /\ reader.at # "idle" =>
              mapping.inode \in 1..2 /\ (~reader.crossed => ReaderFits(reader, files[mapping.inode]))
    BY DEF ShmInv, ShmTypes
  <2>3. Shm!ShownIsWhole'
    BY <2>1 DEF ShmInv, Shm!ShownIsWhole
  <2> QED BY <2>1, <2>2, <2>3, RecordRead
<1> QED BY <1>1, <1>2, <1>3, ShmWriterStep, ShmPollStep, ShmReadStep DEF Shm!Next

LEMMA ShmShows == ASSUME ShmInv PROVE Shm!TypeOK /\ Shm!ShownIsWhole
BY DEF ShmInv, ShmTypes, Shm!TypeOK, Mappings, Readers, Satellites


-----------------------------------------------------------------------------
(* ConfigScan: the daemons that drop what a scan did not see create        *)
(* everything again.                                                       *)
LEMMA ScanRecords ==
  \A d \in DOMAIN Scans : /\ Scans[d].clears => Scans[d].select = "all"
                          /\ d \in DOMAIN Events /\ Events[d].first \in BOOLEAN
<1>1. \A r \in {AdcScan, FanScan, HwmonScan, PsuScan, ExternalScan, PlxScan, LeakScan, NvmeScan,
                ExitAirScan, Managed} : r.clears => r.select = "all"
  <2>1. Plain.clears = FALSE
    BY DEF Plain
  <2>2. AdcScan.clears = Plain.clears
    BY DEF AdcScan, Plain
  <2>3. FanScan.clears = Plain.clears
    BY DEF FanScan, Plain
  <2>4. HwmonScan.clears = Plain.clears
    BY DEF HwmonScan, Plain
  <2>5. PsuScan.clears = Plain.clears
    BY DEF PsuScan, Plain
  <2>6. ExternalScan.clears = Plain.clears
    BY DEF ExternalScan, Plain
  <2>7. PlxScan.clears = Plain.clears
    BY DEF PlxScan, Plain
  <2>8. LeakScan.clears = Plain.clears
    BY DEF LeakScan, Plain
  <2>9. NvmeScan.select = "all"
    BY DEF NvmeScan, Plain
  <2>10. ExitAirScan.select = "all"
    BY DEF ExitAirScan, Plain
  <2>11. Managed.select = "all"
    BY DEF Managed, Plain
  <2> QED BY <2>1, <2>2, <2>3, <2>4, <2>5, <2>6, <2>7, <2>8, <2>9, <2>10, <2>11
<1>2. \A d \in DOMAIN Scans :
         Scans[d] \in {AdcScan, FanScan, HwmonScan, PsuScan, ExternalScan, PlxScan, LeakScan,
                       NvmeScan, ExitAirScan, Managed}
  BY DEF Scans, IpmbScan, McuScan, SatelliteScan, SmbpbiScan, DiscreteLeakScan
<1>3. \A d \in DOMAIN Scans : d \in DOMAIN Events
  BY DEF Scans, Events
<1>4. \A r \in {AdcEvents, Follows, HwmonEvents, PsuEvents, PlxEvents, NvmeEvents, IpmbEvents} :
         r.first \in BOOLEAN
  <2>1. AdcEvents.first \in BOOLEAN
    BY DEF AdcEvents, Follows
  <2>2. Follows.first \in BOOLEAN
    BY DEF Follows, Follows
  <2>3. HwmonEvents.first \in BOOLEAN
    BY DEF HwmonEvents, Follows
  <2>4. PsuEvents.first \in BOOLEAN
    BY DEF PsuEvents, Follows
  <2>5. PlxEvents.first \in BOOLEAN
    BY DEF PlxEvents, Follows
  <2>6. NvmeEvents.first \in BOOLEAN
    BY DEF NvmeEvents, Follows
  <2>7. IpmbEvents.first \in BOOLEAN
    BY DEF IpmbEvents, Follows
  <2> QED BY <2>1, <2>2, <2>3, <2>4, <2>5, <2>6, <2>7
<1>5. \A d \in DOMAIN Events :
         Events[d] \in {AdcEvents, Follows, HwmonEvents, PsuEvents, PlxEvents, NvmeEvents,
                        IpmbEvents}
  BY DEF Events, FanEvents, ExternalEvents, LeakEvents, ExitAirEvents, McuEvents,
         SatelliteEvents, SmbpbiEvents, DiscreteLeakEvents
<1> QED BY <1>1, <1>2, <1>3, <1>4, <1>5

(* Induction, over a set instead of a predicate. *)
LEMMA AllNumbers ==
  ASSUME NEW T \in SUBSET Nat, 0 \in T, \A n \in T : n + 1 \in T
  PROVE  T = Nat
<1> SUFFICES ASSUME Nat \ T # {} PROVE FALSE
  OBVIOUS
<1>1. PICK x \in Nat \ T : \A y \in Nat \ T : ~(<<y, x>> \in OpToRel(<, Nat))
  BY NatLessThanWellFounded, WFMin, Zenon
<1>2. \A y \in Nat \ T : ~(y < x)
  BY <1>1 DEF OpToRel
<1>3. x # 0
  OBVIOUS
<1>4. x - 1 \in Nat /\ x - 1 < x /\ (x - 1) + 1 = x
  BY <1>3
<1> QED BY <1>2, <1>4

Entries == [state : {"none", "null", "live", "inactive"}, version : 0 .. MaxEvents]
Answers == [kind : {"absent", "unmatched", "bad", "good", "unlisted", "asked", "failed"},
            version : 0 .. MaxEvents]
Configs == [kind : {"absent", "unmatched", "bad", "good"}, version : 0 .. MaxEvents]
ScanStates == [first : BOOLEAN, activate : BOOLEAN, forCpu : BOOLEAN, listed : BOOLEAN,
               got : [Objects -> Answers]]
LoopStates == [sensors : [Objects -> Entries], changed : SUBSET Objects,
               stolen : SUBSET Objects, dead : BOOLEAN]

(* One turn of the loop keeps the types, and everything of other objects. *)
TurnOf(o, s, t) ==
    /\ t \in LoopStates /\ t.changed \subseteq s.changed
    /\ \A p \in Objects : p # o => t.sensors[p] = s.sensors[p]

LEMMA ScanConstants ==
  /\ MaxEvents \in Nat /\ MaxScans \in Nat \ {0} /\ EndsWith \in [Objects -> SUBSET Objects]
  /\ \A o \in Objects : o \in EndsWith[o]
  /\ Daemons \subseteq DOMAIN Scans /\ IsFiniteSet(Objects)
BY DaemonsAssumption DEF ConfigAssumption

LEMMA EntriesFit ==
  /\ NoSensor \in Entries /\ NullSensor \in Entries
  /\ \A v \in 0 .. MaxEvents : Live(v) \in Entries
  /\ \A e \in Entries : [e EXCEPT !.state = "live"] \in Entries /\ Inactive(e) \in Entries
BY ScanConstants DEF Entries, NoSensor, NullSensor, Live, Inactive

LEMMA EntryReplaced ==
  ASSUME NEW s \in LoopStates, NEW o \in Objects, NEW e \in Entries
  PROVE  TurnOf(o, s, [s EXCEPT !.sensors[o] = e])
<1>1. [s.sensors EXCEPT ![o] = e] \in [Objects -> Entries]
  BY DEF LoopStates
<1>2. [s EXCEPT !.sensors[o] = e] = [s EXCEPT !.sensors = [s.sensors EXCEPT ![o] = e]]
  BY DEF LoopStates
<1> QED BY <1>1, <1>2 DEF LoopStates, TurnOf

LEMMA TurnStays == ASSUME NEW s \in LoopStates, NEW o PROVE TurnOf(o, s, s)
BY DEF TurnOf

LEMMA TurnsCompose ==
  ASSUME NEW o, NEW s, NEW t, NEW u, TurnOf(o, s, t), TurnOf(o, t, u)
  PROVE  TurnOf(o, s, u)
BY DEF TurnOf

LEMMA CreateTurn ==
  ASSUME NEW s \in LoopStates, NEW scan \in ScanStates, NEW o \in Objects
  PROVE  TurnOf(o, s, CreateFrom(s, scan, o))
<1>1. Live(scan.got[o].version) \in Entries
  BY EntriesFit DEF ScanStates, Answers
<1>2. [s.sensors[o] EXCEPT !.state = "live"] \in Entries
  BY EntriesFit DEF LoopStates
<1>3. [s EXCEPT !.sensors[o].state = "live"] =
      [s EXCEPT !.sensors[o] = [s.sensors[o] EXCEPT !.state = "live"]]
  OBVIOUS
<1>4. TurnOf(o, s, Created(s, scan, o))
  BY <1>1, <1>2, <1>3, EntryReplaced DEF Created
<1>5. TurnOf(o, s, [s EXCEPT !.sensors[o] = NullSensor])
  BY EntriesFit, EntryReplaced
<1> QED BY <1>4, <1>5, TurnStays DEF CreateFrom

LEMMA SignalledHere ==
  ASSUME NEW s \in LoopStates, NEW o \in Objects
  PROVE  Signalled(s, o) \subseteq s.changed \cap EndsWith[o]
BY ScanConstants DEF Signalled

LEMMA GiveUpTurn ==
  ASSUME NEW s \in LoopStates, NEW o \in Objects
  PROVE  TurnOf(o, s, GiveUp(s, o))
<1> DEFINE first == IF Signalled(s, o) = {} THEN {} ELSE {CHOOSE p \in Signalled(s, o) : TRUE}
           e == IF Scan.select = "name" THEN NullSensor ELSE s.sensors[o]
<1>1. first \subseteq Objects
  BY SignalledHere DEF LoopStates
<1>2. e \in Entries
  BY EntriesFit DEF LoopStates
<1>3. GiveUp(s, o) = [s EXCEPT !.changed = @ \ first, !.stolen = @ \cup (first \ {o}),
                               !.sensors[o] = e]
  BY DEF GiveUp
<1> HIDE DEF first, e
<1> DEFINE c == s.changed \ first
           l == s.stolen \cup (first \ {o})
           m == [s.sensors EXCEPT ![o] = e]
<1>4. c \in SUBSET Objects /\ l \in SUBSET Objects /\ m \in [Objects -> Entries]
      /\ c \subseteq s.changed /\ \A p \in Objects : p # o => m[p] = s.sensors[p]
  BY <1>1, <1>2 DEF LoopStates
<1>5. GiveUp(s, o) = [s EXCEPT !.changed = c, !.stolen = l, !.sensors = m]
  BY <1>3
<1> HIDE DEF c, l, m
<1>6. GiveUp(s, o) = [sensors |-> m, changed |-> c, stolen |-> l, dead |-> s.dead]
  BY <1>5 DEF LoopStates
<1>7. s.dead \in BOOLEAN
  BY DEF LoopStates
<1> QED BY <1>4, <1>6, <1>7 DEF LoopStates, TurnOf

LEMMA VisitTurn ==
  ASSUME NEW s \in LoopStates, NEW scan \in ScanStates, NEW o \in Objects
  PROVE  TurnOf(o, s, Visit(s, scan, o))
<1>1. TurnOf(o, s, [s EXCEPT !.dead = TRUE])
  BY DEF TurnOf, LoopStates
<1>2. TurnOf(o, s, CreateFrom(GiveUp(s, o), scan, o))
  BY GiveUpTurn, CreateTurn, TurnsCompose DEF TurnOf
<1> QED BY <1>1, <1>2, CreateTurn, TurnStays DEF Visit

(* A live sensor no signal names, in a scan that compares. *)
Quiet(scan, o) ==
    /\ ~scan.first /\ Scan.select # "all"
    /\ sensors[o].state = "live" /\ EndsWith[o] \cap changed = {}

Keeps(scan) ==
    {s \in LoopStates : /\ s.changed \subseteq changed
                        /\ \A o \in Objects : Quiet(scan, o) => s.sensors[o] = sensors[o]}

LEMMA VisitKeeps ==
  ASSUME NEW scan \in ScanStates, NEW s \in Keeps(scan), NEW p \in Objects
  PROVE  Visit(s, scan, p) \in Keeps(scan)
<1>1. s \in LoopStates /\ TurnOf(p, s, Visit(s, scan, p))
  BY VisitTurn DEF Keeps
<1>2. ASSUME Quiet(scan, p) PROVE Visit(s, scan, p).sensors = s.sensors
  <2>1. s.sensors[p].state = "live" /\ s.sensors[p] \in Entries
    BY <1>1, <1>2 DEF Keeps, Quiet, LoopStates
  <2>2. Compares(s, scan, p)
    BY <1>2, <2>1 DEF Compares, Quiet, NoSensor
  <2>3. ~Found(s, p)
    BY <1>2, SignalledHere DEF Found, Quiet, Keeps
  <2>4. [s EXCEPT !.dead = TRUE].sensors = s.sensors
    BY <1>1 DEF LoopStates
  <2> QED BY <2>2, <2>3, <2>4 DEF Visit
<1> QED BY <1>1, <1>2 DEF Keeps, TurnOf

LEMMA LoopKeeps ==
  ASSUME NEW scan \in ScanStates, NEW order \in Seq(Objects), Before(scan) \in Keeps(scan)
  PROVE  Loop(scan, order) \in Keeps(scan)
<1> DEFINE N == Len(order)
           Step(g, k) == IF k = 0 THEN Before(scan) ELSE Visit(g[k - 1], scan, order[k])
           IsLoop(n) == \E g : g = [k \in 0 .. n |-> Step(g, k)]
           Loops == {n \in Nat : n <= N => IsLoop(n)}
           after == CHOOSE g : g = [k \in 0 .. N |-> Step(g, k)]
<1>1. N \in Nat
  OBVIOUS
<1>2. 0 \in Loops
  <2> DEFINE g == [k \in 0 .. 0 |-> Before(scan)]
  <2>1. g = [k \in 0 .. 0 |-> Step(g, k)]
    OBVIOUS
  <2> QED BY <2>1
<1>3. ASSUME NEW n \in Loops, n + 1 <= N PROVE IsLoop(n + 1)
  <2>1. n \in Nat /\ n <= N
    BY <1>1, <1>3
  <2>2. PICK g : g = [k \in 0 .. n |-> Step(g, k)]
    BY <2>1
  <2> DEFINE h == [k \in 0 .. n + 1 |-> IF k = n + 1 THEN Step(g, k) ELSE g[k]]
  <2>3. ASSUME NEW k \in 0 .. n + 1 PROVE h[k] = Step(h, k)
    <3>1. CASE k = 0
      BY <2>1, <2>2, <3>1
    <3>2. CASE k # 0
      <4>1. k - 1 \in 0 .. n /\ k - 1 # n + 1 /\ k - 1 \in 0 .. n + 1
        BY <2>1, <3>2
      <4>2. h[k - 1] = g[k - 1]
        BY <4>1
      <4>3. Step(h, k) = Step(g, k)
        BY <4>2, <3>2
      <4>4. k # n + 1 => k \in 0 .. n
        BY <2>1
      <4>5. k # n + 1 => g[k] = Step(g, k)
        BY <4>4, <2>2
      <4> QED BY <4>3, <4>5
    <3> QED BY <3>1, <3>2
  <2>4. h = [k \in 0 .. n + 1 |-> Step(h, k)]
    BY <2>3
  <2> QED BY <2>4
<1>4. Loops = Nat
  <2> HIDE DEF IsLoop
  <2>1. \A n \in Loops : n + 1 \in Loops
    BY <1>3
  <2> QED BY <1>2, <2>1, AllNumbers
<1>5. \E g : g = [k \in 0 .. N |-> Step(g, k)]
  BY <1>1, <1>4
<1>6. after = [k \in 0 .. N |-> Step(after, k)]
  BY <1>5
<1> DEFINE Kept == {n \in Nat : n <= N => after[n] \in Keeps(scan)}
<1> HIDE DEF after
<1>7. 0 \in Kept
  <2>1. after[0] = Before(scan)
    BY <1>1, <1>6
  <2> QED BY <2>1
<1>8. ASSUME NEW n \in Kept, n + 1 <= N PROVE after[n + 1] \in Keeps(scan)
  <2>1. n \in Nat /\ n <= N /\ n + 1 \in 1 .. N /\ (n + 1) - 1 = n /\ n + 1 # 0
    BY <1>1, <1>8
  <2>2. after[n + 1] = Visit(after[n], scan, order[n + 1])
    BY <1>6, <2>1
  <2>3. order[n + 1] \in Objects
    BY <2>1
  <2> QED BY <2>1, <2>2, <2>3, <1>8, VisitKeeps
<1>9. Kept = Nat
  <2>1. \A n \in Kept : n + 1 \in Kept
    BY <1>8
  <2> QED BY <1>7, <2>1, AllNumbers
<1>10. after[N] \in Keeps(scan)
  BY <1>1, <1>9
<1> QED BY <1>10 DEF Loop, after


ScanInv ==
    /\ daemon \in DOMAIN Scans /\ config \in [Objects -> Configs] /\ sensors \in [Objects -> Entries]
    /\ changed \subseteq Objects /\ missed \subseteq Objects
    /\ cpu \in BOOLEAN /\ host \in BOOLEAN /\ timer \in BOOLEAN /\ cpuTimer \in BOOLEAN
    /\ alive \in BOOLEAN /\ events \in 0 .. MaxEvents
    /\ scans \in Seq(ScanStates) /\ Len(scans) <= MaxScans
    /\ alive = FALSE => scans = <<>>

LEMMA ScanNews ==
  ASSUME NEW first \in BOOLEAN, NEW activate \in BOOLEAN, NEW forCpu \in BOOLEAN
  PROVE  NewScan(first, activate, forCpu) \in ScanStates
<1>1. Unlisted \in Answers
  BY ScanConstants DEF Unlisted, Published, Answers
<1> QED BY <1>1 DEF NewScan, ScanStates

LEMMA ScanFirst == ASSUME NEW d \in DOMAIN Scans PROVE Events[d].first \in BOOLEAN
BY ScanRecords

\* A process that starts or starts again.
LEMMA Booted ==
  ASSUME daemon \in DOMAIN Scans
  PROVE  /\ <<NewScan(Event.first, FALSE, FALSE)>> \in Seq(ScanStates)
         /\ Len(<<NewScan(Event.first, FALSE, FALSE)>>) <= MaxScans
         /\ [o \in Objects |-> NoSensor] \in [Objects -> Entries]
<1>1. Event.first \in BOOLEAN
  BY ScanFirst DEF Event
<1>2. NewScan(Event.first, FALSE, FALSE) \in ScanStates
  BY <1>1, ScanNews
<1>3. \A s \in ScanStates : <<s>> \in Seq(ScanStates) /\ Len(<<s>>) = 1
  OBVIOUS
<1>4. /\ <<NewScan(Event.first, FALSE, FALSE)>> \in Seq(ScanStates)
      /\ Len(<<NewScan(Event.first, FALSE, FALSE)>>) = 1
  BY <1>2, <1>3
<1>5. 1 <= MaxScans
  BY ScanConstants
<1> QED BY <1>4, <1>5, EntriesFit

LEMMA ScanStart ==
  ASSUME NEW d \in DOMAIN Scans, Start(d) PROVE ScanInv
<1>1. daemon \in DOMAIN Scans
  BY DEF Start
<1>2. Published("good", 0) \in Configs /\ 0 \in 0 .. MaxEvents
  BY ScanConstants DEF Published, Configs
<1>3. config \in [Objects -> Configs]
  BY <1>2 DEF Start
<1>4. cpu \in BOOLEAN
  BY Zenon DEF Start
<1>5. /\ sensors = [o \in Objects |-> NoSensor] /\ changed = {} /\ missed = {} /\ events = 0
      /\ timer = FALSE /\ cpuTimer = FALSE /\ alive = TRUE /\ host = TRUE
      /\ scans = <<NewScan(Event.first, FALSE, FALSE)>>
  BY DEF Start, Boot
<1> QED BY <1>1, <1>2, <1>3, <1>4, <1>5, Booted DEF ScanInv


LEMMA ScanTaken ==
  ASSUME NEW q \in Seq(ScanStates), NEW i \in DOMAIN q
  PROVE  RemoveAt(q, i) \in Seq(ScanStates) /\ Len(RemoveAt(q, i)) = Len(q) - 1
<1>1. i \in 1 .. Len(q) /\ Len(q) \in Nat
  OBVIOUS
<1> DEFINE f == SubSeq(q, 1, i - 1)
           b == SubSeq(q, i + 1, Len(q))
<1>2. f \in Seq(ScanStates) /\ Len(f) = i - 1
  BY <1>1
<1>3. b \in Seq(ScanStates) /\ Len(b) = Len(q) - i
  BY <1>1
<1> HIDE DEF f, b
<1>4. f \o b \in Seq(ScanStates) /\ Len(f \o b) = Len(f) + Len(b)
  BY <1>2, <1>3
<1>5. Len(f) + Len(b) = Len(q) - 1
  BY <1>1, <1>2, <1>3
<1> QED BY <1>4, <1>5 DEF RemoveAt, f, b

LEMMA ScanReplaced ==
  ASSUME NEW i \in DOMAIN scans, NEW scan \in ScanStates, scans \in Seq(ScanStates)
  PROVE  [scans EXCEPT ![i] = scan] \in Seq(ScanStates) /\ Len([scans EXCEPT ![i] = scan]) = Len(scans)
OBVIOUS

LEMMA ScanAdded ==
  ASSUME scans \in Seq(ScanStates), Len(scans) < MaxScans, NEW scan \in ScanStates
  PROVE  Append(scans, scan) \in Seq(ScanStates) /\ Len(Append(scans, scan)) <= MaxScans
BY ScanConstants

\* The answer to one object's call, or to all.
LEMMA AnswersFit ==
  ASSUME ScanInv
  PROVE  /\ config \in [Objects -> Answers] /\ \A o \in Objects : config[o] \in Answers
         /\ Unlisted \in Answers /\ Asked \in Answers /\ Failed \in Answers
<1>1. Configs \subseteq Answers
  BY DEF Configs, Answers
<1> QED BY <1>1, ScanConstants DEF ScanInv, Answers, Unlisted, Asked, Failed, Published

LEMMA BeforeKeeps ==
  ASSUME ScanInv, NEW scan \in ScanStates PROVE Before(scan) \in Keeps(scan)
<1> DEFINE m == IF Scan.clears /\ scan.listed THEN [o \in Objects |-> NoSensor] ELSE sensors
<1>1. m \in [Objects -> Entries]
  BY EntriesFit DEF ScanInv
<1>2. Scan.select # "all" => m = sensors
  BY ScanRecords DEF ScanInv, Scan
<1> HIDE DEF m
<1>3. Before(scan) = [sensors |-> m, changed |-> changed, stolen |-> {}, dead |-> FALSE]
  BY DEF Before, m
<1>4. changed \in SUBSET Objects
  BY DEF ScanInv
<1>5. Before(scan) \in LoopStates
  BY <1>1, <1>3, <1>4 DEF LoopStates
<1> QED BY <1>2, <1>3, <1>5 DEF Keeps, Quiet

LEMMA OrdersFit == SetToSeqs(Objects) \subseteq Seq(Objects)
<1> SUFFICES ASSUME NEW order \in SetToSeqs(Objects) PROVE order \in Seq(Objects)
  OBVIOUS
<1>1. order \in [1 .. Cardinality(Objects) -> Objects] /\ Cardinality(Objects) \in Nat
  BY ScanConstants, FS_CardinalityType DEF SetToSeqs
<1>2. \A N \in Nat : \A f \in [1 .. N -> Objects] : f \in Seq(Objects)
  OBVIOUS
<1> QED BY <1>1, <1>2

(* A scan that ran its loop: the types stay, and so does what is quiet. *)
LEMMA RanStep ==
  ASSUME ScanInv, NEW i \in DOMAIN scans, NEW scan \in ScanStates,
         NEW order \in SetToSeqs(Objects), alive, Ran(i, scan, order)
  PROVE  ScanInv' /\ (alive' => \A o \in Objects : Quiet(scan, o) => sensors'[o] = sensors[o])
<1> DEFINE s == Loop(scan, order)
<1>1. s \in Keeps(scan)
  BY BeforeKeeps, LoopKeeps, OrdersFit
<1> HIDE DEF s
<1>2. /\ s.sensors \in [Objects -> Entries] /\ s.changed \subseteq Objects
      /\ s.stolen \subseteq Objects
  BY <1>1 DEF Keeps, LoopStates
<1>3. missed' \subseteq Objects
  BY <1>2 DEF Ran, ScanInv, s
<1>4. UNCHANGED <<daemon, config, cpu, host, events>>
  BY DEF Ran
<1>5. CASE s.dead
  <2>1. /\ alive' = FALSE /\ scans' = <<>> /\ changed' = {} /\ timer' = FALSE
        /\ cpuTimer' = FALSE /\ sensors' = [o \in Objects |-> NoSensor]
    BY <1>5 DEF Ran, s
  <2>2. sensors' \in [Objects -> Entries]
    BY <2>1, EntriesFit
  <2>3. <<>> \in Seq(ScanStates) /\ Len(<<>>) = 0 /\ 0 <= MaxScans
    BY ScanConstants
  <2> QED BY <1>3, <1>4, <2>1, <2>2, <2>3 DEF ScanInv
<1>6. CASE ~s.dead
  <2>1. /\ sensors' = s.sensors /\ changed' = s.changed /\ scans' = RemoveAt(scans, i)
        /\ UNCHANGED <<alive, timer, cpuTimer>>
    BY <1>6 DEF Ran, s
  <2>2. scans' \in Seq(ScanStates) /\ Len(scans') <= MaxScans
    BY <2>1, ScanTaken, ScanConstants DEF ScanInv
  <2>3. ScanInv'
    BY <1>2, <1>3, <1>4, <2>1, <2>2 DEF ScanInv
  <2> QED BY <1>1, <2>1, <2>3 DEF Keeps
<1> QED BY <1>5, <1>6

(* What the step of a scan does to a live sensor that no signal names. *)
QuietStays ==
    \A o \in Objects :
        /\ alive' /\ scans # <<>> /\ Len(scans') < Len(scans)
        /\ Scan.select # "all" /\ \A i \in DOMAIN scans : ~scans[i].first
        /\ sensors[o].state = "live" /\ EndsWith[o] \cap changed = {}
        => sensors'[o] = sensors[o]

\* Steps that take no scan from the list, or change no sensor.
LEMMA OthersAreQuiet ==
  ASSUME scans \in Seq(ScanStates), sensors' = sensors \/ scans' = scans \/ scans = <<>>
  PROVE  QuietStays
BY DEF QuietStays

LEMMA ChangeStep == ASSUME ScanInv, NEW o \in Objects, Change(o) PROVE ScanInv'
<1>1. events + 1 \in 0 .. MaxEvents
  BY ScanConstants DEF Change, ScanInv
<1>2. PICK kind \in Kinds : config' = [config EXCEPT ![o] = Published(kind, events + 1)]
  BY DEF Change
<1>3. kind \in {"absent", "unmatched", "bad", "good"}
  BY <1>2 DEF Kinds
<1>4. Published(kind, events + 1) \in Configs
  BY <1>1, <1>3 DEF Published, Configs
<1>5. config' \in [Objects -> Configs]
  BY <1>2, <1>4 DEF ScanInv
<1>6. /\ sensors' \in [Objects -> Entries] /\ changed' \subseteq Objects
      /\ timer' \in BOOLEAN
  BY EntriesFit DEF Change, ScanInv
<1> QED BY <1>1, <1>5, <1>6 DEF Change, ScanInv

LEMMA ScanBegins ==
  ASSUME ScanInv, Len(scans) < MaxScans, NEW first \in BOOLEAN, NEW activate \in BOOLEAN,
         NEW forCpu \in BOOLEAN, StartScan(first, activate, forCpu)
  PROVE  scans' \in Seq(ScanStates) /\ Len(scans') <= MaxScans
BY ScanNews, ScanAdded DEF StartScan, ScanInv

LEMMA PowerOffStep == ASSUME ScanInv, PowerOff PROVE ScanInv'
<1>1. events + 1 \in 0 .. MaxEvents
  BY ScanConstants DEF PowerOff, ScanInv
<1>2. sensors' \in [Objects -> Entries]
  BY EntriesFit DEF PowerOff, ScanInv
<1> QED BY <1>1, <1>2 DEF PowerOff, ScanInv

\* The record of a scan with other answers.
LEMMA Gets ==
  ASSUME NEW scan \in ScanStates, NEW answers \in [Objects -> Answers]
  PROVE  /\ [scan EXCEPT !.got = answers] \in ScanStates
         /\ [scan EXCEPT !.listed = TRUE] \in ScanStates
         /\ [scan EXCEPT !.listed = TRUE, !.got = answers] \in ScanStates
         /\ [scan EXCEPT !.listed = TRUE, !.got = answers].first = scan.first
<1>1. [scan EXCEPT !.got = answers] \in ScanStates /\ [scan EXCEPT !.listed = TRUE] \in ScanStates
  BY DEF ScanStates
<1>2. PICK t \in ScanStates : t = [scan EXCEPT !.listed = TRUE]
  BY <1>1
<1>3. [scan EXCEPT !.listed = TRUE, !.got = answers] = [t EXCEPT !.got = answers]
  BY <1>2
<1>4. [t EXCEPT !.got = answers] \in ScanStates /\ [t EXCEPT !.got = answers].first = t.first
  BY DEF ScanStates
<1>5. t.first = scan.first
  BY <1>2 DEF ScanStates
<1> QED BY <1>1, <1>3, <1>4, <1>5

LEMMA ScanGets ==
  ASSUME ScanInv, NEW i \in DOMAIN scans, NEW answers \in [Objects -> Answers],
         \/ scans' = [scans EXCEPT ![i].got = answers]
         \/ scans' = [scans EXCEPT ![i].listed = TRUE, ![i].got = answers]
  PROVE  scans' \in Seq(ScanStates) /\ Len(scans') <= MaxScans
<1>1. scans[i] \in ScanStates /\ scans \in Seq(ScanStates)
  BY DEF ScanInv
<1>2. CASE scans' = [scans EXCEPT ![i].got = answers]
  <2>1. scans' = [scans EXCEPT ![i] = [scans[i] EXCEPT !.got = answers]]
    BY <1>1, <1>2
  <2> QED BY <1>1, <2>1, Gets, ScanReplaced DEF ScanInv
<1>3. CASE scans' = [scans EXCEPT ![i].listed = TRUE, ![i].got = answers]
  <2>1. scans' = [scans EXCEPT ![i] = [scans[i] EXCEPT !.listed = TRUE, !.got = answers]]
    BY <1>1, <1>3
  <2> QED BY <1>1, <2>1, Gets, ScanReplaced DEF ScanInv
<1> QED BY <1>2, <1>3

LEMMA OneGets ==
  ASSUME ScanInv, NEW i \in DOMAIN scans, NEW o \in Objects, NEW a \in Answers,
         scans' = [scans EXCEPT ![i].got[o] = a]
  PROVE  scans' \in Seq(ScanStates) /\ Len(scans') <= MaxScans
<1> DEFINE answers == [scans[i].got EXCEPT ![o] = a]
<1>1. scans[i] \in ScanStates
  BY DEF ScanInv
<1>2. answers \in [Objects -> Answers]
  BY <1>1 DEF ScanStates
<1>3. scans' = [scans EXCEPT ![i].got = answers]
  OBVIOUS
<1> QED BY <1>2, <1>3, ScanGets

LEMMA AnswerSteps ==
  ASSUME ScanInv, NEW i \in DOMAIN scans,
         List(i) \/ CallFails(i) \/ \E o \in Objects : GetAll(i, o)
  PROVE  ScanInv' /\ sensors' = sensors
<1>1. CASE List(i)
  <2> DEFINE answers == [o \in Objects |-> IF config[o].kind = "absent" THEN Unlisted ELSE Asked]
  <2>1. answers \in [Objects -> Answers]
    BY AnswersFit
  <2>2. scans' = [scans EXCEPT ![i].listed = TRUE, ![i].got = answers]
    BY <1>1 DEF List
  <2>3. scans' \in Seq(ScanStates) /\ Len(scans') <= MaxScans
    BY <2>1, <2>2, ScanGets
  <2> QED BY <1>1, <2>3 DEF List, ScanInv
<1>2. CASE CallFails(i)
  <2>1. events + 1 \in 0 .. MaxEvents
    BY <1>2, ScanConstants DEF CallFails, ScanInv
  <2>2. scans' \in Seq(ScanStates) /\ Len(scans') <= MaxScans
    <3>1. CASE scans' = [scans EXCEPT ![i].listed = TRUE, ![i].got = [o \in Objects |-> Failed]]
      <4>1. [o \in Objects |-> Failed] \in [Objects -> Answers]
        BY AnswersFit
      <4> QED BY <3>1, <4>1, ScanGets
    <3>2. ASSUME NEW o \in Objects, scans' = [scans EXCEPT ![i].got[o] = Failed]
          PROVE  scans' \in Seq(ScanStates) /\ Len(scans') <= MaxScans
      BY <3>2, AnswersFit, OneGets
    <3> QED BY <1>2, <3>1, <3>2 DEF CallFails
  <2> QED BY <1>2, <2>1, <2>2 DEF CallFails, ScanInv
<1>3. ASSUME NEW o \in Objects, GetAll(i, o) PROVE ScanInv' /\ sensors' = sensors
  <2>1. PICK a \in Answers : scans' = [scans EXCEPT ![i].got[o] = a]
    BY <1>3, AnswersFit DEF GetAll
  <2>2. scans' \in Seq(ScanStates) /\ Len(scans') <= MaxScans
    BY <2>1, OneGets
  <2> QED BY <1>3, <2>2 DEF GetAll, ScanInv
<1> QED BY <1>1, <1>2, <1>3

LEMMA LoopSteps ==
  ASSUME ScanInv, NEW i \in DOMAIN scans, Callback(i) \/ ManagedObjects(i)
  PROVE  ScanInv' /\ QuietStays
<1>0. config \in [Objects -> Answers]
  BY AnswersFit
<1>1. scans[i] \in ScanStates
  BY DEF ScanInv
<1>2. [scans[i] EXCEPT !.listed = TRUE, !.got = config] \in ScanStates
  BY <1>0, <1>1, Gets
<1>3. PICK scan \in ScanStates : /\ scan.first = scans[i].first
                                 /\ alive /\ \E order \in SetToSeqs(Objects) : Ran(i, scan, order)
  BY <1>1, <1>2, <1>0, Gets DEF Callback, ManagedObjects
<1>4. ScanInv' /\ (alive' => \A o \in Objects : Quiet(scan, o) => sensors'[o] = sensors[o])
  BY <1>3, RanStep
<1> QED BY <1>3, <1>4 DEF QuietStays, Quiet

LEMMA RestartsScan == ASSUME ScanInv, Restart PROVE ScanInv' /\ scans = <<>>
<1>1. daemon \in DOMAIN Scans /\ alive = FALSE
  BY DEF ScanInv, Restart
<1>2. /\ sensors' = [o \in Objects |-> NoSensor] /\ changed' = {} /\ timer' = FALSE
      /\ cpuTimer' = FALSE /\ scans' = <<NewScan(Event.first, FALSE, FALSE)>> /\ alive' = TRUE
      /\ missed' = {} /\ UNCHANGED <<daemon, config, cpu, host, events>>
  BY DEF Restart
<1> QED BY <1>1, <1>2, Booted DEF ScanInv

LEMMA ScanStep ==
  ASSUME ScanInv, Next \/ UNCHANGED scanVars PROVE ScanInv' /\ QuietStays
<1>0. scans \in Seq(ScanStates)
  BY DEF ScanInv
<1>1. CASE UNCHANGED scanVars
  <2>1. ScanInv' /\ scans' = scans
    BY <1>1 DEF ScanInv, scanVars
  <2> QED BY <1>0, <2>1, OthersAreQuiet
<1>2. ASSUME NEW o \in Objects, Change(o) PROVE ScanInv' /\ QuietStays
  BY <1>0, <1>2, ChangeStep, OthersAreQuiet DEF Change
<1>3. CASE FilterTimer
  <2>1. scans' \in Seq(ScanStates) /\ Len(scans') <= MaxScans
    BY <1>3, ScanBegins DEF FilterTimer
  <2>2. ScanInv'
    BY <1>3, <2>1 DEF FilterTimer, ScanInv
  <2> QED BY <1>0, <1>3, <2>2, OthersAreQuiet DEF FilterTimer
<1>4. CASE CpuAppears
  <2>1. events + 1 \in 0 .. MaxEvents
    BY <1>4, ScanConstants DEF CpuAppears, ScanInv
  <2>2. ScanInv'
    BY <1>4, <2>1 DEF CpuAppears, ScanInv
  <2> QED BY <1>0, <1>4, <2>2, OthersAreQuiet DEF CpuAppears
<1>5. CASE CpuTimer
  <2>1. scans' \in Seq(ScanStates) /\ Len(scans') <= MaxScans
    BY <1>5, ScanBegins DEF CpuTimer
  <2>2. ScanInv'
    BY <1>5, <2>1 DEF CpuTimer, ScanInv
  <2> QED BY <1>0, <1>5, <2>2, OthersAreQuiet DEF CpuTimer
<1>6. CASE PowerOff
  BY <1>0, <1>6, PowerOffStep, OthersAreQuiet DEF PowerOff
<1>7. CASE PowerOn
  <2>1. scans' \in Seq(ScanStates) /\ Len(scans') <= MaxScans
    BY <1>7, ScanBegins DEF PowerOn
  <2>2. ScanInv'
    BY <1>7, <2>1 DEF PowerOn, ScanInv
  <2> QED BY <1>0, <1>7, <2>2, OthersAreQuiet DEF PowerOn
<1>8. CASE Restart
  BY <1>0, <1>8, RestartsScan, OthersAreQuiet
<1>9. ASSUME NEW i \in DOMAIN scans,
             List(i) \/ CallFails(i) \/ \E o \in Objects : GetAll(i, o)
      PROVE  ScanInv' /\ QuietStays
  BY <1>0, <1>9, AnswerSteps, OthersAreQuiet
<1>10. ASSUME NEW i \in DOMAIN scans, Callback(i) \/ ManagedObjects(i)
       PROVE  ScanInv' /\ QuietStays
  BY <1>10, LoopSteps
<1> QED BY <1>1, <1>2, <1>3, <1>4, <1>5, <1>6, <1>7, <1>8, <1>9, <1>10 DEF Next

LEMMA ScanTypes == ASSUME ScanInv PROVE TypeOK
BY DEF ScanInv, TypeOK, Configs, Entries

-----------------------------------------------------------------------------
\* WriteProtect: between two steps no node waits to be evaluated.
ProtectInv ==
    /\ DOMAIN graph = {"nodes", "dirty", "told"} /\ graph.dirty = {}
    /\ DOMAIN groups \subseteq DOMAIN Configured
    /\ stage \in [Protect!Names -> {"none", "waiting", "online", "monitored", "cooling"}]
    /\ input \in [Protect!Names -> BOOLEAN]
    /\ unread \subseteq Protect!Names /\ setting \in DOMAIN groups \cup {"none"}
    /\ changes \in 0..MaxChanges

LEMMA ProtectTypes == ASSUME ProtectInv PROVE Protect!TypeOK
BY DEF ProtectInv, Protect!TypeOK

LEMMA ProtectStart == ASSUME Protect!Start PROVE ProtectInv
<1>1. MaxChanges \in Nat
  BY DaemonsAssumption DEF Protect!ProtectAssumption
<1>2. DOMAIN graph = {"nodes", "dirty", "told"} /\ graph.dirty = {}
  BY DEF Protect!Start
<1>3. DOMAIN groups = {} /\ setting = "none" /\ unread = {} /\ changes = 0
  BY DEF Protect!Start
<1> QED BY <1>1, <1>2, <1>3 DEF Protect!Start, ProtectInv

LEMMA Propagated ==
  ASSUME NEW g PROVE LET h == Protect!Propagate(g)
                     IN  DOMAIN h = {"nodes", "dirty", "told"} /\ h.dirty = {}
BY DEF Protect!Propagate, Protect!Tell

LEMMA ProtectStep ==
  ASSUME ProtectInv, Protect!Next \/ UNCHANGED protectVars PROVE ProtectInv'
<1>0. MaxChanges \in Nat
  BY DaemonsAssumption DEF Protect!ProtectAssumption
<1>1. ASSUME NEW n \in Protect!Names, Protect!AddGroup(n) PROVE ProtectInv'
  <2>1. DOMAIN graph' = {"nodes", "dirty", "told"} /\ graph'.dirty = {}
    BY <1>1, Propagated, Zenon DEF Protect!AddGroup
  <2>2. DOMAIN groups' = DOMAIN groups \cup {n} /\ n \in DOMAIN Configured
    BY <1>1 DEF Protect!AddGroup
  <2>3. stage' \in [Protect!Names -> {"none", "waiting", "online", "monitored", "cooling"}]
    BY <1>1 DEF Protect!AddGroup, ProtectInv
  <2> QED BY <1>1, <2>1, <2>2, <2>3 DEF Protect!AddGroup, ProtectInv
<1>2. ASSUME NEW n \in Protect!Names, Protect!AddGpioGroup(n) PROVE ProtectInv'
  <2>1. DOMAIN graph' = {"nodes", "dirty", "told"} /\ graph'.dirty = {}
    BY <1>2 DEF Protect!AddGpioGroup, Protect!WithSource, Protect!AddNode, ProtectInv
  <2>2. DOMAIN groups' = DOMAIN groups \cup {n} /\ n \in DOMAIN Configured
    BY <1>2 DEF Protect!AddGpioGroup
  <2>3. stage' \in [Protect!Names -> {"none", "waiting", "online", "monitored", "cooling"}]
    BY <1>2 DEF Protect!AddGpioGroup, ProtectInv
  <2> QED BY <1>2, <2>1, <2>2, <2>3 DEF Protect!AddGpioGroup, ProtectInv
<1>3. ASSUME NEW n \in Protect!Names, Protect!InputChanges(n) PROVE ProtectInv'
  <2>0. PICK v : v = ~input[n]
    OBVIOUS
  <2>1. input' \in [Protect!Names -> BOOLEAN]
    BY <1>3, <2>0 DEF Protect!InputChanges, ProtectInv
  <2>2. changes' \in 0..MaxChanges
    BY <1>0, <1>3 DEF Protect!InputChanges, ProtectInv
  <2>3. UNCHANGED <<graph, groups, stage, setting, unread>>
    BY <1>3 DEF Protect!InputChanges
  <2> QED BY <2>1, <2>2, <2>3 DEF ProtectInv
<1>4. ASSUME NEW d \in DOMAIN groups, Protect!SetWriteProtected(d) PROVE ProtectInv'
  <2>1. PICK v \in BOOLEAN : input' = [input EXCEPT ![groups[d].settable] = v]
    BY <1>4 DEF Protect!SetWriteProtected
  <2>2. input' \in [Protect!Names -> BOOLEAN]
    BY <2>1 DEF ProtectInv
  <2>3. changes' \in 0..MaxChanges
    BY <1>0, <1>4 DEF Protect!SetWriteProtected, ProtectInv
  <2> QED BY <1>4, <2>2, <2>3 DEF Protect!SetWriteProtected, ProtectInv
<1>5. CASE Protect!ReadBack
  <2>1. DOMAIN graph' = {"nodes", "dirty", "told"} /\ graph'.dirty = {}
    BY <1>5, Propagated, Zenon DEF Protect!ReadBack, ProtectInv
  <2> QED BY <1>5, <2>1 DEF Protect!ReadBack, ProtectInv
<1>6. ASSUME NEW n \in Protect!Names, Protect!Online(n) \/ Protect!CoolOff(n) PROVE ProtectInv'
  <2>1. stage' \in [Protect!Names -> {"none", "waiting", "online", "monitored", "cooling"}]
    BY <1>6 DEF Protect!Online, Protect!CoolOff, ProtectInv
  <2> QED BY <1>6, <2>1 DEF Protect!Online, Protect!CoolOff, ProtectInv
<1>7. ASSUME NEW n \in Protect!Names, Protect!Activate(n) \/ Protect!Monitor(n) PROVE ProtectInv'
  <2>1. stage' \in [Protect!Names -> {"none", "waiting", "online", "monitored", "cooling"}]
    BY <1>7 DEF Protect!Activate, Protect!Monitor, ProtectInv
  <2>2. DOMAIN graph' = {"nodes", "dirty", "told"} /\ graph'.dirty = {}
    BY <1>7, Propagated, Zenon DEF Protect!Activate, Protect!Monitor, ProtectInv
  <2>3. changes' \in 0..MaxChanges
    BY <1>0, <1>7 DEF Protect!Activate, Protect!Monitor, ProtectInv
  <2>4. unread' \subseteq Protect!Names
    BY <1>7 DEF Protect!Activate, Protect!Monitor, ProtectInv
  <2> QED BY <1>7, <2>1, <2>2, <2>3, <2>4 DEF Protect!Activate, Protect!Monitor, ProtectInv
<1>8. CASE UNCHANGED protectVars
  BY <1>8 DEF protectVars, ProtectInv
<1> QED BY <1>1, <1>2, <1>3, <1>4, <1>5, <1>6, <1>7, <1>8 DEF Protect!Next, Protect!Proceeds

(* NvmeBasic: no drive is twice in the list, the cursor is in it, and a    *)
(* drive is asked only when one was chosen.                                *)
Bays == [value : Basic!Temperatures \cup {Basic!NaN}, errCount : 0..DriveErrors,
         scanDelay : 0..ScanDelayTicks]
Lists == {q \in Seq(Drives) : \A i, j \in DOMAIN q : q[i] = q[j] => i = j}

BasicInv ==
    /\ polled \in Lists /\ Basic!CursorIsValid
    /\ walk \in {"timer", "request", "response", "stopped"}
    /\ drive \in Drives \cup {Basic!End} /\ (walk = "request" => drive \in Drives)
    /\ response \in Basic!Answers /\ reading \in [Drives -> Basic!Answers]
    /\ powered \in BOOLEAN /\ sensor \in [Drives -> Bays]
    /\ driveEvents \in 0..MaxDriveEvents

LEMMA BasicConstants ==
  /\ IsFiniteSet(Drives) /\ Drives # {} /\ MaxDriveEvents \in Nat
  /\ DriveErrors \in Nat /\ DriveErrors > 0 /\ ScanDelayTicks \in Nat /\ ScanDelayTicks > 0
BY DaemonsAssumption DEF Basic!NvmeAssumption, Basic!IsFiniteSet, IsFiniteSet

LEMMA BasicTypes == ASSUME BasicInv PROVE Basic!TypeOK /\ Basic!CursorIsValid
<1>1. pollCursor \in Drives \cup {Basic!End}
  BY DEF BasicInv, Basic!CursorIsValid, Basic!Range, Lists
<1> QED BY <1>1 DEF BasicInv, Basic!TypeOK, Lists, Bays

\* A set of drives has a list, in which each is once.
LEMMA ListOf == ASSUME NEW S \in SUBSET Drives PROVE Basic!SetToSeq(S) \in Lists /\ (S # {} => Basic!SetToSeq(S) # <<>>)
<1>1. Cardinality(S) \in Nat /\ ExistsBijection(1 .. Cardinality(S), S)
  BY BasicConstants, FS_Subset, FS_CardinalityType
<1>2. PICK f \in [1 .. Cardinality(S) -> S] : \A a, b \in DOMAIN f : f[a] = f[b] => a = b
  BY <1>1 DEF ExistsBijection, Bijection, Injection, IsInjective
<1>3. Basic!Cardinality(S) = Cardinality(S)
  BY DEF Basic!Cardinality, Cardinality
<1>4. PICK g : g = Basic!SetToSeq(S)
  OBVIOUS
<1>5. g \in [1 .. Cardinality(S) -> S] /\ \A a, b \in DOMAIN g : g[a] = g[b] => a = b
  BY <1>2, <1>3, <1>4 DEF Basic!SetToSeq, Basic!IsInjective
<1>6. g \in Seq(Drives)
  BY <1>1, <1>5
<1>7. S # {} => Cardinality(S) # 0
  BY <1>1, BasicConstants, FS_Subset, FS_EmptySet
<1>8. S # {} => 1 \in DOMAIN g
  BY <1>1, <1>5, <1>7
<1>9. S # {} => g # <<>>
  BY <1>8
<1> QED BY <1>4, <1>5, <1>6, <1>9 DEF Lists

LEMMA BayTicks ==
  ASSUME NEW s \in Bays
  PROVE  Basic!Ticked(s) \in Bays /\ Basic!Blank(s) \in Bays /\ Basic!Fresh \in Bays
<1>1. s.scanDelay \in 0..ScanDelayTicks /\ ScanDelayTicks \in Nat /\ ScanDelayTicks > 0
  BY BasicConstants DEF Bays
<1>2. PICK n : n = IF ~Basic!InError(s) THEN 0
                   ELSE (IF s.scanDelay = 0 THEN ScanDelayTicks ELSE s.scanDelay) - 1
  OBVIOUS
<1>3. n \in 0..ScanDelayTicks
  BY <1>1, <1>2
<1>4. Basic!Ticked(s) = [s EXCEPT !.scanDelay = n]
  BY <1>2 DEF Basic!Ticked
<1>5. Basic!Ticked(s) \in Bays
  BY <1>3, <1>4 DEF Bays
<1>6. 0 \in 0..DriveErrors /\ 0 \in 0..ScanDelayTicks
  BY BasicConstants
<1>7. [s EXCEPT !.value = Basic!NaN] \in Bays
  BY DEF Bays
<1>8. Basic!Blank(s) = [[s EXCEPT !.value = Basic!NaN] EXCEPT !.errCount = 0]
  BY DEF Basic!Blank, Bays
<1>9. Basic!Blank(s) \in Bays
  BY <1>6, <1>7, <1>8 DEF Bays
<1>10. Basic!Fresh \in Bays
  BY <1>6 DEF Basic!Fresh, Bays
<1> QED BY <1>5, <1>9, <1>10

LEMMA BayTold ==
  ASSUME BasicInv, NEW s \in Bays PROVE Basic!Processed(s) \in Bays
<1>1. ASSUME NEW v \in Basic!Temperatures \cup {Basic!NaN} PROVE Basic!Shows(s, v) \in Bays
  <2>1. PICK t : t = [s EXCEPT !.value = v]
    OBVIOUS
  <2>2. t \in Bays /\ 0 \in 0..DriveErrors
    BY <2>1, BasicConstants DEF Bays
  <2>3. Basic!Shows(s, v) = [t EXCEPT !.errCount = IF v = Basic!NaN THEN @ ELSE 0]
    BY <2>1 DEF Basic!Shows, Bays
  <2> QED BY <2>2, <2>3 DEF Bays
<1>2. Basic!IncrementError(s) \in Bays
  <2>1. CASE ~powered
    BY <2>1, BayTicks DEF Basic!IncrementError
  <2>2. CASE s.errCount >= DriveErrors
    BY <2>2, BayTicks DEF Basic!IncrementError
  <2>3. CASE powered /\ ~(s.errCount >= DriveErrors) /\ s.errCount + 1 = DriveErrors
    <3>1. PICK t : t = [s EXCEPT !.value = Basic!NaN]
      OBVIOUS
    <3>2. t \in Bays /\ DriveErrors \in 0..DriveErrors
      BY <3>1, BasicConstants DEF Bays
    <3>3. Basic!IncrementError(s) = [t EXCEPT !.errCount = DriveErrors]
      BY <2>3, <3>1 DEF Basic!IncrementError, Bays
    <3> QED BY <3>2, <3>3 DEF Bays
  <2>4. CASE powered /\ ~(s.errCount >= DriveErrors) /\ s.errCount + 1 # DriveErrors
    <3>1. s.errCount + 1 \in 0..DriveErrors
      BY <2>4, BasicConstants DEF Bays
    <3>2. Basic!IncrementError(s) = [s EXCEPT !.errCount = s.errCount + 1]
      BY <2>4 DEF Basic!IncrementError
    <3> QED BY <3>1, <3>2 DEF Bays
  <2> QED BY <2>1, <2>2, <2>3, <2>4
<1>3. \A v \in Basic!Temperatures \cup {Basic!NaN} : Basic!UpdateValue(s, v) \in Bays
  BY <1>1, BayTicks DEF Basic!UpdateValue
<1>4. response \notin {Basic!Short, Basic!Stale, Basic!NotReady} => response \in Basic!Temperatures
  BY DEF BasicInv, Basic!Answers
<1> QED BY <1>2, <1>3, <1>4 DEF Basic!Processed

LEMMA FirstOf ==
  ASSUME NEW S \in SUBSET Nat, S # {}
  PROVE  (CHOOSE i \in S : \A j \in S : i <= j) \in S
<1>1. PICK x \in S : \A y \in S : ~(<<y, x>> \in OpToRel(<, Nat))
  BY NatLessThanWellFounded, WFMin
<1>2. \A y \in S : x <= y
  <2> SUFFICES ASSUME NEW y \in S PROVE x <= y
    OBVIOUS
  <2>1. ~(<<y, x>> \in {ss \in Nat \X Nat : ss[1] < ss[2]})
    BY <1>1 DEF OpToRel
  <2>2. ~(y < x)
    BY <2>1
  <2> QED BY <2>2
<1> QED BY <1>2

\* What a walk finds: a drive that is due, or the end of the list.
LEMMA Walked ==
  ASSUME BasicInv, NEW rest \in Seq(Drives), Basic!Range(rest) \subseteq Basic!Range(polled),
         NEW table \in [Drives -> Bays], Basic!ReadFrom(rest, table)
  PROVE  /\ sensor' \in [Drives -> Bays]
         /\ pollCursor' \in Basic!Range(polled) \cup {Basic!End}
         /\ \/ walk' = "timer" /\ drive' = drive
            \/ walk' = "request" /\ drive' \in Drives
<1> DEFINE due == {i \in DOMAIN rest : powered /\ Basic!Sampled(table[rest[i]])}
           first == IF due = {} THEN Len(rest) + 1 ELSE CHOOSE i \in due : \A j \in due : i <= j
<1>1. PICK passed :
         /\ sensor' = [d \in Drives |-> IF d \notin passed THEN table[d]
                                       ELSE IF powered THEN Basic!Ticked(table[d])
                                       ELSE Basic!Blank(table[d])]
         /\ IF due = {} THEN Basic!Poll(polled) /\ UNCHANGED drive
            ELSE /\ drive' = rest[first] /\ walk' = "request"
                 /\ pollCursor' = Basic!Following(rest, first)
  BY DEF Basic!ReadFrom
<1>2. sensor' \in [Drives -> Bays]
  BY <1>1, BayTicks
<1>3. CASE due = {}
  <2>1. pollCursor' = (IF polled = <<>> THEN Basic!End ELSE Head(polled)) /\ walk' = "timer"
    BY <1>1, <1>3 DEF Basic!Poll
  <2>2. polled # <<>> => Head(polled) \in Basic!Range(polled)
    BY DEF BasicInv, Lists, Basic!Range
  <2> QED BY <1>1, <1>2, <1>3, <2>1, <2>2
<1>4. CASE due # {}
  <2>1. due \in SUBSET Nat /\ due \subseteq DOMAIN rest
    OBVIOUS
  <2>2. first \in due
    BY <1>4, <2>1, FirstOf
  <2>3. PICK n : n = first
    OBVIOUS
  <2>4. n \in DOMAIN rest /\ rest[n] \in Drives /\ n \in 1 .. Len(rest) /\ Len(rest) \in Nat
    BY <2>1, <2>2, <2>3
  <2>5. Basic!Following(rest, n) \in Basic!Range(rest) \cup {Basic!End}
    <3>1. n < Len(rest) => n + 1 \in DOMAIN rest
      BY <2>4
    <3> QED BY <3>1 DEF Basic!Following, Basic!Range
  <2>6. pollCursor' = Basic!Following(rest, n) /\ drive' = rest[n] /\ walk' = "request"
    BY <1>1, <1>4, <2>3
  <2> QED BY <1>2, <2>4, <2>5, <2>6
<1> QED BY <1>3, <1>4

LEMMA PlaceOf ==
  ASSUME NEW d \in Basic!Range(polled)
  PROVE  Basic!Position(d) \in DOMAIN polled /\ polled[Basic!Position(d)] = d
BY DEF Basic!Range, Basic!Position

LEMMA LeftToWalk ==
  ASSUME BasicInv
  PROVE  Basic!Rest \in Seq(Drives) /\ Basic!Range(Basic!Rest) \subseteq Basic!Range(polled)
<1>1. CASE pollCursor = Basic!End
  BY <1>1 DEF Basic!Rest, Basic!Range
<1>2. CASE pollCursor # Basic!End
  <2>1. PICK i \in DOMAIN polled : i = Basic!Position(pollCursor)
    BY <1>2, PlaceOf DEF BasicInv, Basic!CursorIsValid
  <2>2. PICK r : r = SubSeq(polled, i, Len(polled))
    OBVIOUS
  <2>3. /\ polled \in Seq(Drives) /\ i \in 1 .. Len(polled) /\ Len(polled) \in Nat
    BY <2>1 DEF BasicInv, Lists
  <2>4. /\ r \in Seq(Drives) /\ Len(r) = Len(polled) - i + 1
        /\ \A k \in 1 .. Len(r) : r[k] = polled[i + k - 1] /\ i + k - 1 \in DOMAIN polled
    BY <2>2, <2>3
  <2>5. Basic!Range(r) \subseteq Basic!Range(polled)
    BY <2>4 DEF Basic!Range
  <2> QED BY <1>2, <2>1, <2>2, <2>4, <2>5 DEF Basic!Rest
<1> QED BY <1>1, <1>2

\* What is left of a list without one element.
LEMMA Erased ==
  ASSUME NEW q \in Lists, NEW i \in DOMAIN q
  PROVE  /\ Basic!RemoveAt(q, i) \in Lists
         /\ \A j \in DOMAIN q : j # i => q[j] \in Basic!Range(Basic!RemoveAt(q, i))
<1>1. PICK r : r = Basic!RemoveAt(q, i)
  OBVIOUS
<1>2. q \in Seq(Drives) /\ Len(q) \in Nat /\ i \in 1 .. Len(q) /\ DOMAIN q = 1 .. Len(q)
  BY DEF Lists
<1>3. PICK a, b : a = SubSeq(q, 1, i - 1) /\ b = SubSeq(q, i + 1, Len(q))
  OBVIOUS
<1>4. /\ a \in Seq(Drives) /\ Len(a) = i - 1
      /\ b \in Seq(Drives) /\ Len(b) = Len(q) - i
      /\ \A k \in 1 .. i - 1 : a[k] = q[k]
      /\ \A k \in 1 .. Len(q) - i : b[k] = q[i + k]
  <2>1. CASE i = 1
    BY <1>2, <1>3, <2>1
  <2>2. CASE i > 1
    <3>1. a \in Seq(Drives) /\ Len(a) = i - 1 /\ \A k \in 1 .. i - 1 : a[k] = q[k]
      BY <1>2, <1>3, <2>2
    <3>2. CASE i = Len(q)
      BY <1>2, <1>3, <3>1, <3>2
    <3>3. CASE i < Len(q)
      <4>1. PICK n : n = i + 1
        OBVIOUS
      <4>2. n \in 1 .. Len(q) /\ b = SubSeq(q, n, Len(q))
        BY <1>2, <1>3, <3>3, <4>1
      <4>3. /\ b \in Seq(Drives) /\ Len(b) = Len(q) - n + 1
            /\ \A k \in 1 .. Len(q) - n + 1 : b[k] = q[n + k - 1]
        BY <1>2, <4>2
      <4>4. /\ Len(q) - n + 1 = Len(q) - i
            /\ \A k \in 1 .. Len(q) - i : k \in 1 .. Len(q) - n + 1 /\ n + k - 1 = i + k
        BY <1>2, <4>1
      <4>5. /\ b \in Seq(Drives) /\ Len(b) = Len(q) - i
            /\ \A k \in 1 .. Len(q) - i : b[k] = q[i + k]
        BY <4>3, <4>4
      <4> QED BY <3>1, <4>5
    <3> QED BY <1>2, <3>2, <3>3
  <2> QED BY <1>2, <2>1, <2>2
<1>5. r = a \o b
  BY <1>1, <1>3 DEF Basic!RemoveAt
<1>6. /\ r \in Seq(Drives) /\ Len(r) = Len(q) - 1
      /\ \A k \in 1 .. Len(q) - 1 : r[k] = IF k < i THEN q[k] ELSE q[k + 1]
  <2>0. \A x, y \in Seq(Drives) : x \o y \in Seq(Drives) /\ Len(x \o y) = Len(x) + Len(y)
    OBVIOUS
  <2>1. r \in Seq(Drives) /\ Len(r) = Len(q) - 1
    <3>1. a \in Seq(Drives) /\ b \in Seq(Drives) /\ Len(a) = i - 1 /\ Len(b) = Len(q) - i
      BY <1>4
    <3>2. r \in Seq(Drives) /\ Len(r) = Len(a) + Len(b)
      BY <1>5, <2>0, <3>1
    <3>3. (i - 1) + (Len(q) - i) = Len(q) - 1
      BY <1>2
    <3> QED BY <3>1, <3>2, <3>3
  <2>2. ASSUME NEW k \in 1 .. Len(q) - 1 PROVE r[k] = IF k < i THEN q[k] ELSE q[k + 1]
    <3>1. CASE k < i
      <4>1. k \in 1 .. i - 1 /\ k \in 1 .. Len(a)
        BY <1>2, <1>4, <3>1
      <4>2. r[k] = a[k]
        BY <1>4, <1>5, <4>1
      <4> QED BY <1>4, <3>1, <4>1, <4>2
    <3>2. CASE ~(k < i)
      <4>1. k - (i - 1) \in 1 .. Len(q) - i /\ i + (k - (i - 1)) = k + 1
        BY <1>2, <3>2
      <4>2. r[k] = b[k - (i - 1)]
        BY <1>2, <1>4, <1>5, <3>2
      <4> QED BY <1>4, <3>2, <4>1, <4>2
    <3> QED BY <3>1, <3>2
  <2> QED BY <2>1, <2>2
<1>7. ASSUME NEW k \in DOMAIN r, NEW l \in DOMAIN r, r[k] = r[l] PROVE k = l
  <2>1. DOMAIN r = 1 .. Len(q) - 1 /\ k \in Nat /\ l \in Nat
    BY <1>2, <1>6
  <2>2. PICK m \in DOMAIN q : m = (IF k < i THEN k ELSE k + 1) /\ r[k] = q[m]
    BY <1>2, <1>6, <2>1
  <2>3. PICK n \in DOMAIN q : n = (IF l < i THEN l ELSE l + 1) /\ r[l] = q[n]
    BY <1>2, <1>6, <2>1
  <2>4. m = n
    BY <1>7, <2>2, <2>3 DEF Lists
  <2> QED BY <1>2, <2>1, <2>2, <2>3, <2>4
<1>8. ASSUME NEW j \in DOMAIN q, j # i PROVE q[j] \in Basic!Range(r)
  <2>1. PICK k \in 1 .. Len(q) - 1 : r[k] = q[j]
    <3>1. CASE j < i
      BY <1>2, <1>6, <3>1
    <3>2. CASE j > i
      <4>1. j - 1 \in 1 .. Len(q) - 1 /\ ~(j - 1 < i) /\ (j - 1) + 1 = j
        BY <1>2, <3>2
      <4> QED BY <1>6, <4>1
    <3> QED BY <1>2, <1>8, <3>1, <3>2
  <2> QED BY <1>6, <2>1 DEF Basic!Range
<1> QED BY <1>1, <1>6, <1>7, <1>8 DEF Lists

LEMMA BasicStart == ASSUME Basic!Start PROVE BasicInv
<1>1. /\ polled = Basic!SetToSeq(Drives) /\ pollCursor = Head(polled) /\ walk = "timer"
      /\ drive = Basic!End /\ response = Basic!Short /\ reading = [d \in Drives |-> 40]
      /\ powered = TRUE /\ sensor = [d \in Drives |-> Basic!Fresh] /\ driveEvents = 0
  BY DEF Basic!Start
<1>2. polled \in Lists
  BY <1>1, ListOf
<1>3. polled # <<>>
  BY <1>1, ListOf, BasicConstants
<1>4. pollCursor \in Basic!Range(polled)
  BY <1>1, <1>2, <1>3 DEF Basic!Range, Lists
<1>5. Basic!Fresh \in Bays
  BY BasicConstants DEF Basic!Fresh, Bays
<1>6. 0 \in 0..MaxDriveEvents
  BY BasicConstants
<1>7. 40 \in Basic!Answers /\ Basic!Short \in Basic!Answers
  BY DEF Basic!Answers, Basic!Temperatures
<1> QED BY <1>1, <1>2, <1>4, <1>5, <1>6, <1>7 DEF BasicInv, Basic!CursorIsValid

LEMMA BasicStep ==
  ASSUME BasicInv, Basic!Next \/ UNCHANGED basicVars PROVE BasicInv'
<1>0. /\ polled \in Lists /\ pollCursor \in Basic!Range(polled) \cup {Basic!End}
      /\ sensor \in [Drives -> Bays]
  BY DEF BasicInv, Basic!CursorIsValid
<1>1. CASE Basic!Scan
  <2>1. /\ Basic!ReadFrom(Basic!Rest, sensor)
        /\ UNCHANGED <<polled, response, reading, powered, driveEvents>>
    BY <1>1 DEF Basic!Scan
  <2>2. /\ sensor' \in [Drives -> Bays]
        /\ pollCursor' \in Basic!Range(polled) \cup {Basic!End}
        /\ \/ walk' = "timer" /\ drive' = drive
           \/ walk' = "request" /\ drive' \in Drives
    BY <1>0, <2>1, LeftToWalk, Walked
  <2> QED BY <2>1, <2>2 DEF BasicInv, Basic!CursorIsValid
<1>2. CASE Basic!Query
  <2>1. walk = "request" /\ response' = reading[drive] /\ walk' = "response"
        /\ UNCHANGED <<polled, pollCursor, drive, reading, powered, sensor, driveEvents>>
    BY <1>2 DEF Basic!Query
  <2>2. response' \in Basic!Answers
    BY <2>1 DEF BasicInv
  <2> QED BY <2>1, <2>2 DEF BasicInv, Basic!CursorIsValid
<1>3. CASE Basic!Response
  <2>1. UNCHANGED <<polled, response, reading, powered, driveEvents>>
    BY <1>3 DEF Basic!Response
  <2>2. CASE drive \in Basic!Range(polled)
    <3>1. drive \in Drives
      BY <1>0, <2>2 DEF Basic!Range, Lists
    <3>2. PICK s : s = Basic!Processed(sensor[drive])
      OBVIOUS
    <3>3. s \in Bays
      BY <1>0, <3>1, <3>2, BayTold
    <3>4. PICK table : table = [sensor EXCEPT ![drive] = s]
      OBVIOUS
    <3>5. table \in [Drives -> Bays]
      BY <1>0, <3>3, <3>4
    <3>6. Basic!ReadFrom(Basic!Rest, table)
      BY <1>3, <2>2, <3>2, <3>4 DEF Basic!Response
    <3>7. /\ sensor' \in [Drives -> Bays]
          /\ pollCursor' \in Basic!Range(polled) \cup {Basic!End}
          /\ \/ walk' = "timer" /\ drive' = drive
             \/ walk' = "request" /\ drive' \in Drives
      BY <3>5, <3>6, LeftToWalk, Walked
    <3> QED BY <2>1, <3>7 DEF BasicInv, Basic!CursorIsValid
  <2>3. CASE drive \notin Basic!Range(polled)
    <3>1. walk' = "stopped" /\ UNCHANGED <<pollCursor, drive, sensor>>
      BY <1>3, <2>3 DEF Basic!Response
    <3> QED BY <2>1, <3>1 DEF BasicInv, Basic!CursorIsValid
  <2> QED BY <2>2, <2>3
<1>4. CASE Basic!InterfaceRemoved
  <2>1. PICK d \in Basic!Range(polled) : Basic!RemoveSensor(d)
    BY <1>4 DEF Basic!InterfaceRemoved
  <2>2. /\ driveEvents < MaxDriveEvents /\ driveEvents' = driveEvents + 1
        /\ UNCHANGED <<walk, drive, response, reading, powered, sensor>>
    BY <1>4 DEF Basic!InterfaceRemoved, Basic!Event
  <2>3. PICK i \in DOMAIN polled : i = Basic!Position(d) /\ polled[i] = d
    BY PlaceOf
  <2>4. polled' = Basic!RemoveAt(polled, i) /\ pollCursor' = Basic!Advanced(d)
    BY <2>1, <2>3 DEF Basic!RemoveSensor
  <2>5. /\ polled' \in Lists
        /\ \A j \in DOMAIN polled : j # i => polled[j] \in Basic!Range(polled')
    BY <1>0, <2>4, Erased
  <2>6. pollCursor' \in Basic!Range(polled') \cup {Basic!End}
    <3>1. CASE pollCursor = d
      <4>1. pollCursor' = Basic!Following(polled, i)
        BY <2>3, <2>4, <3>1 DEF Basic!Advanced
      <4>2. i < Len(polled) => i + 1 \in DOMAIN polled /\ i + 1 # i
        BY <1>0 DEF Lists
      <4> QED BY <2>5, <4>1, <4>2 DEF Basic!Following
    <3>2. CASE pollCursor # d
      <4>1. pollCursor' = pollCursor
        BY <2>4, <3>2 DEF Basic!Advanced
      <4>2. CASE pollCursor \in Basic!Range(polled)
        <5>1. PICK j \in DOMAIN polled : pollCursor = polled[j]
          BY <4>2 DEF Basic!Range
        <5> QED BY <2>3, <2>5, <3>2, <4>1, <5>1
      <4> QED BY <1>0, <4>1, <4>2
    <3> QED BY <3>1, <3>2
  <2>7. driveEvents' \in 0..MaxDriveEvents
    BY <2>2, BasicConstants DEF BasicInv
  <2>8. Basic!CursorIsValid'
    BY <2>6 DEF Basic!CursorIsValid, Basic!Range
  <2> QED BY <2>2, <2>5, <2>7, <2>8 DEF BasicInv
<1>5. CASE Basic!Reconfigured
  <2>1. PICK S \in SUBSET Drives : polled' = Basic!SetToSeq(S) /\ Basic!Poll(Basic!SetToSeq(S))
    BY <1>5 DEF Basic!Reconfigured
  <2>2. /\ driveEvents < MaxDriveEvents /\ driveEvents' = driveEvents + 1
        /\ sensor' = [d \in Drives |-> Basic!Fresh] /\ drive' = Basic!End
        /\ UNCHANGED <<response, reading, powered>>
    BY <1>5 DEF Basic!Reconfigured, Basic!Event
  <2>3. polled' \in Lists
    BY <2>1, ListOf
  <2>4. walk' = "timer" /\ pollCursor' = IF polled' = <<>> THEN Basic!End ELSE Head(polled')
    BY <2>1 DEF Basic!Poll
  <2>5. Basic!CursorIsValid'
    BY <2>3, <2>4 DEF Basic!CursorIsValid, Basic!Range, Lists
  <2>6. Basic!Fresh \in Bays
    BY BasicConstants DEF Basic!Fresh, Bays
  <2>7. driveEvents' \in 0..MaxDriveEvents
    BY <2>2, BasicConstants DEF BasicInv
  <2> QED BY <2>2, <2>3, <2>4, <2>5, <2>6, <2>7 DEF BasicInv
<1>6. CASE Basic!DriveChanges
  <2>1. /\ driveEvents < MaxDriveEvents /\ driveEvents' = driveEvents + 1
        /\ UNCHANGED <<polled, pollCursor, walk, drive, response, sensor>>
    BY <1>6 DEF Basic!DriveChanges, Basic!Event
  <2>2. driveEvents' \in 0..MaxDriveEvents
    BY <2>1, BasicConstants DEF BasicInv
  <2>3. reading' \in [Drives -> Basic!Answers]
    BY <1>6 DEF Basic!DriveChanges, BasicInv
  <2>4. powered' \in BOOLEAN
    BY <1>6, Zenon DEF Basic!DriveChanges, BasicInv
  <2> QED BY <2>1, <2>2, <2>3, <2>4 DEF BasicInv, Basic!CursorIsValid
<1>7. CASE UNCHANGED basicVars
  BY <1>7 DEF basicVars, BasicInv, Basic!CursorIsValid
<1> QED BY <1>1, <1>2, <1>3, <1>4, <1>5, <1>6, <1>7 DEF Basic!Next, Basic!Proceeds

(* IpmbPoll: one wait or one call is outstanding, or two after a new       *)
(* configuration.                                                          *)
IpmbCounts ==
    /\ ipmbCalls \in Nat /\ waitQueued \in Nat
    /\ \/ waitArmed = TRUE /\ ipmbCalls + waitQueued \in 0..1
       \/ waitArmed = FALSE /\ ipmbCalls + waitQueued \in 1..2

LEMMA CountsStart == ASSUME Ipmb!Init \/ Ipmb!Start PROVE IpmbCounts
<1>1. ipmbCalls = 0 /\ waitQueued = 0 /\ waitArmed = TRUE
  BY DEF Ipmb!Init, Ipmb!Start, Ipmb!StartWith
<1> QED BY <1>1 DEF IpmbCounts

LEMMA CountsStep == ASSUME IpmbCounts, Ipmb!Next \/ UNCHANGED ipmbVars PROVE IpmbCounts'
<1>1. CASE Ipmb!WaitExpires
  <2>1. waitArmed' = FALSE /\ waitQueued' = waitQueued + 1 /\ ipmbCalls' = ipmbCalls /\ waitArmed
    BY <1>1 DEF Ipmb!WaitExpires
  <2>2. ipmbCalls + waitQueued \in 0..1
    BY <2>1, Zenon DEF IpmbCounts
  <2> QED BY <2>1, <2>2 DEF IpmbCounts
<1>2. CASE Ipmb!WaitHandler
  <2>1. /\ waitQueued > 0 /\ waitQueued' = waitQueued - 1
        /\ \/ ipmbCalls' = ipmbCalls + 1 /\ waitArmed' = waitArmed
           \/ ipmbCalls' = ipmbCalls /\ waitArmed' = TRUE
    BY <1>2 DEF Ipmb!WaitHandler, Ipmb!SendRequest, Ipmb!Read
  <2>2. CASE ipmbCalls' = ipmbCalls + 1 /\ waitArmed' = waitArmed
    BY <2>1, <2>2 DEF IpmbCounts
  <2>3. CASE ipmbCalls' = ipmbCalls /\ waitArmed' = TRUE
    BY <2>1, <2>3 DEF IpmbCounts
  <2> QED BY <2>1, <2>2, <2>3
<1>3. CASE Ipmb!Completion
  <2>1. /\ ipmbCalls > 0 /\ ipmbCalls' = ipmbCalls - 1 /\ waitArmed' = TRUE
        /\ waitQueued' = waitQueued
    BY <1>3 DEF Ipmb!Completion, Ipmb!Read
  <2> QED BY <2>1 DEF IpmbCounts
<1>4. CASE Ipmb!Recreate
  <2>1. waitQueued' = 0 /\ waitArmed' = TRUE /\ (ipmbCalls' = 0 \/ ipmbCalls' = 1)
    BY <1>4 DEF Ipmb!Recreate
  <2>2. /\ ipmbCalls' \in Nat /\ waitQueued' \in Nat
        /\ ipmbCalls' + waitQueued' \in 0..1
    BY <2>1
  <2> QED BY <2>1, <2>2 DEF IpmbCounts
<1>5. CASE UNCHANGED <<ipmbCalls, waitArmed, waitQueued>>
  BY <1>5 DEF IpmbCounts
<1> QED BY <1>1, <1>2, <1>3, <1>4, <1>5
        DEF Ipmb!Next, Ipmb!InitExpires, Ipmb!InitHandler, Ipmb!HostChanges, Ipmb!WordChanges,
            ipmbVars

-----------------------------------------------------------------------------
\* A step of the daemons is one of a part, or leaves that part as it is.
LEMMA ShownSteps ==
  ASSUME [DaemonsNext]_daemonsVars
  PROVE  /\ part' = part
         /\ Next \/ UNCHANGED scanVars
         /\ Protect!Next \/ UNCHANGED protectVars
         /\ Basic!Next \/ UNCHANGED basicVars
         /\ Telemetry!Next \/ UNCHANGED telemetryVars
         /\ Chassis!Next \/ UNCHANGED chassisVars
         /\ Ipmb!Next \/ UNCHANGED ipmbVars
         /\ Psu!Next \/ UNCHANGED psuVars
         /\ Shm!Next \/ UNCHANGED shmVars
<1>1. CASE UNCHANGED daemonsVars
  BY <1>1 DEF daemonsVars
<1>2. CASE DaemonsNext
  <2>1. Telemetry!Next \/ UNCHANGED telemetryVars
    BY <1>2, Zenon DEF DaemonsNext, Only
  <2>2. Chassis!Next \/ UNCHANGED chassisVars
    BY <1>2, Zenon DEF DaemonsNext, Only
  <2>3. Ipmb!Next \/ UNCHANGED ipmbVars
    BY <1>2, Zenon DEF DaemonsNext, Only
  <2>4. Psu!Next \/ UNCHANGED psuVars
    BY <1>2, Zenon DEF DaemonsNext, Only
  <2>5. Shm!Next \/ UNCHANGED shmVars
    BY <1>2, Zenon DEF DaemonsNext, Only
  <2>6. Next \/ UNCHANGED scanVars
    BY <1>2, Zenon DEF DaemonsNext, Only
  <2>7. Protect!Next \/ UNCHANGED protectVars
    BY <1>2, Zenon DEF DaemonsNext, Only
  <2>8. Basic!Next \/ UNCHANGED basicVars
    BY <1>2, Zenon DEF DaemonsNext, Only
  <2>9. part' = part
    BY <1>2, Zenon DEF DaemonsNext, Only
  <2> QED BY <2>1, <2>2, <2>3, <2>4, <2>5, <2>6, <2>7, <2>8, <2>9
<1> QED BY <1>1, <1>2

ShownInv == TelemetryInv /\ ChassisInv /\ IpmbValueInv /\ PsuInv /\ ShmInv

LEMMA ShownStart == ASSUME DaemonsInit PROVE ShownInv
<1>1. \E c \in Telemetry!Classes : Telemetry!Start(c)
  <2>1. "EccMode" \in Telemetry!Classes
    BY DEF Telemetry!Classes, Telemetry!Items
  <2> QED BY <2>1, Zenon DEF DaemonsInit, Telemetry!Init
<1>2. (Chassis!Init \/ Chassis!Start) /\ (Ipmb!Init \/ Ipmb!Start)
  BY DEF DaemonsInit
<1>3. Psu!Start /\ Shm!Start
  BY DEF DaemonsInit, Psu!Init, Shm!Init
<1> QED BY <1>1, <1>2, <1>3, TelemetryStart, ChassisStart, IpmbValueStart, PsuStart, ShmStart
        DEF ShownInv

LEMMA ShownStep == ASSUME ShownInv, [DaemonsNext]_daemonsVars PROVE ShownInv'
BY ShownSteps, TelemetryStep, ChassisStep, IpmbValueStep, PsuStep, ShmStep DEF ShownInv

LEMMA ScanStarts == ASSUME DaemonsInit PROVE ScanInv
<1>1. "adc" \in DOMAIN Scans
  BY DEF Scans
<1>2. Daemons \subseteq DOMAIN Scans
  BY DaemonsAssumption DEF ConfigAssumption
<1>3. \E d \in DOMAIN Scans : Start(d)
  BY <1>1, <1>2, Zenon DEF DaemonsInit, Init
<1> QED BY <1>3, ScanStart

(* GpuTelemetry, ShmSensor, Intrusion, PsuRedundancy, IpmbPoll: in every   *)
(* state what these daemons show is the reading decoded last, a value the  *)
(* writer wrote whole, an intrusion since the sensor was armed, the        *)
(* redundancy of the supplies that work and the reading a word means,      *)
(* however many items, retries, monitors, supplies and words there are.    *)
THEOREM ShownStaysTrue == DaemonsSpec => [](part \notin {"codec", "protect"} => ShownIsTrue)
<1>1. DaemonsInit => ShownInv
  BY ShownStart
<1>2. ShownInv /\ [DaemonsNext]_daemonsVars => ShownInv'
  BY ShownStep
<1>3. ShownInv => (part \notin {"codec", "protect"} => ShownIsTrue)
  <2> SUFFICES ASSUME ShownInv, part \notin {"codec", "protect"} PROVE ShownIsTrue
    OBVIOUS
  <2>1. /\ Telemetry!ShownIsLastSeen /\ Chassis!IntrusionIsShown /\ Ipmb!ShownIsMeant
        /\ Psu!RedundancyIsCounted /\ Shm!ShownIsWhole
    BY ChassisShows, PsuShows, ShmShows DEF ShownInv, TelemetryInv, IpmbValueInv
  <2> QED BY <2>1, Zenon DEF ShownIsTrue
<1> QED BY <1>1, <1>2, <1>3, PTL DEF DaemonsSpec


(* ConfigScan: whichever of the daemons runs, and however many objects     *)
(* there are, in whatever order the loop takes them: a rescan after the    *)
(* first leaves every working sensor as it is that no signal named.        *)
THEOREM RescansAreQuiet == DaemonsSpec => OnlySignalledChange
<1>1. DaemonsInit => ScanInv
  BY ScanStarts
<1>2. ScanInv /\ [DaemonsNext]_daemonsVars => ScanInv' /\ QuietStays
  BY ShownSteps, ScanStep
<1> QED BY <1>1, <1>2, PTL DEF DaemonsSpec, OnlySignalledChange, QuietStays

(* ConfigScan, GpuTelemetry, WriteProtect, ShmSensor, Intrusion,           *)
(* PsuRedundancy, NvmeBasic, IpmbPoll: the variables keep their types.  In *)
(* particular the cursor of the NVMe walk is valid, whichever drives leave *)
(* while a request is under way, and no node of the protection graph waits *)
(* between two steps.                                                      *)
TypedParts == {"scan", "telemetry", "protect", "shm", "chassis", "psu", "basic", "ipmb"}

TypedInv ==
    part \in Parts /\ ShownInv /\ ScanInv /\ ProtectInv /\ BasicInv /\ IpmbCounts

THEOREM TypesAreKept == DaemonsSpec => [](part \in TypedParts => DaemonsTypeOK)
<1>1. DaemonsInit => TypedInv
  <2> SUFFICES ASSUME DaemonsInit PROVE TypedInv
    OBVIOUS
  <2>1. part \in Parts /\ ShownInv /\ ScanInv
    BY ShownStart, ScanStarts DEF DaemonsInit
  <2>2. Protect!Start /\ Basic!Start /\ (Ipmb!Init \/ Ipmb!Start)
    BY DEF DaemonsInit, Protect!Init
  <2> QED BY <2>1, <2>2, ProtectStart, BasicStart, CountsStart DEF TypedInv
<1>2. TypedInv /\ [DaemonsNext]_daemonsVars => TypedInv'
  BY ShownSteps, ShownStep, ScanStep, ProtectStep, BasicStep, CountsStep DEF TypedInv
<1>3. TypedInv => (part \in TypedParts => DaemonsTypeOK)
  <2> SUFFICES ASSUME TypedInv, part \in TypedParts PROVE DaemonsTypeOK
    OBVIOUS
  <2>1. /\ TypeOK /\ Telemetry!TypeOK /\ Protect!TypeOK /\ Shm!TypeOK /\ Chassis!TypeOK
        /\ Psu!TypeOK /\ Basic!TypeOK /\ Basic!CursorIsValid
    BY ScanTypes, ProtectTypes, BasicTypes, ChassisShows, PsuShows, ShmShows
       DEF TypedInv, ShownInv, TelemetryInv
  <2>2. Ipmb!TypeOK
    <3>1. ipmbCalls \in 0..2 /\ waitQueued \in 0..2
      BY DEF TypedInv, IpmbCounts
    <3>2. waitArmed \in BOOLEAN
      BY Zenon DEF TypedInv, IpmbCounts
    <3> QED BY <3>1, <3>2, IpmbShows DEF TypedInv, ShownInv
  <2>3. part \in {"scan", "telemetry", "protect", "shm", "chassis", "psu", "basic", "ipmb"}
    BY DEF TypedParts
  <2>4. part \in Parts
    BY DEF TypedInv
  <2> QED BY <2>1, <2>2, <2>3, <2>4, Zenon DEF DaemonsTypeOK
<1> QED BY <1>1, <1>2, <1>3, PTL DEF DaemonsSpec

=============================================================================
