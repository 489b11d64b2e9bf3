-------------------------- MODULE GpuDevicesProofs ---------------------------
(***************************************************************************)
(* Theorems about MCGpuDevices, for all configurations, endpoints and      *)
(* kinds of devices, inventories, ports and event types: which devices     *)
(* outlive their configuration, and the set-up chains of a device.         *)
(***************************************************************************)
EXTENDS MCGpuDevices, FiniteSetTheorems, TLAPS

-----------------------------------------------------------------------------
(* Sequences                                                               *)

LEMMA SetAsSeq ==
  ASSUME NEW S, IsFiniteSet(S)
  PROVE  SetToSeq(S) \in Seq(S)
<1>1. \E f \in [1..Cardinality(S) -> S] : IsInjective(f)
  BY FS_CardinalityType DEF ExistsBijection, Bijection, Injection
<1>2. SetToSeq(S) \in [1..Cardinality(S) -> S]
  BY <1>1 DEF SetToSeq
<1> QED BY <1>2, FS_CardinalityType

Says(s, m) == \E i \in DOMAIN s : s[i] = m

LEMMA RangeSays == \A s, m : m \in Range(s) <=> Says(s, m)
BY DEF Range, Says

LEMMA SaysAppended ==
  ASSUME NEW T, NEW s \in Seq(T), NEW t \in Seq(T), NEW m
  PROVE  Says(s \o t, m) <=> Says(s, m) \/ Says(t, m)
<1>1. ASSUME NEW i \in DOMAIN t PROVE Len(s) + i \in DOMAIN (s \o t) /\ (s \o t)[Len(s) + i] = t[i]
  OBVIOUS
<1>2. ASSUME NEW i \in DOMAIN s PROVE i \in DOMAIN (s \o t) /\ (s \o t)[i] = s[i]
  OBVIOUS
<1>3. ASSUME NEW i \in DOMAIN (s \o t)
      PROVE  (i \in DOMAIN s /\ (s \o t)[i] = s[i])
               \/ (i - Len(s) \in DOMAIN t /\ (s \o t)[i] = t[i - Len(s)])
  OBVIOUS
<1> QED BY <1>1, <1>2, <1>3 DEF Says

LEMMA SaysAppend ==
  ASSUME NEW T, NEW s \in Seq(T), NEW x \in T, NEW m
  PROVE  Says(Append(s, x), m) <=> Says(s, m) \/ m = x
<1>1. Append(s, x) = s \o <<x>> /\ <<x>> \in Seq(T)
  OBVIOUS
<1>2. Says(<<x>>, m) <=> m = x
  <2>1. DOMAIN <<x>> = {1} /\ <<x>>[1] = x
    OBVIOUS
  <2> QED BY <2>1 DEF Says
<1>3. Says(s \o <<x>>, m) <=> Says(s, m) \/ Says(<<x>>, m)
  BY <1>1, SaysAppended
<1> QED BY <1>1, <1>2, <1>3

LEMMA SaysTail ==
  ASSUME NEW T, NEW s \in Seq(T), s # <<>>, NEW m
  PROVE  Says(s, m) <=> Head(s) = m \/ Says(Tail(s), m)
<1>1. ASSUME NEW i \in DOMAIN Tail(s) PROVE i + 1 \in DOMAIN s /\ Tail(s)[i] = s[i + 1]
  OBVIOUS
<1>2. ASSUME NEW i \in DOMAIN s, i # 1 PROVE i - 1 \in DOMAIN Tail(s) /\ Tail(s)[i - 1] = s[i]
  <2>1. i - 1 \in 1..Len(Tail(s)) /\ (i - 1) + 1 = i
    BY <1>2
  <2> QED BY <1>1, <2>1
<1>3. 1 \in DOMAIN s /\ Head(s) = s[1]
  OBVIOUS
<1> QED BY <1>1, <1>2, <1>3 DEF Says

-----------------------------------------------------------------------------
(* The types of the manager                                                *)

LEMMA ManagerValues ==
  /\ MaxSignals \in Nat /\ MaxLosses \in Nat
  /\ Other \notin DeviceTypes /\ NoConfig \notin Configs
  /\ IsFiniteSet(Configs) /\ IsFiniteSet(Eids)
BY DevicesAssumption DEF ManagerAssumption

LEMMA ConfigsAsSeq ==
  ASSUME NEW C \in SUBSET Configs
  PROVE  SetToSeq(C) \in Seq(C) /\ SetToSeq(C) \in Seq(Configs)
<1>1. SetToSeq(C) \in Seq(C)
  BY SetAsSeq, FS_Subset, ManagerValues
<1> QED BY <1>1

LEMMA PairsAsSeq ==
  ASSUME NEW c \in Configs, NEW E \in SUBSET Eids
  PROVE  SetToSeq({c} \X E) \in Seq({c} \X E) /\ SetToSeq({c} \X E) \in Seq(Configs \X Eids)
<1>1. IsFiniteSet({c}) /\ IsFiniteSet(E)
  BY FS_Singleton, FS_Subset, ManagerValues
<1>2. IsFiniteSet({c} \X E)
  BY <1>1, FS_Product
<1>3. SetToSeq({c} \X E) \in Seq({c} \X E)
  BY <1>2, SetAsSeq
<1> QED BY <1>3

LEMMA MessageFields ==
  /\ \A C \in SUBSET Configs : [kind |-> "objects", paths |-> C] \in Messages
  /\ \A c \in Configs : [kind |-> "removed", path |-> c] \in Messages
  /\ [kind |-> "changed"] \in Messages
  /\ \A m \in Messages :
        \/ m.kind = "objects" /\ m.paths \in SUBSET Configs
        \/ m.kind = "removed" /\ m.path \in Configs /\ m = [kind |-> "removed", path |-> m.path]
        \/ m.kind = "changed"
BY DEF Messages

LEMMA HeadMessage ==
  ASSUME TypeOK, em # <<>>
  PROVE  Head(em) \in Messages /\ Head(em) = em[1] /\ 1 \in DOMAIN em /\ Tail(em) \in Seq(Messages)
BY DEF TypeOK

LEMMA ManagerInit == DevicesInit => TypeOK
<1> SUFFICES ASSUME DevicesInit PROVE TypeOK
  OBVIOUS
<1>1. /\ 0 \in 0..MaxSignals /\ MaxSignals \in 0..MaxSignals
      /\ 0 \in 0..MaxLosses /\ MaxLosses \in 0..MaxLosses
  BY ManagerValues
<1>2. /\ Start
      /\ configs \in SUBSET Configs /\ endpoints \in SUBSET Eids
      /\ identity \in [Eids -> DeviceTypes \cup {Other}] /\ asked \in Nat
      /\ signals \in 0..MaxSignals /\ removals \in 0..MaxLosses /\ failures \in 0..MaxLosses
  BY <1>1 DEF DevicesInit, ManagerIdle, Init
<1>3. /\ <<>> \in Seq(Messages) /\ <<>> \in Seq(Configs) /\ <<>> \in Seq(Configs \X Eids)
  OBVIOUS
<1> QED BY <1>2, <1>3 DEF Start, TypeOK

LEMMA WorldType ==
  ASSUME TypeOK,
         \/ \E c \in Configs : ConfigChanges(c) \/ ConfigRemoved(c)
         \/ \E e \in Eids, k \in DeviceTypes \cup {Other} : EndpointAppears(e, k)
         \/ \E e \in Eids : EndpointVanishes(e)
         \/ ServeObjects \/ CreateSensorsFails
  PROVE  TypeOK'
<1> USE DEF TypeOK
<1>1. ASSUME NEW c \in Configs, ConfigChanges(c) \/ ConfigRemoved(c) PROVE TypeOK'
  <2>1. em' \in Seq(Messages)
    <3>1. ASSUME NEW m \in Messages PROVE Append(em, m) \in Seq(Messages)
      OBVIOUS
    <3> QED BY <1>1, <3>1, MessageFields DEF ConfigChanges, ConfigRemoved
  <2>2. CASE ConfigChanges(c)
    <3>1. signals' \in 0..MaxSignals
      BY <2>2, ManagerValues DEF ConfigChanges, Signal
    <3> QED BY <2>1, <2>2, <3>1 DEF ConfigChanges, chain, timer
  <2>3. CASE ConfigRemoved(c)
    <3>1. removals' \in 0..MaxLosses
      BY <2>3, ManagerValues DEF ConfigRemoved
    <3> QED BY <2>1, <2>3, <3>1 DEF ConfigRemoved, chain, timer
  <2> QED BY <1>1, <2>2, <2>3
<1>2. ASSUME NEW e \in Eids, NEW k \in DeviceTypes \cup {Other}, EndpointAppears(e, k)
      PROVE  TypeOK'
  BY <1>2, ManagerValues DEF EndpointAppears, Signal, chain, timer
<1>3. ASSUME NEW e \in Eids, EndpointVanishes(e) PROVE TypeOK'
  BY <1>3, ManagerValues DEF EndpointVanishes, Signal, chain, timer
<1>4. ASSUME ServeObjects PROVE TypeOK'
  BY <1>4, MessageFields DEF ServeObjects, world, chain, timer
<1>5. ASSUME CreateSensorsFails PROVE TypeOK'
  BY <1>5, ManagerValues DEF CreateSensorsFails, Lose, world, chain, timer
<1> QED BY <1>1, <1>2, <1>3, <1>4, <1>5

LEMMA ScanType ==
  ASSUME TypeOK,
         \/ ProcessSensorConfigs \/ ProcessEndpoint
         \/ \E ok \in BOOLEAN : QueryEndpoints(ok)
         \/ \E e \in Eids : ProcessQueryDeviceIdResponse(e)
  PROVE  TypeOK'
<1> USE DEF TypeOK
<1>1. ASSUME ProcessSensorConfigs PROVE TypeOK'
  <2>1. Head(em).paths \in SUBSET Configs /\ Tail(em) \in Seq(Messages)
    BY <1>1, HeadMessage, MessageFields DEF ProcessSensorConfigs
  <2>2. SetToSeq(Head(em).paths) \in Seq(Configs)
    BY <2>1, ConfigsAsSeq
  <2> QED BY <1>1, <2>1, <2>2 DEF ProcessSensorConfigs, world, timer
<1>2. ASSUME NEW ok \in BOOLEAN, QueryEndpoints(ok) PROVE TypeOK'
  <2>1. Head(subtree) \in Configs /\ Tail(subtree) \in Seq(Configs)
    BY <1>2 DEF QueryEndpoints
  <2>2. SetToSeq({Head(subtree)} \X endpoints) \in Seq(Configs \X Eids)
    BY <2>1, PairsAsSeq
  <2>3. getall' \in Seq(Configs \X Eids)
    BY <1>2, <2>2 DEF QueryEndpoints
  <2>4. failures' \in 0..MaxLosses
    BY <1>2, ManagerValues DEF QueryEndpoints, Lose
  <2> QED BY <1>2, <2>1, <2>3, <2>4 DEF QueryEndpoints, world, timer
<1>3. ASSUME ProcessEndpoint PROVE TypeOK'
  <2>1. Head(getall) \in Configs \X Eids /\ Tail(getall) \in Seq(Configs \X Eids)
    BY <1>3 DEF ProcessEndpoint
  <2>2. queries' \in [Eids -> Seq(Configs)]
    BY <1>3, <2>1 DEF ProcessEndpoint
  <2> QED BY <1>3, <2>1, <2>2 DEF ProcessEndpoint, world, timer
<1>4. ASSUME NEW e \in Eids, ProcessQueryDeviceIdResponse(e) PROVE TypeOK'
  <2>1. Head(queries[e]) \in Configs /\ Tail(queries[e]) \in Seq(Configs)
    BY <1>4 DEF ProcessQueryDeviceIdResponse
  <2>2. queries' \in [Eids -> Seq(Configs)]
    BY <1>4, <2>1 DEF ProcessQueryDeviceIdResponse
  <2>3. devices' \in [DeviceTypes \X Eids -> Configs \cup {NoConfig}]
    <3>1. \A d \in DeviceTypes \X Eids :
             MakeDevice(Head(queries[e]), d) \in [DeviceTypes \X Eids -> Configs \cup {NoConfig}]
      BY <2>1 DEF MakeDevice
    <3>2. identity[e] \in DeviceTypes => <<identity[e], e>> \in DeviceTypes \X Eids
      OBVIOUS
    <3>3. \/ devices' = devices
          \/ /\ identity[e] \in DeviceTypes
             /\ devices' = MakeDevice(Head(queries[e]), <<identity[e], e>>)
      BY <1>4 DEF ProcessQueryDeviceIdResponse
    <3> QED BY <3>1, <3>2, <3>3
  <2>4. failures' \in 0..MaxLosses
    BY <1>4, ManagerValues DEF ProcessQueryDeviceIdResponse, Lose
  <2> QED BY <1>4, <2>2, <2>3, <2>4 DEF ProcessQueryDeviceIdResponse, world, timer
<1> QED BY <1>1, <1>2, <1>3, <1>4

LEMMA SignalType ==
  ASSUME TypeOK,
         OnConfigInterfaceRemoved \/ EventHandler \/ TimerExpires \/ CreateSensors \/ UNCHANGED vars
  PROVE  TypeOK'
<1> USE DEF TypeOK
<1>1. ASSUME OnConfigInterfaceRemoved PROVE TypeOK'
  <2>1. Head(em).path \in Configs /\ Tail(em) \in Seq(Messages)
    BY <1>1, HeadMessage, MessageFields DEF OnConfigInterfaceRemoved
  <2>2. devices' \in [DeviceTypes \X Eids -> Configs \cup {NoConfig}]
    BY <1>1 DEF OnConfigInterfaceRemoved, EraseDevices
  <2>3. overtaken' \in SUBSET Configs
    BY <1>1, <2>1 DEF OnConfigInterfaceRemoved
  <2> QED BY <1>1, <2>1, <2>2, <2>3 DEF OnConfigInterfaceRemoved, world, chain, timer
<1>2. ASSUME EventHandler PROVE TypeOK'
  <2>1. Tail(em) \in Seq(Messages)
    BY <1>2, HeadMessage DEF EventHandler
  <2> QED BY <1>2, <2>1 DEF EventHandler, ArmConfigTimer, world, chain
<1>3. ASSUME TimerExpires PROVE TypeOK'
  <2>1. armed' \in BOOLEAN /\ expired' \in BOOLEAN
    BY <1>3 DEF TimerExpires
  <2> QED BY <1>3, <2>1 DEF TimerExpires, world, chain
<1>4. ASSUME CreateSensors PROVE TypeOK'
  <2>1. expired' = FALSE /\ armed' = armed
    BY <1>4, Zenon DEF CreateSensors
  <2>2. asked' \in Nat
    BY <1>4 DEF CreateSensors
  <2>3. UNCHANGED <<configs, endpoints, identity, em, subtree, getall, queries, devices,
                    overtaken, signals, removals, failures>>
    BY <1>4 DEF CreateSensors, world, chain
  <2> QED BY <2>1, <2>2, <2>3
<1>5. ASSUME UNCHANGED vars PROVE TypeOK'
  BY <1>5 DEF vars
<1> QED BY <1>1, <1>2, <1>3, <1>4, <1>5

LEMMA ManagerTypeStep == TypeOK /\ [Next]_vars => TypeOK'
BY WorldType, ScanType, SignalType DEF Next, Daemon

-----------------------------------------------------------------------------
(* Devices outliving their configuration.  A path that a scan under way    *)
(* works for, or that has a device, is published, or its removal is still  *)
(* to be handled, or was handled while a scan for it was under way.  What  *)
(* entity-manager answered a scan may be older than a removal it signalled *)
(* since, but then that signal is behind the answer.                       *)

Removal(c) == [kind |-> "removed", path |-> c]

Accounted(c) == c \in configs \/ c \in overtaken \/ Says(em, Removal(c))

RemovedAfter(c, i) == \E j \in DOMAIN em : i < j /\ em[j] = Removal(c)

(* UnderWay, with what is in a sequence said by an index. *)
Scanned(c) ==
    \/ Says(subtree, c)
    \/ \E e \in Eids : Says(getall, <<c, e>>)
    \/ \E e \in Eids : Says(queries[e], c)

SurviveInv ==
    /\ TypeOK
    /\ \A i \in DOMAIN em : em[i].kind = "objects" =>
           \A c \in em[i].paths : c \in configs \/ RemovedAfter(c, i)
    /\ \A c \in Configs : Scanned(c) => Accounted(c)
    /\ \A d \in DOMAIN devices : devices[d] = NoConfig \/ Accounted(devices[d])

LEMMA SurviveImplies == SurviveInv => OnlyOvertakenSurvive
BY RangeSays DEF SurviveInv, OnlyOvertakenSurvive, Accounted, Removal

LEMMA UnderWayScanned == TypeOK => \A c \in Configs : UnderWay(c) <=> Scanned(c)
<1> SUFFICES ASSUME TypeOK, NEW c \in Configs PROVE UnderWay(c) <=> Scanned(c)
  OBVIOUS
<1>1. (\E g \in Range(getall) : g[1] = c) <=> \E e \in Eids : Says(getall, <<c, e>>)
  <2>1. ASSUME NEW i \in DOMAIN getall, getall[i][1] = c PROVE \E e \in Eids : getall[i] = <<c, e>>
    <3>1. getall[i] \in Configs \X Eids
      BY DEF TypeOK
    <3>2. getall[i] = <<getall[i][1], getall[i][2]>> /\ getall[i][2] \in Eids
      BY <3>1
    <3> QED BY <2>1, <3>2
  <2> QED BY <2>1 DEF Range, Says
<1> QED BY <1>1, RangeSays DEF UnderWay, Scanned

(***************************************************************************)
(* A step between entity-manager's messages: a scan goes on, for paths it  *)
(* was under way for, and a device is made for one of these.               *)
(***************************************************************************)
LEMMA ScanSurvives ==
  ASSUME SurviveInv, TypeOK', UNCHANGED <<configs, em, overtaken>>,
         \A c \in Configs : Scanned(c)' => Scanned(c),
         \A d \in DOMAIN devices : devices'[d] = devices[d] \/ Scanned(devices'[d])
  PROVE  SurviveInv'
<1>1. \A c : Accounted(c)' <=> Accounted(c)
  BY DEF Accounted, Says, Removal
<1>2. \A c, i : RemovedAfter(c, i)' <=> RemovedAfter(c, i)
  BY DEF RemovedAfter, Removal
<1>3. \A c \in Configs : Scanned(c)' => Accounted(c)'
  BY <1>1 DEF SurviveInv
<1>4. ASSUME NEW d \in DOMAIN devices'
      PROVE  (devices[d] = NoConfig \/ Accounted(devices[d]))'
  <2>1. d \in DOMAIN devices /\ devices'[d] \in Configs \cup {NoConfig}
    BY DEF SurviveInv, TypeOK
  <2>2. devices'[d] = NoConfig \/ Accounted(devices'[d])
    BY <2>1 DEF SurviveInv
  <2> QED BY <2>2 DEF Accounted, Says, Removal
<1>5. \A d \in DOMAIN devices' : (devices[d] = NoConfig \/ Accounted(devices[d]))'
  BY <1>4
<1> QED BY <1>2, <1>3, <1>5 DEF SurviveInv

LEMMA MessageSurvives ==
  ASSUME SurviveInv, TypeOK', NEW m \in Messages, em' = Append(em, m),
         UNCHANGED <<subtree, getall, queries, devices, overtaken>>,
         configs \subseteq configs' \/ \E c \in Configs : m = Removal(c) /\ configs' = configs \ {c},
         m.kind = "objects" => m.paths \subseteq configs'
  PROVE  SurviveInv'
<1>1. em \in Seq(Messages)
  BY DEF SurviveInv, TypeOK
<1>2. \A x : Says(em, x)' <=> Says(em, x) \/ x = m
  BY <1>1, SaysAppend
<1>3. \A c : Accounted(c) => Accounted(c)'
  BY <1>2 DEF Accounted, Removal
<1>4. /\ Len(em) \in Nat /\ DOMAIN em = 1..Len(em) /\ DOMAIN em' = 1..(Len(em) + 1)
      /\ em'[Len(em) + 1] = m /\ \A i \in DOMAIN em : em'[i] = em[i]
  BY <1>1
<1>5. ASSUME NEW i \in DOMAIN em', em'[i].kind = "objects", NEW c \in em'[i].paths
      PROVE  c \in configs' \/ RemovedAfter(c, i)'
  <2>1. CASE i = Len(em) + 1
    BY <1>4, <1>5, <2>1
  <2>2. CASE i \in DOMAIN em
    <3>1. RemovedAfter(c, i) => RemovedAfter(c, i)'
      BY <1>4 DEF RemovedAfter, Removal
    <3>2. m = Removal(c) => RemovedAfter(c, i)'
      BY <1>4, <2>2 DEF RemovedAfter, Removal
    <3> QED BY <1>4, <1>5, <2>2, <3>1, <3>2 DEF SurviveInv
  <2> QED BY <1>4, <2>1, <2>2
<1>6. \A c \in Configs : Scanned(c)' <=> Scanned(c)
  BY DEF Scanned, Says
<1>7. ASSUME NEW d \in DOMAIN devices'
      PROVE  (devices[d] = NoConfig \/ Accounted(devices[d]))'
  <2>1. devices' = devices /\ (devices[d] = NoConfig \/ Accounted(devices[d]))
    BY <1>7 DEF SurviveInv
  <2>2. PICK c : c = devices[d]
    OBVIOUS
  <2> QED BY <1>3, <2>1, <2>2 DEF Accounted
<1>8. \A d \in DOMAIN devices' : (devices[d] = NoConfig \/ Accounted(devices[d]))'
  BY <1>7
<1> QED BY <1>3, <1>5, <1>6, <1>8 DEF SurviveInv

LEMMA TailMessages ==
  ASSUME SurviveInv, em # <<>>, em' = Tail(em)
  PROVE  /\ \A x : Says(em, x) <=> x = Head(em) \/ Says(em, x)'
         /\ \A i \in DOMAIN em' : i + 1 \in DOMAIN em /\ em'[i] = em[i + 1]
         /\ \A i \in DOMAIN em' : \A c : RemovedAfter(c, i + 1) => RemovedAfter(c, i)'
<1>1. em \in Seq(Messages)
  BY DEF SurviveInv, TypeOK
<1>2. \A x : Says(em, x) <=> Head(em) = x \/ Says(Tail(em), x)
  BY <1>1, SaysTail
<1>3. \A i \in DOMAIN em' : i \in Nat /\ i + 1 \in DOMAIN em /\ em'[i] = em[i + 1]
  BY <1>1
<1>4. \A j \in DOMAIN em : j # 1 => j \in Nat /\ j - 1 \in DOMAIN em' /\ em'[j - 1] = em[j]
  <2> SUFFICES ASSUME NEW j \in DOMAIN em, j # 1
               PROVE  j \in Nat /\ j - 1 \in DOMAIN em' /\ em'[j - 1] = em[j]
    OBVIOUS
  <2>1. j \in Nat /\ j - 1 \in DOMAIN em' /\ (j - 1) + 1 = j
    BY <1>1
  <2> QED BY <1>3, <2>1
<1>5. ASSUME NEW i \in DOMAIN em', NEW c, RemovedAfter(c, i + 1) PROVE RemovedAfter(c, i)'
  <2>1. PICK j \in DOMAIN em : i + 1 < j /\ em[j] = Removal(c)
    BY <1>5 DEF RemovedAfter
  <2>2. j - 1 \in DOMAIN em' /\ em'[j - 1] = em[j] /\ i < j - 1
    BY <1>3, <1>4, <2>1
  <2> QED BY <2>1, <2>2 DEF RemovedAfter, Removal
<1> QED BY <1>2, <1>3, <1>5

(***************************************************************************)
(* Handling a message of entity-manager: a path its removal does not       *)
(* concern stays accounted for.                                            *)
(***************************************************************************)
LEMMA HandledSurvives ==
  ASSUME SurviveInv, TypeOK', em # <<>>, em' = Tail(em), configs' = configs,
         \A c \in Configs : c \in overtaken /\ c \notin overtaken' => Head(em) = Removal(c),
         \A c \in Configs :
            Scanned(c)' =>
              \/ Scanned(c) /\ Head(em) # Removal(c)
              \/ c \in overtaken'
              \/ Head(em).kind = "objects" /\ c \in Head(em).paths,
         \A d \in DOMAIN devices :
            \/ devices'[d] = NoConfig
            \/ devices'[d] = devices[d] /\ Head(em) # Removal(devices[d])
  PROVE  SurviveInv'
<1>1. 1 \in DOMAIN em /\ em[1] = Head(em)
  BY DEF SurviveInv, TypeOK
<1>2. \A c \in Configs : Accounted(c) /\ Head(em) # Removal(c) => Accounted(c)'
  BY TailMessages DEF Accounted, Removal
<1>3. ASSUME Head(em).kind = "objects", NEW c \in Configs, c \in Head(em).paths
      PROVE  Accounted(c)'
  <2>1. c \in configs \/ RemovedAfter(c, 1)
    BY <1>1, <1>3 DEF SurviveInv
  <2>2. RemovedAfter(c, 1) => Says(em, Removal(c))
    BY DEF RemovedAfter, Says
  <2>3. Head(em) # Removal(c)
    BY <1>3 DEF Removal
  <2> QED BY <1>2, <2>1, <2>2, <2>3 DEF Accounted
<1>4. \A c \in Configs : Scanned(c)' => Accounted(c)'
  BY <1>2, <1>3 DEF SurviveInv, Accounted
<1>5. ASSUME NEW i \in DOMAIN em', em'[i].kind = "objects", NEW c \in em'[i].paths
      PROVE  c \in configs' \/ RemovedAfter(c, i)'
  BY <1>5, TailMessages DEF SurviveInv
<1>6. ASSUME NEW d \in DOMAIN devices'
      PROVE  (devices[d] = NoConfig \/ Accounted(devices[d]))'
  <2>1. d \in DOMAIN devices /\ devices[d] \in Configs \cup {NoConfig}
    BY DEF SurviveInv, TypeOK
  <2>2. PICK c : c = devices[d]
    OBVIOUS
  <2>3. \/ devices'[d] = NoConfig
        \/ devices'[d] = c /\ c \in Configs /\ Head(em) # Removal(c) /\ Accounted(c)
    BY <2>1, <2>2 DEF SurviveInv
  <2> QED BY <1>2, <2>3 DEF Accounted
<1>7. \A d \in DOMAIN devices' : (devices[d] = NoConfig \/ Accounted(devices[d]))'
  BY <1>6
<1> QED BY <1>4, <1>5, <1>7 DEF SurviveInv

LEMMA SurviveInit == DevicesInit => SurviveInv
<1> SUFFICES ASSUME DevicesInit PROVE SurviveInv
  OBVIOUS
<1>1. TypeOK /\ Start
  BY ManagerInit DEF DevicesInit, ManagerIdle, Init
<1> QED BY <1>1 DEF Start, SurviveInv, Scanned, Says

LEMMA SurviveStep ==
  ASSUME SurviveInv, [Next]_vars
  PROVE  SurviveInv'
<1>1. TypeOK /\ TypeOK'
  BY ManagerTypeStep DEF SurviveInv
<1>2. ASSUME UNCHANGED <<configs, em, subtree, getall, queries, devices, overtaken>>
      PROVE  SurviveInv'
  <2>1. \A c \in Configs : Scanned(c)' => Scanned(c)
    BY <1>2 DEF Scanned, Says
  <2> QED BY <1>1, <1>2, <2>1, ScanSurvives
<1>3. ASSUME NEW c \in Configs, ConfigChanges(c) PROVE SurviveInv'
  <2> DEFINE m == [kind |-> "changed"]
  <2>1. /\ m \in Messages /\ em' = Append(em, m) /\ configs \subseteq configs'
        /\ m.kind # "objects"
        /\ UNCHANGED <<subtree, getall, queries, devices, overtaken>>
    BY <1>3, MessageFields DEF ConfigChanges, chain
  <2> QED BY <1>1, <2>1, MessageSurvives
<1>4. ASSUME NEW c \in Configs, ConfigRemoved(c) PROVE SurviveInv'
  <2> DEFINE m == Removal(c)
  <2>1. /\ m \in Messages /\ em' = Append(em, m) /\ configs' = configs \ {c}
        /\ m.kind # "objects"
        /\ UNCHANGED <<subtree, getall, queries, devices, overtaken>>
    BY <1>4, MessageFields DEF ConfigRemoved, chain, Removal
  <2> QED BY <1>1, <2>1, MessageSurvives
<1>5. ASSUME ServeObjects PROVE SurviveInv'
  <2> DEFINE m == [kind |-> "objects", paths |-> configs]
  <2>1. /\ m \in Messages /\ em' = Append(em, m) /\ configs' = configs
        /\ m.paths \subseteq configs'
        /\ UNCHANGED <<subtree, getall, queries, devices, overtaken>>
    BY <1>1, <1>5, MessageFields DEF ServeObjects, world, chain, TypeOK
  <2> QED BY <1>1, <2>1, MessageSurvives
<1>6. ASSUME ProcessSensorConfigs PROVE SurviveInv'
  <2>1. /\ em # <<>> /\ Head(em).kind = "objects" /\ em' = Tail(em)
        /\ subtree' = subtree \o SetToSeq(Head(em).paths)
        /\ UNCHANGED <<configs, getall, queries, devices, overtaken>>
    BY <1>6 DEF ProcessSensorConfigs, world
  <2>2. Head(em).paths \in SUBSET Configs
    BY <1>1, <2>1, HeadMessage, MessageFields
  <2>3. SetToSeq(Head(em).paths) \in Seq(Head(em).paths) /\ SetToSeq(Head(em).paths) \in Seq(Configs)
    BY <2>2, ConfigsAsSeq
  <2>4. subtree \in Seq(Configs)
    BY <1>1 DEF TypeOK
  <2>5. ASSUME NEW c \in Configs, Scanned(c)' PROVE Scanned(c) \/ c \in Head(em).paths
    <3>1. Says(subtree, c)' <=> Says(subtree, c) \/ Says(SetToSeq(Head(em).paths), c)
      BY <2>1, <2>3, <2>4, SaysAppended
    <3>2. Says(SetToSeq(Head(em).paths), c) => c \in Head(em).paths
      BY <2>3 DEF Says
    <3> QED BY <2>1, <2>5, <3>1, <3>2 DEF Scanned, Says
  <2>6. \A c : Head(em) # Removal(c)
    BY <2>1 DEF Removal
  <2> QED BY <1>1, <2>1, <2>5, <2>6, HandledSurvives
<1>7. ASSUME EventHandler PROVE SurviveInv'
  <2>1. /\ em # <<>> /\ Head(em).kind = "changed" /\ em' = Tail(em)
        /\ UNCHANGED <<configs, subtree, getall, queries, devices, overtaken>>
    BY <1>7 DEF EventHandler, world, chain
  <2>2. \A c : Head(em) # Removal(c)
    BY <2>1 DEF Removal
  <2>3. \A c \in Configs : Scanned(c)' => Scanned(c)
    BY <2>1 DEF Scanned, Says
  <2> QED BY <1>1, <2>1, <2>2, <2>3, HandledSurvives
<1>8. ASSUME OnConfigInterfaceRemoved PROVE SurviveInv'
  <2>1. PICK c \in Configs : Head(em) = Removal(c) /\ c = Head(em).path
    BY <1>1, <1>8, HeadMessage, MessageFields DEF OnConfigInterfaceRemoved, Removal
  <2>2. /\ em # <<>> /\ em' = Tail(em)
        /\ devices' = EraseDevices(c)
        /\ overtaken' = IF UnderWay(c) THEN overtaken \cup {c} ELSE overtaken \ {c}
        /\ UNCHANGED <<configs, subtree, getall, queries>>
    BY <1>8, <2>1 DEF OnConfigInterfaceRemoved, world, chain
  <2>3. \A b : Head(em) = Removal(b) <=> b = c
    BY <2>1 DEF Removal
  <2>4. \A b \in Configs : Scanned(b)' => Scanned(b)
    BY <2>2 DEF Scanned, Says
  <2>5. \A b \in Configs : Scanned(b)' =>
           \/ Scanned(b) /\ Head(em) # Removal(b)
           \/ b \in overtaken'
    BY <1>1, <2>2, <2>3, <2>4, UnderWayScanned
  <2>6. \A d \in DOMAIN devices :
           \/ devices'[d] = NoConfig
           \/ devices'[d] = devices[d] /\ Head(em) # Removal(devices[d])
    BY <2>2, <2>3 DEF EraseDevices
  <2>7. \A b \in Configs : b \in overtaken /\ b \notin overtaken' => Head(em) = Removal(b)
    BY <2>1, <2>2
  <2> QED BY <1>1, <2>2, <2>5, <2>6, <2>7, HandledSurvives
<1>9. ASSUME NEW ok \in BOOLEAN, QueryEndpoints(ok) PROVE SurviveInv'
  <2>1. /\ subtree # <<>> /\ subtree' = Tail(subtree)
        /\ \/ getall' = getall
           \/ getall' = getall \o SetToSeq({Head(subtree)} \X endpoints)
        /\ UNCHANGED <<configs, em, queries, devices, overtaken>>
    BY <1>9 DEF QueryEndpoints, world
  <2>2. subtree \in Seq(Configs) /\ getall \in Seq(Configs \X Eids) /\ endpoints \in SUBSET Eids
    BY <1>1 DEF TypeOK
  <2>3. PICK b \in Configs : b = Head(subtree)
    BY <2>1, <2>2
  <2>4. SetToSeq({b} \X endpoints) \in Seq({b} \X endpoints)
          /\ SetToSeq({b} \X endpoints) \in Seq(Configs \X Eids)
    BY <2>2, PairsAsSeq
  <2>5. ASSUME NEW c \in Configs, Scanned(c)' PROVE Scanned(c)
    <3>1. Says(subtree, c) <=> b = c \/ Says(subtree, c)'
      BY <2>1, <2>2, <2>3, SaysTail
    <3>2. ASSUME NEW e \in Eids, Says(getall, <<c, e>>)' PROVE Says(getall, <<c, e>>) \/ b = c
      <4>1. Says(getall \o SetToSeq({b} \X endpoints), <<c, e>>)
               <=> Says(getall, <<c, e>>) \/ Says(SetToSeq({b} \X endpoints), <<c, e>>)
        BY <2>2, <2>4, SaysAppended
      <4>2. Says(SetToSeq({b} \X endpoints), <<c, e>>) => b = c
        BY <2>4 DEF Says
      <4> QED BY <2>1, <2>3, <3>2, <4>1, <4>2
    <3> QED BY <2>1, <2>5, <3>1, <3>2 DEF Scanned
  <2> QED BY <1>1, <2>1, <2>5, ScanSurvives
<1>10. ASSUME ProcessEndpoint PROVE SurviveInv'
  <2>1. getall \in Seq(Configs \X Eids) /\ queries \in [Eids -> Seq(Configs)]
    BY <1>1 DEF TypeOK
  <2>2. PICK b \in Configs, f \in Eids : Head(getall) = <<b, f>> /\ Head(getall)[1] = b /\ Head(getall)[2] = f
    BY <1>10, <2>1 DEF ProcessEndpoint
  <2>3. /\ getall # <<>> /\ getall' = Tail(getall)
        /\ queries' = queries \/ queries' = [queries EXCEPT ![f] = Append(@, b)]
        /\ UNCHANGED <<configs, em, subtree, devices, overtaken>>
    BY <1>10, <2>2 DEF ProcessEndpoint, world
  <2>4. ASSUME NEW c \in Configs, Scanned(c)' PROVE Scanned(c)
    <3>1. \A e \in Eids : Says(getall, <<c, e>>) <=> <<b, f>> = <<c, e>> \/ Says(getall, <<c, e>>)'
      BY <2>1, <2>2, <2>3, SaysTail
    <3>2. ASSUME NEW e \in Eids, Says(queries[e], c)' PROVE Says(queries[e], c) \/ (e = f /\ b = c)
      <4>1. Says(Append(queries[f], b), c) <=> Says(queries[f], c) \/ c = b
        BY <2>1, SaysAppend
      <4>2. queries'[e] = queries[e] \/ (e = f /\ queries'[e] = Append(queries[f], b))
        BY <2>1, <2>3
      <4> QED BY <3>2, <4>1, <4>2 DEF Says
    <3>3. Says(subtree, c)' <=> Says(subtree, c)
      BY <2>3 DEF Says
    <3> QED BY <2>4, <3>1, <3>2, <3>3 DEF Scanned
  <2> QED BY <1>1, <2>3, <2>4, ScanSurvives
<1>11. ASSUME NEW f \in Eids, ProcessQueryDeviceIdResponse(f) PROVE SurviveInv'
  <2>1. /\ queries \in [Eids -> Seq(Configs)]
        /\ devices \in [DeviceTypes \X Eids -> Configs \cup {NoConfig}]
    BY <1>1 DEF TypeOK
  <2>2. /\ queries[f] # <<>> /\ queries' = [queries EXCEPT ![f] = Tail(queries[f])]
        /\ UNCHANGED <<configs, em, subtree, getall, overtaken>>
    BY <1>11 DEF ProcessQueryDeviceIdResponse, world
  <2>3. \/ devices' = devices
        \/ /\ identity[f] \in DeviceTypes
           /\ devices' = MakeDevice(Head(queries[f]), <<identity[f], f>>)
    BY <1>11 DEF ProcessQueryDeviceIdResponse
  <2>4. PICK b \in Configs : b = Head(queries[f])
    BY <2>1, <2>2
  <2>5. \A c : Says(queries[f], c) <=> b = c \/ Says(Tail(queries[f]), c)
    BY <2>1, <2>2, <2>4, SaysTail
  <2>6. ASSUME NEW c \in Configs, Scanned(c)' PROVE Scanned(c)
    <3>1. \A e \in Eids : Says(queries[e], c)' => Says(queries[e], c)
      <4>1. \A e \in Eids : queries'[e] = queries[e] \/ (e = f /\ queries'[e] = Tail(queries[f]))
        BY <2>1, <2>2
      <4> QED BY <2>5, <4>1 DEF Says
    <3>2. /\ Says(subtree, c)' <=> Says(subtree, c)
          /\ \A e \in Eids : Says(getall, <<c, e>>)' <=> Says(getall, <<c, e>>)
      BY <2>2 DEF Says
    <3> QED BY <2>6, <3>1, <3>2 DEF Scanned
  <2>7. ASSUME NEW d \in DOMAIN devices PROVE devices'[d] = devices[d] \/ Scanned(devices'[d])
    <3>1. devices'[d] = devices[d] \/ devices'[d] = b
      BY <2>1, <2>3, <2>4, <2>7 DEF MakeDevice
    <3>2. Scanned(b)
      BY <2>5 DEF Scanned
    <3> QED BY <3>1, <3>2
  <2> QED BY <1>1, <2>2, <2>6, <2>7, ScanSurvives
<1>12. ASSUME \/ \E e \in Eids, k \in DeviceTypes \cup {Other} : EndpointAppears(e, k)
              \/ \E e \in Eids : EndpointVanishes(e)
              \/ CreateSensorsFails \/ TimerExpires \/ CreateSensors \/ UNCHANGED vars
       PROVE  UNCHANGED <<configs, em, subtree, getall, queries, devices, overtaken>>
  BY <1>12 DEF EndpointAppears, EndpointVanishes, CreateSensorsFails, TimerExpires, CreateSensors,
               vars, world, chain
<1> QED BY <1>2, <1>3, <1>4, <1>5, <1>6, <1>7, <1>8, <1>9, <1>10, <1>11, <1>12 DEF Next, Daemon

(***************************************************************************)
(* For all configurations, endpoints and losses: a device is left without  *)
(* its configuration only until the removal is handled, or because that    *)
(* removal met a scan for the configuration under way.  No answer that is  *)
(* older than a removal brings a device back otherwise.                    *)
(***************************************************************************)
THEOREM NoDeviceReturns == DevicesSpec => []OnlyOvertakenSurvive
<1>1. DevicesInit => SurviveInv
  BY SurviveInit
<1>2. SurviveInv /\ [DevicesNext]_allVars => SurviveInv'
  <2>1. [DevicesNext]_allVars => [Next]_vars
    BY DEF DevicesNext, allVars
  <2> QED BY <2>1, SurviveStep
<1>3. SurviveInv => OnlyOvertakenSurvive
  BY SurviveImplies
<1> QED BY <1>1, <1>2, <1>3, PTL DEF DevicesSpec

-----------------------------------------------------------------------------
(* The set-up of one device                                                *)

LEMMA DeviceValues ==
  /\ Props \subseteq Nat /\ EventTypes \subseteq Nat /\ NicPorts \in Nat
  /\ MaxAttempts \in Nat /\ MaxAttempts > 0 /\ MaxPolls \in Nat /\ MaxFailures \in Nat
BY DevicesAssumption DEF Device!DeviceAssumption

LEMMA SegmentsNest ==
  ASSUME NEW a \in Nat, NEW b \in Nat, b < a
  PROVE  0..b \subseteq 0..a /\ 0..b # 0..a
<1>1. a \in 0..a /\ a \notin 0..b
  OBVIOUS
<1> QED BY <1>1

(* A set of numbers has a least one, as the initial segments below them    *)
(* have a least one under inclusion.                                       *)
LEMMA LeastNumber ==
  ASSUME NEW P \in SUBSET Nat, P # {}
  PROVE  \E x \in P : \A y \in P : x <= y
<1> DEFINE T == {0..x : x \in P}
<1>1. T \subseteq FiniteSubsetsOf(Nat) /\ T # {}
  <2>1. \A x \in P : IsFiniteSet(0..x)
    <3> SUFFICES ASSUME NEW x \in P PROVE IsFiniteSet(0..x)
      OBVIOUS
    <3>1. 0 \in Int /\ x \in Int
      OBVIOUS
    <3> QED BY <3>1, FS_Interval
  <2>2. \A x \in P : 0..x \in FiniteSubsetsOf(Nat)
    BY <2>1 DEF FiniteSubsetsOf
  <2> QED BY <2>2
<1>2. IsWellFoundedOn(StrictSubsetOrdering(Nat), FiniteSubsetsOf(Nat))
  BY FS_StrictSubsetOrderingWellFounded
<1>3. PICK s \in T : \A t \in T : <<t, s>> \notin StrictSubsetOrdering(Nat)
  <2> HIDE DEF T
  <2> QED BY <1>1, <1>2, WFMin
<1>4. PICK x \in P : s = 0..x
  OBVIOUS
<1>5. ASSUME NEW y \in P, y < x PROVE FALSE
  <2>1. 0..y \subseteq 0..x /\ 0..y # 0..x /\ 0..y \in T
    BY <1>5, SegmentsNest
  <2>2. <<0..y, 0..x>> \in StrictSubsetOrdering(Nat)
    BY <2>1 DEF StrictSubsetOrdering
  <2> QED BY <1>3, <1>4, <2>1, <2>2
<1> QED BY <1>5

LEMMA DeviceMin ==
  ASSUME NEW P \in SUBSET Nat, P # {}
  PROVE  Device!Min(P) \in P
<1>1. \E x \in P : \A y \in P : x <= y
  BY LeastNumber
<1> QED BY <1>1 DEF Device!Min

LEMMA DeviceSetToSeq == \A S : Device!SetToSeq(S) = SetToSeq(S)
BY DEF Device!SetToSeq, SetToSeq, Device!IsInjective, IsInjective, Device!Cardinality, Cardinality

LEMMA DeviceUpdates ==
  ASSUME NEW S \in SUBSET Device!Sensors
  PROVE  Device!Updates(S) \in Seq(S)
<1>1. IsFiniteSet(Device!Sensors)
  <2>1. IsFiniteSet({"eth"} \X (1..NicPorts))
    <3>1. 1 \in Int /\ NicPorts \in Int
      BY DeviceValues
    <3>2. IsFiniteSet({"eth"}) /\ IsFiniteSet(1..NicPorts)
      BY <3>1, FS_Singleton, FS_Interval
    <3> QED BY <3>2, FS_Product
  <2> DEFINE F == {<<"temp", 0>>, <<"tlimit", 0>>, <<"pcie", 0>>, <<"leak", 0>>}
  <2>2. IsFiniteSet(F)
    <3>1. IsFiniteSet({<<"temp", 0>>} \cup {<<"tlimit", 0>>})
      BY FS_Singleton, FS_Union
    <3>2. IsFiniteSet({<<"pcie", 0>>} \cup {<<"leak", 0>>})
      BY FS_Singleton, FS_Union
    <3>3. F = ({<<"temp", 0>>} \cup {<<"tlimit", 0>>}) \cup ({<<"pcie", 0>>} \cup {<<"leak", 0>>})
      OBVIOUS
    <3> HIDE DEF F
    <3> QED BY <3>1, <3>2, <3>3, FS_Union
  <2> HIDE DEF F
  <2>3. Device!Sensors = F \cup ({"eth"} \X (1..NicPorts))
    BY DEF Device!Sensors, F
  <2> QED BY <2>1, <2>2, <2>3, FS_Union
<1>2. IsFiniteSet(S)
  BY <1>1, FS_Subset
<1> QED BY <1>2, SetAsSeq, DeviceSetToSeq DEF Device!Updates

(***************************************************************************)
(* The requests of a chain in the queue: none, or exactly one.  A response *)
(* takes the head of the queue and submits some.                           *)
(***************************************************************************)
NoneIn(s, names) == \A i \in DOMAIN s : s[i][1] \notin names

OneIn(s, names) ==
    \E i \in DOMAIN s :
        s[i][1] \in names /\ \A j \in DOMAIN s : s[j][1] \in names => j = i

LEMMA Joined ==
  ASSUME NEW T, NEW s \in Seq(T), NEW t \in Seq(T)
  PROVE  /\ s \o t \in Seq(T)
         /\ \A i \in DOMAIN s : i \in DOMAIN (s \o t) /\ (s \o t)[i] = s[i]
         /\ \A i \in DOMAIN t : Len(s) + i \in DOMAIN (s \o t) /\ (s \o t)[Len(s) + i] = t[i]
         /\ \A i \in DOMAIN (s \o t) :
              \/ i \in DOMAIN s /\ (s \o t)[i] = s[i]
              \/ /\ i - Len(s) \in DOMAIN t /\ (s \o t)[i] = t[i - Len(s)]
                 /\ i = Len(s) + (i - Len(s))
<1>1. ASSUME NEW i \in DOMAIN t
      PROVE  Len(s) + i \in DOMAIN (s \o t) /\ (s \o t)[Len(s) + i] = t[i]
  OBVIOUS
<1>2. ASSUME NEW i \in DOMAIN s PROVE i \in DOMAIN (s \o t) /\ (s \o t)[i] = s[i]
  OBVIOUS
<1>3. ASSUME NEW i \in DOMAIN (s \o t)
      PROVE  \/ i \in DOMAIN s /\ (s \o t)[i] = s[i]
             \/ /\ i - Len(s) \in DOMAIN t /\ (s \o t)[i] = t[i - Len(s)]
                /\ i = Len(s) + (i - Len(s))
  OBVIOUS
<1> QED BY <1>1, <1>2, <1>3

LEMMA Appended ==
  ASSUME NEW T, NEW s \in Seq(T), NEW t \in Seq(T), NEW names
  PROVE  /\ NoneIn(s, names) /\ NoneIn(t, names) => NoneIn(s \o t, names)
         /\ OneIn(s, names) /\ NoneIn(t, names) => OneIn(s \o t, names)
         /\ NoneIn(s, names) /\ OneIn(t, names) => OneIn(s \o t, names)
<1>1. \A i \in DOMAIN t : Len(s) + i \in DOMAIN (s \o t) /\ (s \o t)[Len(s) + i] = t[i]
  BY Joined
<1>2. \A i \in DOMAIN s : i \in DOMAIN (s \o t) /\ (s \o t)[i] = s[i]
  BY Joined
<1>3. \A i \in DOMAIN (s \o t) :
        \/ i \in DOMAIN s /\ (s \o t)[i] = s[i]
        \/ i - Len(s) \in DOMAIN t /\ (s \o t)[i] = t[i - Len(s)] /\ i = Len(s) + (i - Len(s))
  BY Joined
<1>4. ASSUME NoneIn(s, names), NoneIn(t, names) PROVE NoneIn(s \o t, names)
  BY <1>3, <1>4 DEF NoneIn
<1>5. ASSUME OneIn(s, names), NoneIn(t, names) PROVE OneIn(s \o t, names)
  BY <1>2, <1>3, <1>5 DEF NoneIn, OneIn
<1>6. ASSUME NoneIn(s, names), OneIn(t, names) PROVE OneIn(s \o t, names)
  <2>1. PICK i \in DOMAIN t : t[i][1] \in names /\ \A j \in DOMAIN t : t[j][1] \in names => j = i
    BY <1>6 DEF OneIn
  <2>2. \A j \in DOMAIN (s \o t) : (s \o t)[j][1] \in names => j = Len(s) + i
    BY <1>3, <1>6, <2>1 DEF NoneIn
  <2> QED BY <1>1, <2>1, <2>2 DEF OneIn
<1> QED BY <1>4, <1>5, <1>6

LEMMA Taken ==
  ASSUME NEW T, NEW s \in Seq(T), s # <<>>, NEW names
  PROVE  /\ NoneIn(s, names) => NoneIn(Tail(s), names)
         /\ OneIn(s, names) /\ Head(s)[1] \notin names => OneIn(Tail(s), names)
         /\ OneIn(s, names) /\ Head(s)[1] \in names => NoneIn(Tail(s), names)
<1>1. ASSUME NEW i \in DOMAIN Tail(s)
      PROVE  i \in Nat \ {0} /\ i + 1 \in DOMAIN s /\ Tail(s)[i] = s[i + 1]
  OBVIOUS
<1>2. ASSUME NEW i \in DOMAIN s, i # 1 PROVE i - 1 \in DOMAIN Tail(s) /\ Tail(s)[i - 1] = s[i]
  <2>1. i - 1 \in 1..Len(Tail(s)) /\ (i - 1) + 1 = i
    BY <1>2
  <2> QED BY <1>1, <2>1
<1>3. 1 \in DOMAIN s /\ Head(s) = s[1]
  OBVIOUS
<1>4. NoneIn(s, names) => NoneIn(Tail(s), names)
  BY <1>1 DEF NoneIn
<1>5. ASSUME OneIn(s, names), Head(s)[1] \notin names PROVE OneIn(Tail(s), names)
  <2>1. PICK i \in DOMAIN s : s[i][1] \in names /\ \A j \in DOMAIN s : s[j][1] \in names => j = i
    BY <1>5 DEF OneIn
  <2>2. i # 1
    BY <1>3, <1>5, <2>1
  <2>3. \A j \in DOMAIN Tail(s) : Tail(s)[j][1] \in names => j = i - 1
    BY <1>1, <2>1
  <2> QED BY <1>2, <2>1, <2>2, <2>3 DEF OneIn
<1>6. ASSUME OneIn(s, names), Head(s)[1] \in names PROVE NoneIn(Tail(s), names)
  <2>1. \A j \in DOMAIN s : s[j][1] \in names => j = 1
    BY <1>3, <1>6 DEF OneIn
  <2> QED BY <1>1, <2>1 DEF NoneIn
<1> QED BY <1>4, <1>5, <1>6

LEMMA Single ==
  /\ \A names : NoneIn(<<>>, names)
  /\ \A r, names : IF r[1] \in names THEN OneIn(<<r>>, names) ELSE NoneIn(<<r>>, names)
<1>1. \A r : DOMAIN <<r>> = {1} /\ <<r>>[1] = r
  OBVIOUS
<1>2. ASSUME NEW r, NEW names
      PROVE  IF r[1] \in names THEN OneIn(<<r>>, names) ELSE NoneIn(<<r>>, names)
  <2> PICK t : t = <<r>>
    OBVIOUS
  <2>1. DOMAIN t = {1} /\ t[1] = r
    BY <1>1
  <2>2. IF r[1] \in names THEN OneIn(t, names) ELSE NoneIn(t, names)
    BY <2>1 DEF OneIn, NoneIn
  <2> QED BY <2>2
<1>3. \A names : NoneIn(<<>>, names)
  BY DEF NoneIn
<1> QED BY <1>2, <1>3

(***************************************************************************)
(* What carries each chain of a GPU: a request or, for the inventory, its  *)
(* retry timer.  The inventory asks for a property that is pending, and    *)
(* gives up in time; no other device has these chains.                     *)
(***************************************************************************)
Inventory == {"inventory"}
Thermal == {"thermal"}
Events == {"subscribe", "source"}

InventoryChain ==
    IF pending = {} THEN NoneIn(chan, Inventory) /\ retry = "off"
    ELSE IF retry = "off" THEN OneIn(chan, Inventory) ELSE NoneIn(chan, Inventory)
ThermalChain == IF tlimit = "none" THEN OneIn(chan, Thermal) ELSE NoneIn(chan, Thermal)
EventsChain ==
    IF events \in {"done", "failed"} THEN NoneIn(chan, Events) ELSE OneIn(chan, Events)

Chains ==
    /\ kind = "GPU" /\ alive => InventoryChain /\ ThermalChain /\ EventsChain
    /\ kind # "GPU" =>
           /\ retry = "off"
           /\ NoneIn(chan, Inventory) /\ NoneIn(chan, Thermal) /\ NoneIn(chan, Events)

AsksOf(s, P) == \A i \in DOMAIN s : s[i][1] = "inventory" => s[i][2] \in P

AsksPending ==
    /\ AsksOf(chan, pending)
    /\ \A p \in pending : tries[p] < MaxAttempts

DeviceInv == Device!TypeOK /\ Chains /\ AsksPending

LEMMA AsksFacts ==
  ASSUME NEW T, NEW s \in Seq(T), NEW t \in Seq(T), NEW P
  PROVE  /\ AsksOf(s, P) /\ AsksOf(t, P) => AsksOf(s \o t, P)
         /\ s # <<>> /\ AsksOf(s, P) => AsksOf(Tail(s), P)
         /\ s # <<>> /\ AsksOf(s, P) /\ Head(s)[1] = "inventory" => Head(s)[2] \in P
         /\ NoneIn(s, Inventory) => AsksOf(s, P)
<1>1. AsksOf(s, P) /\ AsksOf(t, P) => AsksOf(s \o t, P)
  <2>1. \A i \in DOMAIN (s \o t) :
          \/ i \in DOMAIN s /\ (s \o t)[i] = s[i]
          \/ i - Len(s) \in DOMAIN t /\ (s \o t)[i] = t[i - Len(s)]
    BY Joined
  <2> QED BY <2>1 DEF AsksOf
<1>2. s # <<>> => \A i \in DOMAIN Tail(s) : i + 1 \in DOMAIN s /\ Tail(s)[i] = s[i + 1]
  OBVIOUS
<1>3. s # <<>> => 1 \in DOMAIN s /\ Head(s) = s[1]
  OBVIOUS
<1> QED BY <1>1, <1>2, <1>3 DEF AsksOf, NoneIn, Inventory

(* A response takes the request at the head and submits some others.       *)
LEMMA Exchanged ==
  ASSUME NEW T, NEW s \in Seq(T), s # <<>>, NEW t \in Seq(T), NEW names
  PROVE  /\ Tail(s) \o t \in Seq(T)
         /\ NoneIn(s, names) => Head(s)[1] \notin names
         /\ NoneIn(s, names) /\ NoneIn(t, names) => NoneIn(Tail(s) \o t, names)
         /\ OneIn(s, names) /\ Head(s)[1] \notin names /\ NoneIn(t, names)
              => OneIn(Tail(s) \o t, names)
         /\ OneIn(s, names) /\ Head(s)[1] \in names /\ NoneIn(t, names)
              => NoneIn(Tail(s) \o t, names)
         /\ OneIn(s, names) /\ Head(s)[1] \in names /\ OneIn(t, names)
              => OneIn(Tail(s) \o t, names)
<1>1. Tail(s) \in Seq(T) /\ 1 \in DOMAIN s /\ Head(s) = s[1]
  OBVIOUS
<1>2. Tail(s) \o t \in Seq(T)
  BY <1>1, Joined
<1>3. /\ NoneIn(s, names) => NoneIn(Tail(s), names)
      /\ OneIn(s, names) /\ Head(s)[1] \notin names => OneIn(Tail(s), names)
      /\ OneIn(s, names) /\ Head(s)[1] \in names => NoneIn(Tail(s), names)
  BY Taken
<1>4. /\ NoneIn(Tail(s), names) /\ NoneIn(t, names) => NoneIn(Tail(s) \o t, names)
      /\ OneIn(Tail(s), names) /\ NoneIn(t, names) => OneIn(Tail(s) \o t, names)
      /\ NoneIn(Tail(s), names) /\ OneIn(t, names) => OneIn(Tail(s) \o t, names)
  BY <1>1, Appended
<1>5. NoneIn(s, names) => Head(s)[1] \notin names
  BY <1>1 DEF NoneIn
<1> QED BY <1>2, <1>3, <1>4, <1>5

LEMMA RequestFields ==
  \A r \in Device!Requests :
    /\ r[1] = "inventory" => r[2] \in Props
    /\ r[1] = "thermal" => r[2] \in 0..2
    /\ r[1] = "source" => r[2] \in EventTypes
    /\ r[1] = "address" => r[2] \in 1..NicPorts
    /\ r \in Device!Sensors => r[1] \notin {"inventory", "thermal", "subscribe", "source"}
<1>1. \A r \in Device!Sensors : r[1] \in {"temp", "tlimit", "pcie", "leak", "eth"}
  BY DEF Device!Sensors
<1> SUFFICES ASSUME NEW r \in Device!Requests, r \notin Device!Sensors
             PROVE  /\ r[1] = "inventory" => r[2] \in Props
                    /\ r[1] = "thermal" => r[2] \in 0..2
                    /\ r[1] = "source" => r[2] \in EventTypes
                    /\ r[1] = "address" => r[2] \in 1..NicPorts
  BY <1>1
<1> QED BY DEF Device!Requests, Device!ThermalParameters

LEMMA RequestMembers ==
  /\ \A p \in Props : <<"inventory", p>> \in Device!Requests
  /\ \A i \in 0..2 : <<"thermal", i>> \in Device!Requests
  /\ \A t \in EventTypes : <<"source", t>> \in Device!Requests
  /\ \A n \in 1..NicPorts : <<"address", n>> \in Device!Requests
  /\ \A n \in 1..NicPorts : <<"eth", n>> \in Device!Sensors
  /\ <<"subscribe", 0>> \in Device!Requests
  /\ <<"ports", 0>> \in Device!Requests /\ <<"leaks", 0>> \in Device!Requests
  /\ \A d \in {"temp", "tlimit", "pcie", "leak"} : <<d, 0>> \in Device!Sensors
  /\ Device!Sensors \subseteq Device!Requests
BY DEF Device!Requests, Device!ThermalParameters, Device!Sensors

LEMMA NextPropertyFacts ==
  ASSUME NEW P \in SUBSET Props
  PROVE  /\ Device!NextProperty(P) \in Seq(Device!Requests)
         /\ P = {} => Device!NextProperty(P) = <<>>
         /\ P # {} => \E p \in P : Device!NextProperty(P) = <<<<"inventory", p>>>>
         /\ IF P = {} THEN NoneIn(Device!NextProperty(P), Inventory)
            ELSE OneIn(Device!NextProperty(P), Inventory)
         /\ NoneIn(Device!NextProperty(P), Thermal) /\ NoneIn(Device!NextProperty(P), Events)
         /\ AsksOf(Device!NextProperty(P), P)
<1>1. CASE P = {}
  <2>1. Device!NextProperty(P) = <<>>
    BY <1>1 DEF Device!NextProperty
  <2>2. <<>> \in Seq(Device!Requests) /\ \A i \in DOMAIN <<>> : FALSE
    OBVIOUS
  <2> QED BY <1>1, <2>1, <2>2, Single DEF AsksOf
<1>2. CASE P # {}
  <2>1. PICK p \in P : p = Device!Min(P)
    BY <1>2, DeviceMin, DeviceValues
  <2>2. PICK r : r = <<"inventory", p>>
    OBVIOUS
  <2>3. Device!NextProperty(P) = <<r>> /\ r \in Device!Requests /\ r[1] = "inventory" /\ r[2] = p
    BY <1>2, <2>1, <2>2, RequestMembers DEF Device!NextProperty
  <2>4. OneIn(<<r>>, Inventory) /\ NoneIn(<<r>>, Thermal) /\ NoneIn(<<r>>, Events)
    BY <2>3, Single DEF Inventory, Thermal, Events
  <2>5. \A i \in DOMAIN <<r>> : <<r>>[i] = r
    OBVIOUS
  <2> QED BY <1>2, <2>2, <2>3, <2>4, <2>5 DEF AsksOf
<1> QED BY <1>1, <1>2

LEMMA UpdatesFacts ==
  ASSUME NEW S \in SUBSET Device!Sensors
  PROVE  /\ Device!Updates(S) \in Seq(Device!Requests)
         /\ NoneIn(Device!Updates(S), Inventory) /\ NoneIn(Device!Updates(S), Thermal)
         /\ NoneIn(Device!Updates(S), Events)
<1>1. Device!Updates(S) \in Seq(S)
  BY DeviceUpdates
<1>2. ASSUME NEW i \in DOMAIN Device!Updates(S)
      PROVE  /\ Device!Updates(S)[i] \in Device!Sensors /\ Device!Updates(S)[i] \in Device!Requests
             /\ Device!Updates(S)[i][1] \notin {"inventory", "thermal", "subscribe", "source"}
  BY <1>1, RequestFields, RequestMembers
<1>3. Device!Updates(S) \in Seq(Device!Requests)
  BY <1>1, RequestMembers
<1> QED BY <1>2, <1>3 DEF NoneIn, Inventory, Thermal, Events

LEMMA DeviceInit == DevicesInit => DeviceInv
<1> SUFFICES ASSUME DevicesInit PROVE DeviceInv
  OBVIOUS
<1>1. /\ pending = Props /\ tries = [p \in Props |-> 0] /\ retry = "off"
      /\ limits = {} /\ tlimit = "none" /\ events = "asked" /\ tried = {}
  BY DEF DevicesInit, DeviceIdle, Device!Init, Device!Start
<1>2. /\ 0 \in 0..MaxAttempts /\ polls \in 0..MaxPolls /\ lost \in 0..MaxFailures
      /\ \A p \in pending : tries[p] < MaxAttempts
  BY <1>1, DeviceValues DEF DevicesInit, DeviceIdle, Device!Init
<1>3. /\ kind \in Device!Kinds /\ alive \in BOOLEAN
      /\ sensors \in SUBSET Device!Sensors /\ poll \in Device!Timers
  BY RequestMembers DEF DevicesInit, DeviceIdle, Device!Init, Device!Kinds, Device!Timers
<1>4. ASSUME chan \in Seq(Device!Requests) PROVE Device!TypeOK
  BY <1>1, <1>2, <1>3, <1>4 DEF Device!TypeOK, Device!Timers
<1>5. CASE DeviceIdle
  <2>1. chan = <<>> /\ kind = "SMA" /\ \A i \in DOMAIN <<>> : FALSE
    BY <1>5 DEF DeviceIdle
  <2> QED BY <1>1, <1>2, <1>4, <2>1 DEF DeviceInv, Chains, AsksPending, AsksOf, NoneIn
<1>6. CASE Device!Init
  <2>1. chan = Device!FirstRequests(kind)
    BY <1>6 DEF Device!Init
  <2>2. CASE kind = "GPU"
    <3> DEFINE t == <<<<"thermal", 0>>, <<"temp", 0>>, <<"subscribe", 0>>>>
    <3>1. chan = Device!NextProperty(pending) \o t
      BY <1>1, <2>1, <2>2 DEF Device!FirstRequests
    <3>2. /\ DOMAIN t = 1..3 /\ t[1] = <<"thermal", 0>> /\ t[2] = <<"temp", 0>>
          /\ t[3] = <<"subscribe", 0>> /\ t \in Seq(Device!Requests)
      <4>1. <<"temp", 0>> \in Device!Requests
        BY RequestMembers
      <4> QED BY <4>1, RequestMembers
    <3> HIDE DEF t
    <3>3. NoneIn(t, Inventory) /\ OneIn(t, Thermal) /\ OneIn(t, Events)
      BY <3>2 DEF NoneIn, OneIn, Inventory, Thermal, Events
    <3> DEFINE n == Device!NextProperty(pending)
    <3>4. /\ n \in Seq(Device!Requests)
          /\ IF pending = {} THEN NoneIn(n, Inventory) ELSE OneIn(n, Inventory)
          /\ NoneIn(n, Thermal) /\ NoneIn(n, Events)
          /\ AsksOf(n, pending)
      BY <1>1, NextPropertyFacts
    <3> HIDE DEF n
    <3>5. chan = n \o t
      BY <3>1 DEF n
    <3>6. /\ IF pending = {} THEN NoneIn(chan, Inventory) ELSE OneIn(chan, Inventory)
          /\ OneIn(chan, Thermal) /\ OneIn(chan, Events)
      BY <3>2, <3>3, <3>4, <3>5, Appended
    <3>7. AsksOf(chan, pending)
      <4>1. AsksOf(t, pending)
        BY <3>2, <3>3, AsksFacts
      <4> QED BY <3>2, <3>4, <3>5, <4>1, AsksFacts
    <3>8. chan \in Seq(Device!Requests)
      BY <3>2, <3>4, <3>5
    <3>9. Chains
      BY <1>1, <2>2, <3>6 DEF Chains, InventoryChain, ThermalChain, EventsChain
    <3> QED BY <1>2, <1>4, <3>7, <3>8, <3>9 DEF DeviceInv, AsksPending
  <2>3. CASE kind = "NIC"
    <3> DEFINE t == [p \in 1..NicPorts |-> <<"address", p>>]
    <3>1. chan = <<<<"ports", 0>>>> \o t
      BY <2>1, <2>3 DEF Device!FirstRequests
    <3>2. t \in Seq(Device!Requests) /\ \A i \in DOMAIN t : t[i][1] = "address"
      BY DeviceValues, RequestMembers
    <3> HIDE DEF t
    <3>3. PICK s \in Seq(Device!Requests) : s = <<<<"ports", 0>>>> /\ DOMAIN s = {1} /\ s[1][1] = "ports"
      <4>1. PICK r \in Device!Requests : r = <<"ports", 0>> /\ r[1] = "ports"
        BY RequestMembers
      <4>2. <<r>> \in Seq(Device!Requests) /\ DOMAIN <<r>> = {1} /\ <<r>>[1] = r
        OBVIOUS
      <4> QED BY <4>1, <4>2
    <3>4. chan = s \o t /\ chan \in Seq(Device!Requests)
      BY <3>1, <3>2, <3>3
    <3>5. /\ NoneIn(s, Inventory) /\ NoneIn(s, Thermal) /\ NoneIn(s, Events)
          /\ NoneIn(t, Inventory) /\ NoneIn(t, Thermal) /\ NoneIn(t, Events)
      BY <3>2, <3>3 DEF NoneIn, Inventory, Thermal, Events
    <3>6. NoneIn(chan, Inventory) /\ NoneIn(chan, Thermal) /\ NoneIn(chan, Events)
      BY <3>2, <3>4, <3>5, Appended
    <3> QED BY <1>1, <1>2, <1>4, <2>3, <3>4, <3>6, AsksFacts DEF DeviceInv, Chains, AsksPending
  <2>4. CASE kind = "SMA"
    <3>1. chan = <<<<"leaks", 0>>, <<"temp", 0>>>>
      BY <2>1, <2>4 DEF Device!FirstRequests
    <3>2. chan \in Seq(Device!Requests)
      <4>1. <<"temp", 0>> \in Device!Requests
        BY RequestMembers
      <4> QED BY <3>1, <4>1, RequestMembers
    <3>3. DOMAIN chan = {1, 2} /\ chan[1] = <<"leaks", 0>> /\ chan[2] = <<"temp", 0>>
      BY <3>1
    <3>4. NoneIn(chan, Inventory) /\ NoneIn(chan, Thermal) /\ NoneIn(chan, Events)
      BY <3>3 DEF NoneIn, Inventory, Thermal, Events
    <3> QED BY <1>1, <1>2, <1>4, <2>4, <3>2, <3>4, AsksFacts DEF DeviceInv, Chains, AsksPending
  <2> QED BY <1>3, <2>2, <2>3, <2>4 DEF Device!Kinds
<1> QED BY <1>5, <1>6 DEF DevicesInit

(***************************************************************************)
(* A step that asks for nothing of a chain of a device that stays, and     *)
(* answers no request of one, leaves all of them as they are.              *)
(***************************************************************************)
LEMMA ChainsKept ==
  ASSUME DeviceInv, NEW t \in Seq(Device!Requests),
         NoneIn(t, Inventory), NoneIn(t, Thermal), NoneIn(t, Events),
         \/ chan' = chan \o t
         \/ /\ chan # <<>> /\ chan' = Tail(chan) \o t
            /\ alive' => Head(chan)[1] \notin {"inventory", "thermal", "subscribe", "source"},
         UNCHANGED <<kind, pending, tries, tlimit, events>>,
         alive' => alive /\ retry' = retry,
         retry = "off" => retry' = "off"
  PROVE  chan' \in Seq(Device!Requests) /\ Chains' /\ AsksPending'
<1>1. chan \in Seq(Device!Requests)
  BY DEF DeviceInv, Device!TypeOK
<1>2. chan' \in Seq(Device!Requests)
  <2>1. chan \o t \in Seq(Device!Requests)
    BY <1>1, Joined
  <2>2. chan # <<>> => Tail(chan) \o t \in Seq(Device!Requests)
    BY <1>1, Exchanged
  <2> QED BY <2>1, <2>2
<1>3. ASSUME NEW names \in {Inventory, Thermal, Events}
      PROVE  /\ NoneIn(chan, names) => NoneIn(chan', names)
             /\ alive' /\ OneIn(chan, names) => OneIn(chan', names)
  <2>1. NoneIn(t, names)
    BY <1>3
  <2>2. CASE chan' = chan \o t
    BY <1>1, <2>1, <2>2, Appended
  <2>3. CASE /\ chan # <<>> /\ chan' = Tail(chan) \o t
             /\ alive' => Head(chan)[1] \notin {"inventory", "thermal", "subscribe", "source"}
    <3>1. alive' => Head(chan)[1] \notin names
      BY <2>3 DEF Inventory, Thermal, Events
    <3> QED BY <1>1, <2>1, <2>3, <3>1, Exchanged
  <2> QED BY <2>2, <2>3
<1>4. Chains'
  BY <1>3 DEF DeviceInv, Chains, InventoryChain, ThermalChain, EventsChain
<1>5. AsksOf(chan', pending)
  <2>1. AsksOf(chan, pending) /\ AsksOf(t, pending)
    BY <1>1, AsksFacts DEF DeviceInv, AsksPending
  <2>2. CASE chan' = chan \o t
    BY <1>1, <2>1, <2>2, AsksFacts
  <2>3. CASE chan # <<>> /\ chan' = Tail(chan) \o t
    <3>1. Tail(chan) \in Seq(Device!Requests) /\ AsksOf(Tail(chan), pending)
      BY <1>1, <2>1, <2>3, AsksFacts
    <3> QED BY <2>1, <2>3, <3>1, AsksFacts
  <2> QED BY <2>2, <2>3
<1>6. AsksPending'
  BY <1>5 DEF DeviceInv, AsksPending
<1> QED BY <1>2, <1>4, <1>6

(* An answer of the inventory chain is the last of it that was asked.      *)
LEMMA InventoryStep ==
  ASSUME DeviceInv, chan # <<>>, Head(chan)[1] = "inventory", alive, NEW ok \in BOOLEAN,
         Device!HandleInventoryPropertyResponse(Head(chan)[2], ok),
         UNCHANGED <<kind, alive, tlimit, events>>
  PROVE  /\ chan' \in Seq(Device!Requests) /\ Chains' /\ AsksPending'
         /\ pending' \in SUBSET Props /\ tries' \in [Props -> 0..MaxAttempts]
         /\ retry' \in Device!Timers
<1>1. /\ chan \in Seq(Device!Requests) /\ pending \in SUBSET Props
      /\ tries \in [Props -> 0..MaxAttempts] /\ retry \in Device!Timers /\ kind \in Device!Kinds
      /\ "armed" \in Device!Timers
  BY DEF DeviceInv, Device!TypeOK, Device!Timers
<1>2. PICK p : p = Head(chan)[2]
  OBVIOUS
<1>3. p \in pending /\ p \in Props
  BY <1>1, <1>2, AsksFacts DEF DeviceInv, AsksPending
<1>4. kind = "GPU"
  BY <1>1, Exchanged DEF DeviceInv, Chains, Inventory
<1>5. InventoryChain /\ ThermalChain /\ EventsChain
  BY <1>4 DEF DeviceInv, Chains
<1>6. OneIn(chan, Inventory) /\ retry = "off"
  BY <1>1, <1>5, Exchanged DEF InventoryChain, Inventory
<1>7. MaxAttempts \in Nat /\ (\A q \in Props : tries[q] \in Nat) /\ \A q \in pending : tries[q] < MaxAttempts
  BY <1>1, DeviceValues DEF DeviceInv, AsksPending
<1>8. Head(chan)[1] \in Inventory /\ Head(chan)[1] \notin Thermal /\ Head(chan)[1] \notin Events
  BY DEF Inventory, Thermal, Events
<1>9. ASSUME NEW P \in SUBSET Props, NEW t, t = Device!NextProperty(P) \/ t = <<>>,
             pending' = P, chan' = Tail(chan) \o t,
             IF t = <<>> THEN P = {} <=> retry' = "off"
             ELSE retry' = "off"
      PROVE  chan' \in Seq(Device!Requests) /\ Chains' /\ AsksOf(chan', pending')
  <2>1. /\ t \in Seq(Device!Requests) /\ AsksOf(t, P)
        /\ NoneIn(t, Thermal) /\ NoneIn(t, Events)
        /\ IF t = <<>> THEN NoneIn(t, Inventory) ELSE P # {} /\ OneIn(t, Inventory)
    <3>1. CASE t = <<>>
      <4>1. t \in Seq(Device!Requests)
        BY <3>1
      <4>2. NoneIn(t, Inventory) /\ NoneIn(t, Thermal) /\ NoneIn(t, Events)
        BY <3>1, Single
      <4> QED BY <3>1, <4>1, <4>2, AsksFacts
    <3>2. CASE t # <<>>
      BY <1>9, <3>2, NextPropertyFacts
    <3> QED BY <3>1, <3>2
  <2>2. IF t = <<>> THEN NoneIn(chan', Inventory) ELSE OneIn(chan', Inventory)
    BY <1>1, <1>6, <1>8, <1>9, <2>1, Exchanged
  <2>3. /\ NoneIn(chan, Thermal) => NoneIn(chan', Thermal)
        /\ OneIn(chan, Thermal) => OneIn(chan', Thermal)
        /\ NoneIn(chan, Events) => NoneIn(chan', Events)
        /\ OneIn(chan, Events) => OneIn(chan', Events)
    BY <1>1, <1>8, <1>9, <2>1, Exchanged
  <2>4. chan' \in Seq(Device!Requests)
    BY <1>1, <1>9, <2>1, Exchanged
  <2>5. InventoryChain' /\ ThermalChain' /\ EventsChain'
    BY <1>5, <1>9, <2>1, <2>2, <2>3 DEF InventoryChain, ThermalChain, EventsChain
  <2>6. Chains'
    BY <1>4, <2>5 DEF Chains
  <2>7. AsksOf(chan', P)
    <3>1. Tail(chan) \in Seq(Device!Requests) /\ NoneIn(Tail(chan), Inventory)
      BY <1>1, <1>6, <1>8, Taken
    <3>2. AsksOf(Tail(chan), P)
      BY <3>1, AsksFacts
    <3> QED BY <1>9, <2>1, <3>1, <3>2, AsksFacts
  <2> QED BY <1>9, <2>4, <2>6, <2>7
<1>10. CASE /\ pending' = pending \ {p}
            /\ chan' = Tail(chan) \o Device!NextProperty(pending')
            /\ retry' = retry /\ (tries' = tries \/ tries' = [tries EXCEPT ![p] = @ + 1])
  <2>1. PICK P \in SUBSET Props : P = pending \ {p}
    BY <1>1
  <2>2. PICK t : t = Device!NextProperty(P)
    OBVIOUS
  <2>3. pending' = P /\ chan' = Tail(chan) \o t /\ retry' = "off"
    BY <1>6, <1>10, <2>1, <2>2
  <2>4. t = <<>> => P = {}
    <3>1. PICK r : r = Device!NextProperty(P) /\ (P # {} => \E q \in P : r = <<<<"inventory", q>>>>)
      BY NextPropertyFacts
    <3>2. \A x : <<x>> # <<>>
      OBVIOUS
    <3> QED BY <2>2, <3>1, <3>2, Zenon
  <2>5. chan' \in Seq(Device!Requests) /\ Chains' /\ AsksOf(chan', pending')
    BY <1>9, <2>2, <2>3, <2>4
  <2>6. tries[p] + 1 \in 0..MaxAttempts
    BY <1>3, <1>7
  <2>7. tries' \in [Props -> 0..MaxAttempts]
    BY <1>1, <1>10, <2>6
  <2>8. \A q \in pending' : tries'[q] = tries[q]
    BY <1>1, <1>10
  <2>9. AsksPending'
    BY <1>7, <1>10, <2>5, <2>8 DEF AsksPending
  <2> QED BY <1>1, <1>10, <2>5, <2>7, <2>9
<1>11. CASE /\ tries' = [tries EXCEPT ![p] = @ + 1] /\ ~(tries'[p] >= MaxAttempts)
            /\ retry' = "armed" /\ chan' = Tail(chan) \o <<>> /\ pending' = pending
  <2>1. PICK t : t = <<>>
    OBVIOUS
  <2>2. PICK P \in SUBSET Props : P = pending
    BY <1>1
  <2>3. chan' \in Seq(Device!Requests) /\ Chains' /\ AsksOf(chan', pending')
    BY <1>3, <1>9, <1>11, <2>1, <2>2
  <2>4. tries'[p] = tries[p] + 1 /\ tries[p] + 1 \in 0..MaxAttempts /\ tries'[p] < MaxAttempts
    BY <1>1, <1>3, <1>7, <1>11
  <2>5. tries' \in [Props -> 0..MaxAttempts]
    BY <1>1, <1>11, <2>4
  <2>6. \A q \in pending : tries'[q] < MaxAttempts
    BY <1>1, <1>7, <1>11, <2>4
  <2>7. AsksPending'
    BY <1>11, <2>3, <2>6 DEF AsksPending
  <2> QED BY <1>1, <1>11, <2>3, <2>5, <2>7
<1> QED BY <1>2, <1>10, <1>11 DEF Device!HandleInventoryPropertyResponse, Device!Submit,
           Device!AfterFailure, Device!GiveUp

(* The answer of one of the other two chains: it goes on with one request  *)
(* or has ended.                                                           *)
LEMMA AnswerStep ==
  ASSUME DeviceInv, chan # <<>>, alive, NEW own, NEW other,
         (own = Thermal /\ other = Events) \/ (own = Events /\ other = Thermal),
         Head(chan)[1] \in own,
         NEW t \in Seq(Device!Requests), chan' = Tail(chan) \o t,
         NoneIn(t, Inventory), NoneIn(t, other), NoneIn(t, own) \/ OneIn(t, own),
         UNCHANGED <<kind, alive, pending, tries, retry>>
  PROVE  /\ chan' \in Seq(Device!Requests) /\ AsksPending' /\ kind = "GPU"
         /\ IF own = Thermal THEN tlimit = "none" ELSE events \notin {"done", "failed"}
         /\ IF own = Thermal
            THEN /\ events' = events
                 /\ tlimit' = "none" <=> OneIn(t, Thermal)
                 /\ tlimit' # "none" <=> NoneIn(t, Thermal)
                 => Chains'
            ELSE /\ tlimit' = tlimit
                 /\ events' \notin {"done", "failed"} <=> OneIn(t, Events)
                 /\ events' \in {"done", "failed"} <=> NoneIn(t, Events)
                 => Chains'
<1>1. chan \in Seq(Device!Requests) /\ kind \in Device!Kinds
  BY DEF DeviceInv, Device!TypeOK
<1>2. ~NoneIn(chan, own)
  BY <1>1, Exchanged
<1>3. kind = "GPU" /\ InventoryChain /\ ThermalChain /\ EventsChain
  BY <1>2 DEF DeviceInv, Chains
<1>4. Head(chan)[1] \notin other /\ Head(chan)[1] \notin Inventory
  BY DEF Inventory, Thermal, Events
<1>5. OneIn(chan, own)
  BY <1>2, <1>3 DEF ThermalChain, EventsChain
<1>6. IF own = Thermal THEN tlimit = "none" ELSE events \notin {"done", "failed"}
  BY <1>2, <1>3 DEF ThermalChain, EventsChain
<1>7. /\ chan' \in Seq(Device!Requests)
      /\ NoneIn(t, own) => NoneIn(chan', own)
      /\ OneIn(t, own) => OneIn(chan', own)
      /\ NoneIn(chan, other) => NoneIn(chan', other)
      /\ OneIn(chan, other) => OneIn(chan', other)
      /\ NoneIn(chan, Inventory) => NoneIn(chan', Inventory)
      /\ OneIn(chan, Inventory) => OneIn(chan', Inventory)
  BY <1>1, <1>4, <1>5, Exchanged
<1>8. InventoryChain'
  BY <1>3, <1>7 DEF InventoryChain
<1>9. AsksPending'
  <2>1. Tail(chan) \in Seq(Device!Requests) /\ AsksOf(Tail(chan), pending)
    BY <1>1, AsksFacts DEF DeviceInv, AsksPending
  <2>2. AsksOf(t, pending)
    BY AsksFacts
  <2>3. AsksOf(chan', pending)
    BY <2>1, <2>2, AsksFacts
  <2> QED BY <2>3 DEF DeviceInv, AsksPending
<1>10. ASSUME own = Thermal, events' = events,
              tlimit' = "none" <=> OneIn(t, Thermal), tlimit' # "none" <=> NoneIn(t, Thermal)
       PROVE  Chains'
  <2>1. other = Events
    BY <1>10 DEF Thermal, Events
  <2>2. ThermalChain' /\ EventsChain'
    BY <1>3, <1>7, <1>10, <2>1 DEF ThermalChain, EventsChain
  <2> QED BY <1>3, <1>8, <2>2 DEF Chains
<1>11. ASSUME own # Thermal, tlimit' = tlimit,
              events' \notin {"done", "failed"} <=> OneIn(t, Events),
              events' \in {"done", "failed"} <=> NoneIn(t, Events)
       PROVE  Chains'
  <2>1. own = Events /\ other = Thermal
    BY <1>11
  <2>2. ThermalChain' /\ EventsChain'
    BY <1>3, <1>7, <1>11, <2>1 DEF ThermalChain, EventsChain
  <2> QED BY <1>3, <1>8, <2>2 DEF Chains
<1> QED BY <1>3, <1>6, <1>7, <1>9, <1>10, <1>11

(* A chain goes on with a request of its own.                              *)
LEMMA GoesOn ==
  /\ \A i \in 0..2 :
        /\ <<<<"thermal", i>>>> \in Seq(Device!Requests)
        /\ OneIn(<<<<"thermal", i>>>>, Thermal) /\ ~NoneIn(<<<<"thermal", i>>>>, Thermal)
        /\ NoneIn(<<<<"thermal", i>>>>, Inventory) /\ NoneIn(<<<<"thermal", i>>>>, Events)
  /\ \A m \in EventTypes :
        /\ <<<<"source", m>>>> \in Seq(Device!Requests)
        /\ OneIn(<<<<"source", m>>>>, Events) /\ ~NoneIn(<<<<"source", m>>>>, Events)
        /\ NoneIn(<<<<"source", m>>>>, Inventory) /\ NoneIn(<<<<"source", m>>>>, Thermal)
  /\ <<>> \in Seq(Device!Requests)
  /\ \A names : NoneIn(<<>>, names) /\ ~OneIn(<<>>, names)
<1>1. ASSUME NEW r \in Device!Requests, NEW names
      PROVE  /\ <<r>> \in Seq(Device!Requests)
             /\ r[1] \in names => OneIn(<<r>>, names) /\ ~NoneIn(<<r>>, names)
             /\ r[1] \notin names => NoneIn(<<r>>, names)
  <2>1. <<r>> \in Seq(Device!Requests)
    OBVIOUS
  <2>2. \A t : OneIn(t, names) => ~NoneIn(t, names)
    BY DEF OneIn, NoneIn
  <2> QED BY <2>1, <2>2, Single
<1>2. ASSUME NEW i \in 0..2
      PROVE  /\ <<<<"thermal", i>>>> \in Seq(Device!Requests)
             /\ OneIn(<<<<"thermal", i>>>>, Thermal) /\ ~NoneIn(<<<<"thermal", i>>>>, Thermal)
             /\ NoneIn(<<<<"thermal", i>>>>, Inventory) /\ NoneIn(<<<<"thermal", i>>>>, Events)
  <2>1. PICK r \in Device!Requests : r = <<"thermal", i>> /\ r[1] = "thermal"
    BY RequestMembers
  <2>2. r[1] \in Thermal /\ r[1] \notin Inventory /\ r[1] \notin Events
    BY <2>1 DEF Inventory, Thermal, Events
  <2> QED BY <1>1, <2>1, <2>2
<1>3. ASSUME NEW m \in EventTypes
      PROVE  /\ <<<<"source", m>>>> \in Seq(Device!Requests)
             /\ OneIn(<<<<"source", m>>>>, Events) /\ ~NoneIn(<<<<"source", m>>>>, Events)
             /\ NoneIn(<<<<"source", m>>>>, Inventory) /\ NoneIn(<<<<"source", m>>>>, Thermal)
  <2>1. PICK r \in Device!Requests : r = <<"source", m>> /\ r[1] = "source"
    BY RequestMembers
  <2>2. r[1] \in Events /\ r[1] \notin Inventory /\ r[1] \notin Thermal
    BY <2>1 DEF Inventory, Thermal, Events
  <2> QED BY <1>1, <2>1, <2>2
<1>4. <<>> \in Seq(Device!Requests) /\ DOMAIN <<>> = {}
  OBVIOUS
<1>5. \A names : NoneIn(<<>>, names) /\ ~OneIn(<<>>, names)
  BY <1>4 DEF OneIn, NoneIn
<1> QED BY <1>2, <1>3, <1>4, <1>5

LEMMA ThermalStep ==
  ASSUME DeviceInv, chan # <<>>, Head(chan)[1] = "thermal", alive, NEW ok \in BOOLEAN,
         Device!ReadThermalParameterCallback(Head(chan)[2], ok),
         UNCHANGED <<kind, alive, pending, tries, retry, events>>
  PROVE  /\ chan' \in Seq(Device!Requests) /\ Chains' /\ AsksPending'
         /\ limits' \in SUBSET Device!ThermalParameters /\ tlimit' \in {"none", "bare", "full"}
         /\ sensors' \in SUBSET Device!Sensors
<1>1. PICK i \in 0..2 : i = Head(chan)[2]
  <2>1. Head(chan) \in Device!Requests
    BY DEF DeviceInv, Device!TypeOK
  <2> QED BY <2>1, RequestFields
<1>2. /\ chan \in Seq(Device!Requests) /\ limits \in SUBSET Device!ThermalParameters
      /\ sensors \in SUBSET Device!Sensors /\ tlimit \in {"none", "bare", "full"}
      /\ <<"tlimit", 0>> \in Device!Sensors
  BY RequestMembers DEF DeviceInv, Device!TypeOK
<1>3. Head(chan)[1] \in Thermal
  BY DEF Thermal
<1>4. CASE ok /\ i + 1 \in Device!ThermalParameters
  <2>1. PICK t : t = <<<<"thermal", i + 1>>>>
    OBVIOUS
  <2>2. t \in Seq(Device!Requests) /\ OneIn(t, Thermal) /\ ~NoneIn(t, Thermal) /\ NoneIn(t, Inventory) /\ NoneIn(t, Events)
    BY <1>4, <2>1, GoesOn DEF Device!ThermalParameters
  <2>3. chan' = Tail(chan) \o t /\ UNCHANGED <<tlimit, sensors>> /\ limits' = limits \cup {i}
    BY <1>1, <1>4, <2>1 DEF Device!ReadThermalParameterCallback, Device!ReadThermalParameter,
       Device!ProcessTLimitThresholds, Device!Submit
  <2>4. tlimit = "none" /\ AsksPending' /\ chan' \in Seq(Device!Requests)
    BY <1>3, <2>2, <2>3, AnswerStep
  <2>5. Chains'
    BY <1>3, <2>2, <2>3, <2>4, AnswerStep
  <2> QED BY <1>1, <1>2, <2>3, <2>4, <2>5 DEF Device!ThermalParameters
<1>5. CASE ~(ok /\ i + 1 \in Device!ThermalParameters)
  <2>1. PICK t : t = <<>>
    OBVIOUS
  <2>2. t \in Seq(Device!Requests) /\ ~OneIn(t, Thermal) /\ NoneIn(t, Thermal) /\ NoneIn(t, Inventory) /\ NoneIn(t, Events)
    BY <2>1, GoesOn
  <2>3. /\ chan' = Tail(chan) \o t /\ tlimit' \in {"bare", "full"}
        /\ sensors' = sensors \cup {<<"tlimit", 0>>}
        /\ limits' = limits \cup {i} \/ limits' = limits
    BY <1>1, <1>5, <2>1 DEF Device!ReadThermalParameterCallback, Device!ReadThermalParameter,
       Device!ProcessTLimitThresholds, Device!Submit
  <2>4. Chains' /\ AsksPending' /\ chan' \in Seq(Device!Requests)
    BY <1>3, <2>2, <2>3, AnswerStep
  <2> QED BY <1>1, <1>2, <2>3, <2>4 DEF Device!ThermalParameters
<1> QED BY <1>4, <1>5

LEMMA EventsStep ==
  ASSUME DeviceInv, chan # <<>>, Head(chan)[1] \in Events, alive, NEW ok \in BOOLEAN,
         \/ Device!HandleSetupSubscription(ok)
         \/ Head(chan)[1] = "source" /\ Device!HandleSetupEvents(Head(chan)[2], ok),
         UNCHANGED <<kind, alive, pending, tries, retry, tlimit>>
  PROVE  /\ chan' \in Seq(Device!Requests) /\ Chains' /\ AsksPending'
         /\ events' \in {"asked", "on", "done", "failed"} /\ tried' \in SUBSET EventTypes
<1>1. chan \in Seq(Device!Requests) /\ Head(chan) \in Device!Requests /\ tried \in SUBSET EventTypes
  BY DEF DeviceInv, Device!TypeOK
<1>2. \/ chan' = Tail(chan) \o <<>> /\ events' \in {"done", "failed"}
      \/ \E m \in EventTypes : chan' = Tail(chan) \o <<<<"source", m>>>> /\ events' = "on"
  <2>1. ASSUME NEW from, Device!SendNextEventSource(from)
        PROVE  \/ chan' = Tail(chan) \o <<>> /\ events' \in {"done", "failed"}
               \/ \E m \in EventTypes : chan' = Tail(chan) \o <<<<"source", m>>>> /\ events' = "on"
    <3>1. PICK left \in SUBSET EventTypes : left = {m \in EventTypes : m >= from}
      OBVIOUS
    <3>2. left # {} => Device!Min(left) \in EventTypes
      BY DeviceMin, DeviceValues
    <3> QED BY <2>1, <3>1, <3>2 DEF Device!SendNextEventSource, Device!Submit
  <2> QED BY <2>1 DEF Device!HandleSetupSubscription, Device!HandleSetupEvents, Device!Submit
<1>3. tried' \in SUBSET EventTypes
  BY <1>1, RequestFields DEF Device!HandleSetupSubscription, Device!HandleSetupEvents
<1>4. CASE chan' = Tail(chan) \o <<>> /\ events' \in {"done", "failed"}
  <2>1. PICK t : t = <<>>
    OBVIOUS
  <2>2. t \in Seq(Device!Requests) /\ ~OneIn(t, Events) /\ NoneIn(t, Events) /\ NoneIn(t, Inventory) /\ NoneIn(t, Thermal)
    BY <2>1, GoesOn
  <2>3. Thermal # Events
    BY DEF Thermal, Events
  <2>4. Chains' /\ AsksPending' /\ chan' \in Seq(Device!Requests)
    BY <1>4, <2>1, <2>2, <2>3, AnswerStep
  <2> QED BY <1>3, <1>4, <2>4
<1>5. ASSUME NEW m \in EventTypes, chan' = Tail(chan) \o <<<<"source", m>>>>, events' = "on"
      PROVE  Chains' /\ AsksPending' /\ chan' \in Seq(Device!Requests)
  <2>1. PICK t : t = <<<<"source", m>>>>
    OBVIOUS
  <2>2. t \in Seq(Device!Requests) /\ OneIn(t, Events) /\ ~NoneIn(t, Events) /\ NoneIn(t, Inventory) /\ NoneIn(t, Thermal)
    BY <2>1, GoesOn
  <2>3. Thermal # Events
    BY DEF Thermal, Events
  <2>4. events' \notin {"done", "failed"} /\ chan' = Tail(chan) \o t
    BY <1>5, <2>1
  <2>5. AsksPending' /\ chan' \in Seq(Device!Requests)
    BY <2>2, <2>3, <2>4, AnswerStep
  <2> QED BY <2>2, <2>3, <2>4, <2>5, AnswerStep
<1> QED BY <1>2, <1>3, <1>4, <1>5

(* Every other request: those of the ports, the leak sensors and the reads.*)
LEMMA OtherStep ==
  ASSUME DeviceInv, chan # <<>>, alive, NEW ok \in BOOLEAN,
         Head(chan)[1] \notin {"inventory", "thermal", "subscribe", "source"},
         Device!Response(Head(chan), ok), UNCHANGED <<kind, alive>>
  PROVE  /\ UNCHANGED <<pending, tries, retry, limits, tlimit, events, tried>>
         /\ chan' \in Seq(Device!Requests) /\ Chains' /\ AsksPending'
         /\ sensors' \in SUBSET Device!Sensors /\ poll' \in Device!Timers
<1>1. /\ chan \in Seq(Device!Requests) /\ Head(chan) \in Device!Requests
      /\ sensors \in SUBSET Device!Sensors /\ poll \in Device!Timers /\ "armed" \in Device!Timers
  BY DEF DeviceInv, Device!TypeOK, Device!Timers
<1>2. /\ <<"pcie", 0>> \in Device!Sensors /\ <<"leak", 0>> \in Device!Sensors
      /\ Head(chan)[1] = "address" => <<"eth", Head(chan)[2]>> \in Device!Sensors
  BY <1>1, RequestFields, RequestMembers
<1>3. UNCHANGED <<pending, tries, retry, limits, tlimit, events, tried>>
  BY DEF Device!Response, Device!inventory, Device!thermal, Device!reporting
<1>4. /\ sensors' \in SUBSET Device!Sensors /\ poll' \in Device!Timers
      /\ chan' = Tail(chan) \o <<>> \/ chan' = Tail(chan) \o Device!Updates(sensors')
  BY <1>1, <1>2 DEF Device!Response, Device!Submit, Device!ProcessPciePortCountsResponse,
     Device!ProcessGetNetworkPortAddressesResponse, Device!ProcessLeakSensorsResponse,
     Device!ProcessResponse
<1>5. PICK S \in SUBSET Device!Sensors : S = sensors'
  BY <1>4
<1>6. PICK t : /\ chan' = Tail(chan) \o t
               /\ t = <<>> \/ t = Device!Updates(S)
  BY <1>4, <1>5
<1>7. t \in Seq(Device!Requests) /\ NoneIn(t, Inventory) /\ NoneIn(t, Thermal) /\ NoneIn(t, Events)
  BY <1>6, GoesOn, UpdatesFacts
<1> QED BY <1>3, <1>4, <1>6, <1>7, ChainsKept

LEMMA CompleteStep ==
  ASSUME DeviceInv, NEW ok \in BOOLEAN, Device!Complete(ok)
  PROVE  DeviceInv'
<1>1. /\ chan # <<>> /\ chan \in Seq(Device!Requests) /\ Head(chan) \in Device!Requests
      /\ UNCHANGED <<kind, alive, polls>> /\ Device!TypeOK
  BY DEF Device!Complete, DeviceInv, Device!TypeOK
<1>2. lost' \in 0..MaxFailures
  <2>1. MaxFailures \in Nat /\ lost \in 0..MaxFailures
    BY <1>1, DeviceValues DEF Device!TypeOK
  <2>2. lost' = lost \/ (lost < MaxFailures /\ lost' = lost + 1)
    BY DEF Device!Complete
  <2> QED BY <2>1, <2>2
<1>3. CASE ~alive
  <2>1. /\ chan' = Tail(chan) \o <<>>
        /\ UNCHANGED <<pending, tries, retry, limits, tlimit, events, tried, sensors, poll>>
    BY <1>3 DEF Device!Complete, Device!Submit, Device!inventory, Device!thermal, Device!reporting
  <2>2. PICK t : t = <<>>
    OBVIOUS
  <2>3. t \in Seq(Device!Requests) /\ NoneIn(t, Inventory) /\ NoneIn(t, Thermal) /\ NoneIn(t, Events)
    BY <2>2, GoesOn
  <2>4. chan' \in Seq(Device!Requests) /\ Chains' /\ AsksPending'
    BY <1>1, <1>3, <2>1, <2>2, <2>3, ChainsKept
  <2>5. Device!TypeOK'
    BY <1>1, <1>2, <2>1, <2>4 DEF Device!TypeOK
  <2> QED BY <2>4, <2>5 DEF DeviceInv
<1>4. CASE alive
  <2>1. Device!Response(Head(chan), ok)
    BY <1>4 DEF Device!Complete
  <2>2. CASE Head(chan)[1] = "inventory"
    <3>1. /\ Device!HandleInventoryPropertyResponse(Head(chan)[2], ok)
          /\ UNCHANGED <<limits, tlimit, events, tried, sensors, poll>>
      BY <1>1, <2>1, <2>2, RequestFields
         DEF Device!Response, Device!thermal, Device!reporting
    <3>2. /\ chan' \in Seq(Device!Requests) /\ Chains' /\ AsksPending'
          /\ pending' \in SUBSET Props /\ tries' \in [Props -> 0..MaxAttempts]
          /\ retry' \in Device!Timers
      BY <1>1, <1>4, <2>2, <3>1, InventoryStep
    <3>3. Device!TypeOK'
      BY <1>1, <1>2, <3>1, <3>2 DEF Device!TypeOK
    <3> QED BY <3>2, <3>3 DEF DeviceInv
  <2>3. CASE Head(chan)[1] = "thermal"
    <3>1. /\ Device!ReadThermalParameterCallback(Head(chan)[2], ok)
          /\ UNCHANGED <<pending, tries, retry, events, tried, poll>>
      BY <1>1, <2>1, <2>3, RequestFields
         DEF Device!Response, Device!inventory, Device!reporting
    <3>2. /\ chan' \in Seq(Device!Requests) /\ Chains' /\ AsksPending'
          /\ limits' \in SUBSET Device!ThermalParameters /\ tlimit' \in {"none", "bare", "full"}
          /\ sensors' \in SUBSET Device!Sensors
      BY <1>1, <1>4, <2>3, <3>1, ThermalStep
    <3>3. Device!TypeOK'
      BY <1>1, <1>2, <3>1, <3>2 DEF Device!TypeOK
    <3> QED BY <3>2, <3>3 DEF DeviceInv
  <2>4. CASE Head(chan)[1] \in {"subscribe", "source"}
    <3>1. /\ \/ Device!HandleSetupSubscription(ok)
             \/ Head(chan)[1] = "source" /\ Device!HandleSetupEvents(Head(chan)[2], ok)
          /\ UNCHANGED <<pending, tries, retry, limits, tlimit, sensors, poll>>
      BY <1>1, <2>1, <2>4, RequestFields
         DEF Device!Response, Device!inventory, Device!thermal
    <3>2. Head(chan)[1] \in Events
      BY <2>4 DEF Events
    <3>3. /\ chan' \in Seq(Device!Requests) /\ Chains' /\ AsksPending'
          /\ events' \in {"asked", "on", "done", "failed"} /\ tried' \in SUBSET EventTypes
      BY <1>1, <1>4, <3>1, <3>2, EventsStep
    <3>4. Device!TypeOK'
      BY <1>1, <1>2, <3>1, <3>3 DEF Device!TypeOK
    <3> QED BY <3>3, <3>4 DEF DeviceInv
  <2>5. CASE Head(chan)[1] \notin {"inventory", "thermal", "subscribe", "source"}
    <3>1. /\ UNCHANGED <<pending, tries, retry, limits, tlimit, events, tried>>
          /\ chan' \in Seq(Device!Requests) /\ Chains' /\ AsksPending'
          /\ sensors' \in SUBSET Device!Sensors /\ poll' \in Device!Timers
      BY <1>1, <1>4, <2>1, <2>5, OtherStep
    <3>2. Device!TypeOK'
      BY <1>1, <1>2, <3>1 DEF Device!TypeOK
    <3> QED BY <3>1, <3>2 DEF DeviceInv
  <2> QED BY <2>2, <2>3, <2>4, <2>5
<1> QED BY <1>3, <1>4

LEMMA TimerStep ==
  ASSUME DeviceInv,
         \/ Device!RetryTimerExpires \/ Device!RetryHandler
         \/ Device!PollTimerExpires \/ Device!Read
  PROVE  DeviceInv'
<1>1. /\ chan \in Seq(Device!Requests) /\ sensors \in SUBSET Device!Sensors
      /\ pending \in SUBSET Props /\ kind \in Device!Kinds /\ Device!TypeOK
      /\ {"off", "armed", "queued"} \subseteq Device!Timers
  BY DEF DeviceInv, Device!TypeOK, Device!Timers
<1>2. PICK none \in Seq(Device!Requests) :
        /\ none = <<>> /\ NoneIn(none, Inventory) /\ NoneIn(none, Thermal) /\ NoneIn(none, Events)
        /\ chan \o none = chan
  <2>1. \A s \in Seq(Device!Requests) : s \o <<>> = s
    OBVIOUS
  <2> QED BY <1>1, <2>1, GoesOn
<1>3. CASE Device!RetryTimerExpires
  <2>1. /\ retry = "armed" /\ retry' = "queued"
        /\ UNCHANGED <<kind, alive, chan, pending, tries, limits, tlimit, events, tried, sensors,
                       poll, polls, lost>>
    BY <1>3 DEF Device!RetryTimerExpires, Device!thermal, Device!reporting
  <2>2. Device!TypeOK'
    BY <1>1, <2>1 DEF Device!TypeOK
  <2>3. Chains' /\ AsksPending'
    BY <2>1 DEF DeviceInv, Chains, AsksPending, InventoryChain, ThermalChain, EventsChain
  <2> QED BY <2>2, <2>3 DEF DeviceInv
<1>4. CASE Device!RetryHandler
  <2>1. /\ retry = "queued" /\ retry' = "off"
        /\ chan' = IF alive THEN chan \o Device!NextProperty(pending) ELSE chan
        /\ UNCHANGED <<kind, alive, pending, tries, limits, tlimit, events, tried, sensors, poll,
                       polls, lost>>
    BY <1>4 DEF Device!RetryHandler, Device!thermal, Device!reporting
  <2>2. kind = "GPU"
    BY <2>1 DEF DeviceInv, Chains
  <2>3. PICK t : t = Device!NextProperty(pending)
    OBVIOUS
  <2>4. /\ t \in Seq(Device!Requests) /\ (pending # {} => OneIn(t, Inventory))
        /\ NoneIn(t, Thermal) /\ NoneIn(t, Events) /\ AsksOf(t, pending)
    BY <1>1, <2>3, NextPropertyFacts
  <2>5. CASE alive
    <3>1. InventoryChain /\ ThermalChain /\ EventsChain
      BY <2>2, <2>5 DEF DeviceInv, Chains
    <3>2. pending # {} /\ NoneIn(chan, Inventory)
      BY <2>1, <3>1 DEF InventoryChain
    <3>3. /\ chan' = chan \o t /\ chan' \in Seq(Device!Requests)
          /\ OneIn(chan', Inventory)
          /\ NoneIn(chan, Thermal) => NoneIn(chan', Thermal)
          /\ OneIn(chan, Thermal) => OneIn(chan', Thermal)
          /\ NoneIn(chan, Events) => NoneIn(chan', Events)
          /\ OneIn(chan, Events) => OneIn(chan', Events)
      BY <1>1, <2>1, <2>3, <2>4, <2>5, <3>2, Appended, Joined
    <3>4. Chains'
      BY <2>1, <2>2, <3>1, <3>2, <3>3 DEF Chains, InventoryChain, ThermalChain, EventsChain
    <3>5. AsksOf(chan', pending)
      BY <1>1, <2>4, <3>3, AsksFacts DEF DeviceInv, AsksPending
    <3>6. AsksPending'
      BY <2>1, <3>5 DEF DeviceInv, AsksPending
    <3>7. Device!TypeOK'
      BY <1>1, <2>1, <3>3 DEF Device!TypeOK
    <3> QED BY <3>4, <3>6, <3>7 DEF DeviceInv
  <2>6. CASE ~alive
    <3>1. chan' = chan
      BY <2>1, <2>6
    <3>2. Chains' /\ AsksPending'
      BY <2>1, <2>2, <2>6, <3>1 DEF DeviceInv, Chains, AsksPending
    <3>3. Device!TypeOK'
      BY <1>1, <2>1, <3>1 DEF Device!TypeOK
    <3> QED BY <3>2, <3>3 DEF DeviceInv
  <2> QED BY <2>5, <2>6
<1>5. CASE Device!PollTimerExpires
  <2>1. /\ poll' = "queued" /\ polls < MaxPolls /\ polls' = polls + 1
        /\ UNCHANGED <<kind, alive, chan, pending, tries, retry, limits, tlimit, events, tried,
                       sensors, lost>>
    BY <1>5 DEF Device!PollTimerExpires, Device!inventory, Device!thermal, Device!reporting
  <2>2. polls' \in 0..MaxPolls
    BY <1>1, <2>1, DeviceValues DEF Device!TypeOK
  <2>3. Device!TypeOK'
    BY <1>1, <2>1, <2>2 DEF Device!TypeOK
  <2>4. Chains' /\ AsksPending'
    BY <2>1 DEF DeviceInv, Chains, AsksPending, InventoryChain, ThermalChain, EventsChain
  <2> QED BY <2>3, <2>4 DEF DeviceInv
<1>6. CASE Device!Read
  <2>1. /\ poll' \in {"armed", "off"}
        /\ chan' = chan \o Device!Updates(sensors) \/ chan' = chan \o none
        /\ UNCHANGED <<kind, alive, pending, tries, retry, limits, tlimit, events, tried, sensors,
                       polls, lost>>
    BY <1>2, <1>6 DEF Device!Read, Device!inventory, Device!thermal, Device!reporting
  <2>2. PICK t : chan' = chan \o t /\ (t = none \/ t = Device!Updates(sensors))
    BY <2>1
  <2>3. t \in Seq(Device!Requests) /\ NoneIn(t, Inventory) /\ NoneIn(t, Thermal) /\ NoneIn(t, Events)
    BY <1>1, <1>2, <2>2, UpdatesFacts
  <2>4. chan' \in Seq(Device!Requests) /\ Chains' /\ AsksPending'
    BY <2>1, <2>2, <2>3, ChainsKept
  <2>5. Device!TypeOK'
    BY <1>1, <2>1, <2>4 DEF Device!TypeOK
  <2> QED BY <2>4, <2>5 DEF DeviceInv
<1> QED BY <1>3, <1>4, <1>5, <1>6

LEMMA DeviceStep == DeviceInv /\ [DevicesNext]_allVars => DeviceInv'
<1> SUFFICES ASSUME DeviceInv, [DevicesNext]_allVars PROVE DeviceInv'
  OBVIOUS
<1>1. CASE UNCHANGED deviceVars
  <2>1. UNCHANGED <<kind, alive, chan, pending, tries, retry, limits, tlimit, events, tried, sensors,
                    poll, polls, lost>>
    BY <1>1 DEF deviceVars
  <2>2. Device!TypeOK' <=> Device!TypeOK
    BY <2>1 DEF Device!TypeOK
  <2>3. (Chains' <=> Chains) /\ (AsksPending' <=> AsksPending)
    BY <2>1 DEF Chains, AsksPending, InventoryChain, ThermalChain, EventsChain
  <2> QED BY <2>2, <2>3 DEF DeviceInv
<1>2. CASE Device!Destroy
  <2>1. /\ alive' = FALSE
        /\ retry' = IF retry = "armed" THEN "off" ELSE retry
        /\ poll' = poll \/ poll' = "off"
        /\ UNCHANGED <<kind, chan, pending, tries, limits, tlimit, events, tried, sensors, polls, lost>>
    BY <1>2 DEF Device!Destroy, Device!thermal, Device!reporting
  <2>2. Device!TypeOK'
    BY <2>1 DEF DeviceInv, Device!TypeOK, Device!Timers
  <2>3. Chains' /\ AsksPending'
    BY <2>1 DEF DeviceInv, Chains, AsksPending
  <2> QED BY <2>2, <2>3 DEF DeviceInv
<1>3. \/ UNCHANGED deviceVars \/ Device!Destroy
      \/ \E ok \in BOOLEAN : Device!Complete(ok)
      \/ Device!RetryTimerExpires \/ Device!RetryHandler
      \/ Device!PollTimerExpires \/ Device!Read
  BY DEF DevicesNext, allVars, Device!Next
<1> QED BY <1>1, <1>2, <1>3, CompleteStep, TimerStep

LEMMA Counted ==
  ASSUME NEW T, NEW s \in Seq(T), NEW names
  PROVE  /\ NoneIn(s, names) => Device!Cardinality({i \in DOMAIN s : s[i][1] \in names}) = 0
         /\ OneIn(s, names) => Device!Cardinality({i \in DOMAIN s : s[i][1] \in names}) = 1
<1>1. \A S : Device!Cardinality(S) = Cardinality(S)
  BY DEF Device!Cardinality, Cardinality
<1>2. PICK S : S = {i \in DOMAIN s : s[i][1] \in names}
  OBVIOUS
<1>3. NoneIn(s, names) => S = {}
  BY <1>2 DEF NoneIn
<1>4. OneIn(s, names) => \E i \in DOMAIN s : S = {i}
  BY <1>2 DEF OneIn
<1> QED BY <1>1, <1>2, <1>3, <1>4, FS_EmptySet, FS_Singleton

LEMMA DeviceImplies == DeviceInv => OneContinuation
<1> SUFFICES ASSUME DeviceInv, alive, kind = "GPU"
             PROVE  /\ Device!Waiting({"inventory"}) + (IF retry = "off" THEN 0 ELSE 1)
                          = (IF pending = {} THEN 0 ELSE 1)
                    /\ Device!Waiting({"thermal"}) = (IF tlimit # "none" THEN 0 ELSE 1)
                    /\ Device!Waiting({"subscribe", "source"})
                          = (IF events \in {"done", "failed"} THEN 0 ELSE 1)
  BY DEF OneContinuation, Device!OneContinuation, Device!InventoryEnded, Device!ThermalEnded,
         Device!EventsEnded
<1>1. chan \in Seq(Device!Requests) /\ InventoryChain /\ ThermalChain /\ EventsChain
  BY DEF DeviceInv, Device!TypeOK, Chains
<1>2. ASSUME NEW names
      PROVE  /\ NoneIn(chan, names) => Device!Waiting(names) = 0
             /\ OneIn(chan, names) => Device!Waiting(names) = 1
  BY <1>1, Counted DEF Device!Waiting
<1>3. Device!Waiting({"inventory"}) + (IF retry = "off" THEN 0 ELSE 1)
        = (IF pending = {} THEN 0 ELSE 1)
  BY <1>1, <1>2 DEF InventoryChain, Inventory
<1>4. Device!Waiting({"thermal"}) = (IF tlimit # "none" THEN 0 ELSE 1)
  BY <1>1, <1>2 DEF ThermalChain, Thermal
<1>5. Device!Waiting({"subscribe", "source"}) = (IF events \in {"done", "failed"} THEN 0 ELSE 1)
  BY <1>1, <1>2 DEF EventsChain, Events
<1> QED BY <1>3, <1>4, <1>5

(***************************************************************************)
(* For all properties, event types, ports and bounds: each set-up chain of *)
(* a GPU has exactly one continuation until it has ended.  No failure,     *)
(* retry or poll loses a chain or starts it twice.                         *)
(***************************************************************************)
THEOREM ChainsGoOn == DevicesSpec => []OneContinuation
<1>1. DevicesInit => DeviceInv
  BY DeviceInit
<1>2. DeviceInv /\ [DevicesNext]_allVars => DeviceInv'
  BY DeviceStep
<1>3. DeviceInv => OneContinuation
  BY DeviceImplies
<1> QED BY <1>1, <1>2, <1>3, PTL DEF DevicesSpec

(***************************************************************************)
(* The variables of the manager and of the device keep their types; for    *)
(* the retry counters of the inventory it takes that a property that was   *)
(* given up is never asked for again.                                      *)
(***************************************************************************)
THEOREM DevicesTypeCorrect == DevicesSpec => []DevicesTypeOK
<1>1. DevicesInit => TypeOK /\ DeviceInv
  BY DeviceInit, SurviveInit DEF SurviveInv
<1>2. TypeOK /\ DeviceInv /\ [DevicesNext]_allVars => (TypeOK /\ DeviceInv)'
  <2>1. [DevicesNext]_allVars => [Next]_vars
    BY DEF DevicesNext, allVars
  <2> QED BY <2>1, DeviceStep, ManagerTypeStep
<1>3. TypeOK /\ DeviceInv => DevicesTypeOK
  BY DEF DevicesTypeOK, DeviceInv
<1> QED BY <1>1, <1>2, <1>3, PTL DEF DevicesSpec
=============================================================================
