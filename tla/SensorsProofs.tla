---------------------------- MODULE SensorsProofs ----------------------------
(***************************************************************************)
(* Proofs about the polled sensor and the power supply's events            *)
(* (MCSensors), for all readings, thresholds and bounds: the types, what   *)
(* an unavailable sensor shows, and the order of delayed alarms.           *)
(*                                                                         *)
(* The invariant of the sensor is about its record: `Records' is its type, *)
(* and `Keeps' what every operation of sensor.hpp does to it.              *)
(***************************************************************************)
EXTENDS MCSensors, FiniteSetTheorems, TLAPS

LEMMA Values0 ==
  /\ Readings \subseteq Int /\ Thresholds \subseteq Int
  /\ NaN \notin Int /\ Broken \notin Int /\ NaN # Broken
  /\ Hysteresis \in Nat /\ Publish \in Nat /\ ErrorThreshold \in Nat
  /\ MaxDelays \in Nat /\ MaxSignals \in Nat /\ MaxWrites \in Nat
BY SensorsAssumption DEF SensorAssumption

LEMMA Bounded ==
  ASSUME NEW T, NEW n \in Nat
  PROVE  \A s : s \in BoundedSeq(T, n) <=> s \in Seq(T) /\ Len(s) <= n
<1>1. ASSUME NEW s \in BoundedSeq(T, n) PROVE s \in Seq(T) /\ Len(s) <= n
  <2>1. PICK m \in 0..n : s \in [1..m -> T]
    BY DEF BoundedSeq, SeqOf
  <2>2. s \in Seq(T) /\ Len(s) = m
    BY <2>1
  <2> QED BY <2>1, <2>2
<1>2. ASSUME NEW s \in Seq(T), Len(s) <= n PROVE s \in BoundedSeq(T, n)
  <2>1. Len(s) \in 0..n /\ s \in [1..Len(s) -> T]
    BY <1>2
  <2> QED BY <2>1 DEF BoundedSeq, SeqOf
<1> QED BY <1>1, <1>2

LEMMA SegmentsNest ==
  ASSUME NEW a \in Nat, NEW b \in Nat, b < a
  PROVE  0..b \subseteq 0..a /\ 0..b # 0..a
<1>1. a \in 0..a /\ a \notin 0..b
  OBVIOUS
<1> QED BY <1>1

(* The initial segments below the numbers of a set have a least one under  *)
(* inclusion, and so has the set.                                          *)
LEMMA LeastNumber ==
  ASSUME NEW P \in SUBSET Nat, P # {}
  PROVE  Min(P) \in P /\ \A y \in P : Min(P) <= y
<1> DEFINE T == {0..x : x \in P}
<1>1. T \subseteq FiniteSubsetsOf(Nat) /\ T # {}
  <2>1. \A x \in P : IsFiniteSet(0..x)
    <3> SUFFICES ASSUME NEW x \in P PROVE IsFiniteSet(0..x)
      OBVIOUS
    <3>1. 0 \in Int /\ x \in Int
      OBVIOUS
    <3> QED BY <3>1, FS_Interval
  <2>2. \A x \in P : 0..x \in FiniteSubsetsOf(Nat)
    BY <2>1 DEF FiniteSubsetsOf
  <2> QED BY <2>2
<1>2. IsWellFoundedOn(StrictSubsetOrdering(Nat), FiniteSubsetsOf(Nat))
  BY FS_StrictSubsetOrderingWellFounded
<1>3. PICK s \in T : \A t \in T : <<t, s>> \notin StrictSubsetOrdering(Nat)
  <2> HIDE DEF T
  <2> QED BY <1>1, <1>2, WFMin
<1>4. PICK x \in P : s = 0..x
  OBVIOUS
<1>5. ASSUME NEW y \in P, y < x PROVE FALSE
  <2>1. 0..y \subseteq 0..x /\ 0..y # 0..x /\ 0..y \in T
    BY <1>5, SegmentsNest
  <2>2. <<0..y, 0..x>> \in StrictSubsetOrdering(Nat)
    BY <2>1 DEF StrictSubsetOrdering
  <2> QED BY <1>3, <1>4, <2>1, <2>2
<1>6. \A y \in P : x <= y
  BY <1>5
<1> QED BY <1>6 DEF Min

-----------------------------------------------------------------------------
(* Delayed alarms                                                          *)

(***************************************************************************)
(* The alarms that are delayed follow the verdicts: each of them is one,   *)
(* and a later one is not an earlier verdict.                              *)
(***************************************************************************)
Embeds(d, v) ==
    \E g \in [DOMAIN d -> DOMAIN v] :
        /\ \A i \in DOMAIN d : v[g[i]] = d[i]
        /\ \A i, j \in DOMAIN d : i <= j => g[i] <= g[j]

LEMMA EmbedsNone ==
  ASSUME NEW T, NEW v \in Seq(T) PROVE Embeds(<<>>, v)
<1>1. DOMAIN <<>> = {}
  OBVIOUS
<1>2. [i \in {} |-> i] \in [{} -> DOMAIN v]
  OBVIOUS
<1> QED BY <1>1, <1>2 DEF Embeds

(* Delays that are all alike follow that one verdict.                      *)
LEMMA EmbedsOne ==
  ASSUME NEW T, NEW a \in T, NEW d \in Seq(T), \A i \in DOMAIN d : d[i] = a
  PROVE  Embeds(d, <<a>>)
<1> DEFINE g == [i \in DOMAIN d |-> 1]
<1>1. DOMAIN <<a>> = {1} /\ <<a>>[1] = a
  OBVIOUS
<1>2. g \in [DOMAIN d -> DOMAIN <<a>>] /\ \A i \in DOMAIN d : g[i] = 1
  BY <1>1
<1>3. 1 <= 1
  OBVIOUS
<1> HIDE DEF g
<1> QED BY <1>1, <1>2, <1>3 DEF Embeds

(* A verdict is added, and delayed.                                        *)
LEMMA EmbedsAppend ==
  ASSUME NEW T, NEW a \in T, NEW d \in Seq(T), NEW v \in Seq(T), NEW w \in Seq(T),
         Embeds(d, v), w = v \/ w = Append(v, a), w # <<>>, w[Len(w)] = a
  PROVE  Embeds(Append(d, a), w)
<1>1. PICK g \in [DOMAIN d -> DOMAIN v] :
        /\ \A i \in DOMAIN d : v[g[i]] = d[i]
        /\ \A i, j \in DOMAIN d : i <= j => g[i] <= g[j]
  BY DEF Embeds
<1>2. /\ Len(w) \in DOMAIN w /\ DOMAIN v \subseteq DOMAIN w
      /\ \A k \in DOMAIN v : w[k] = v[k] /\ k \in Nat /\ k <= Len(w)
  <2>1. CASE w = v
    BY <2>1
  <2>2. CASE w = Append(v, a)
    <3>1. Len(w) = Len(v) + 1
      BY <2>2
    <3> QED BY <2>2, <3>1
  <2> QED BY <2>1, <2>2
<1>3. PICK e \in Seq(T) : e = Append(d, a)
  <2>1. Append(d, a) \in Seq(T)
    OBVIOUS
  <2> QED BY <2>1
<1>4. /\ DOMAIN e = DOMAIN d \cup {Len(d) + 1} /\ e[Len(d) + 1] = a
      /\ \A i \in DOMAIN d : e[i] = d[i] /\ i <= Len(d) /\ i \in Nat
      /\ Len(d) \in Nat
  BY <1>3
<1> DEFINE h == [i \in DOMAIN e |-> IF i \in DOMAIN d THEN g[i] ELSE Len(w)]
<1>5. h \in [DOMAIN e -> DOMAIN w]
  BY <1>1, <1>2
<1>6. /\ \A i \in DOMAIN d : h[i] = g[i]
      /\ h[Len(d) + 1] = Len(w) /\ Len(d) + 1 \notin DOMAIN d
  BY <1>4
<1> HIDE DEF h
<1>7. \A i \in DOMAIN e : w[h[i]] = e[i]
  BY <1>1, <1>2, <1>4, <1>6
<1>8. ASSUME NEW i \in DOMAIN e, NEW j \in DOMAIN e, i <= j PROVE h[i] <= h[j]
  <2>1. CASE i \in DOMAIN d /\ j \in DOMAIN d
    BY <1>1, <1>6, <1>8, <2>1
  <2>2. CASE j = Len(d) + 1
    <3>1. h[i] <= Len(w)
      BY <1>1, <1>2, <1>4, <1>6
    <3> QED BY <1>6, <2>2, <3>1
  <2>3. CASE i = Len(d) + 1 /\ j \in DOMAIN d
    BY <1>4, <1>8, <2>3
  <2> QED BY <1>4, <2>1, <2>2, <2>3
<1> QED BY <1>3, <1>5, <1>7, <1>8 DEF Embeds

(* The first delayed alarm comes: the verdicts before it are past.         *)
LEMMA EmbedsTail ==
  ASSUME NEW T, NEW d \in Seq(T), d # <<>>, NEW v \in Seq(T), Embeds(d, v)
  PROVE  /\ Head(d) \in Range(v) /\ Follow(v, Head(d)) \in Seq(T)
         /\ Head(d) \in Range(Follow(v, Head(d)))
         /\ Embeds(Tail(d), Follow(v, Head(d)))
         /\ Embeds(Tail(d), v)
<1>1. PICK g \in [DOMAIN d -> DOMAIN v] :
        /\ \A i \in DOMAIN d : v[g[i]] = d[i]
        /\ \A i, j \in DOMAIN d : i <= j => g[i] <= g[j]
  BY DEF Embeds
<1>2. PICK a \in T : a = Head(d) /\ a = d[1] /\ 1 \in DOMAIN d
  OBVIOUS
<1>3. PICK e \in Seq(T) :
        /\ e = Tail(d)
        /\ \A i \in DOMAIN e : i \in Nat \ {0} /\ i + 1 \in DOMAIN d /\ e[i] = d[i + 1]
  <2>1. Tail(d) \in Seq(T)
    OBVIOUS
  <2>2. \A i \in DOMAIN Tail(d) : i \in Nat \ {0} /\ i + 1 \in DOMAIN d /\ Tail(d)[i] = d[i + 1]
    OBVIOUS
  <2> QED BY <2>1, <2>2
<1> DEFINE I == {i \in 1..Len(v) : v[i] = a}
           k == Min(I)
<1>4. DOMAIN v = 1..Len(v) /\ Len(v) \in Nat
  OBVIOUS
<1>5. g[1] \in I /\ I \in SUBSET Nat /\ I # {}
  BY <1>1, <1>2, <1>4
<1>6. k \in I /\ \A i \in I : k <= i
  <2> HIDE DEF I
  <2> QED BY <1>5, LeastNumber DEF k
<1>7. PICK m : m \in I /\ m = k /\ m <= g[1]
  BY <1>5, <1>6
<1>8. Head(d) \in Range(v)
  BY <1>1, <1>2 DEF Range
<1>9. Follow(v, a) = SubSeq(v, m, Len(v))
  <2>1. a \in Range(v)
    BY <1>2, <1>8
  <2>2. SelectInSeq(v, LAMBDA x : x = a) = IF I # {} THEN Min(I) ELSE 0
    BY DEF SelectInSeq
  <2>3. SelectInSeq(v, LAMBDA x : x = a) = m
    BY <1>5, <1>7, <2>2
  <2> QED BY <2>1, <2>3 DEF Follow
<1>10. m \in 1..Len(v) /\ v[m] = a
  BY <1>7
<1> HIDE DEF I
<1>11. PICK w \in Seq(T) :
        /\ w = SubSeq(v, m, Len(v))
        /\ DOMAIN w = 1..(Len(v) - m + 1)
        /\ \A i \in DOMAIN w : w[i] = v[m + i - 1]
  <2>1. SubSeq(v, m, Len(v)) \in Seq(T)
    BY <1>4, <1>10
  <2>2. Len(SubSeq(v, m, Len(v))) = Len(v) - m + 1
    BY <1>4, <1>10
  <2>3. \A i \in 1..(Len(v) - m + 1) : SubSeq(v, m, Len(v))[i] = v[m + i - 1]
    BY <1>4, <1>10
  <2>4. DOMAIN SubSeq(v, m, Len(v)) = 1..(Len(v) - m + 1)
    BY <2>1, <2>2
  <2> QED BY <2>1, <2>3, <2>4
<1>12. 1 \in DOMAIN w /\ w[1] = a
  <2>1. m + 1 - 1 = m /\ 1 \in 1..(Len(v) - m + 1)
    BY <1>4, <1>10
  <2> QED BY <1>10, <1>11, <2>1
<1>13. \A i \in DOMAIN e : g[i + 1] \in DOMAIN v /\ m <= g[i + 1] /\ v[g[i + 1]] = e[i]
  <2>1. \A i \in DOMAIN e : g[1] <= g[i + 1]
    BY <1>1, <1>2, <1>3
  <2> QED BY <1>1, <1>2, <1>3, <1>4, <1>7, <1>10, <2>1
<1> DEFINE h == [i \in DOMAIN e |-> g[i + 1] - m + 1]
           f == [i \in DOMAIN e |-> g[i + 1]]
<1>14. Embeds(e, w)
  <2>1. \A i \in DOMAIN e : h[i] \in DOMAIN w /\ m + h[i] - 1 = g[i + 1]
    BY <1>4, <1>10, <1>11, <1>13
  <2>2. h \in [DOMAIN e -> DOMAIN w]
    BY <2>1
  <2>3. \A i \in DOMAIN e : w[h[i]] = e[i]
    BY <1>11, <1>13, <2>1
  <2>4. ASSUME NEW i \in DOMAIN e, NEW j \in DOMAIN e, i <= j PROVE h[i] <= h[j]
    <3>1. g[i + 1] <= g[j + 1] /\ g[i + 1] \in Nat /\ g[j + 1] \in Nat /\ m \in Nat
      BY <1>1, <1>3, <1>4, <1>10, <1>13, <2>4
    <3> QED BY <3>1
  <2> HIDE DEF h
  <2> QED BY <2>2, <2>3, <2>4 DEF Embeds
<1>15. Embeds(e, v)
  <2>1. f \in [DOMAIN e -> DOMAIN v] /\ \A i \in DOMAIN e : f[i] = g[i + 1] /\ v[f[i]] = e[i]
    BY <1>13
  <2>2. ASSUME NEW i \in DOMAIN e, NEW j \in DOMAIN e, i <= j PROVE f[i] <= f[j]
    BY <1>1, <1>3, <2>1, <2>2
  <2> HIDE DEF f
  <2> QED BY <2>1, <2>2 DEF Embeds
<1>16. a \in Range(w)
  BY <1>12 DEF Range
<1> QED BY <1>2, <1>3, <1>8, <1>9, <1>11, <1>14, <1>15, <1>16

-----------------------------------------------------------------------------
(* What the operations of sensor.hpp and Thresholds.cpp do to the sensor   *)

Records ==
    [power : BOOLEAN, value : Values, shown : Values, threshold : Thresholds,
     alarm : BOOLEAN, available : BOOLEAN, functional : BOOLEAN, errCount : 0..ErrorThreshold,
     overridden : BOOLEAN, invalidated : BOOLEAN,
     delays : BoundedSeq(BOOLEAN, MaxDelays), verdicts : Seq(BOOLEAN)]

(* Only delayed alarms of low thresholds of ADC sensors wait.              *)
Ordered(s) ==
    /\ s.delays # <<>> => kind = "adc" /\ direction = "low"
    /\ Embeds(s.delays, s.verdicts)

(* What is shown is the value, but for one that a client made it forget.   *)
Shown(s) == s.shown = s.value \/ s.invalidated

(* A sensor that is not available or not functional has no value ...       *)
Forgotten(s) == ~s.overridden /\ ~(s.available /\ s.functional) => s.value = NaN

(* ... and if it is not available no alarm, and none to come.              *)
Quiet(s) == ~s.overridden /\ ~s.available => ~s.alarm /\ (s.power => s.delays = <<>>)

(* A step of the alarm is a verdict that is not past.                      *)
Follows(s, t) == t.alarm # s.alarm => t.alarm \in Range(t.verdicts) \/ ~t.power

Keeps(s, t) ==
    /\ t \in Records /\ Ordered(t) /\ Shown(t) /\ Forgotten(t)
    /\ Quiet(s) => Quiet(t)
    /\ Follows(s, t)
    /\ t.power = s.power /\ t.overridden = s.overridden
    /\ ~t.power /\ ~t.overridden => t.delays = s.delays

(* The thresholds change the alarm, the delays and the verdicts alone.     *)
Alike(s, t) ==
    /\ t.power = s.power /\ t.value = s.value /\ t.shown = s.shown
    /\ t.threshold = s.threshold /\ t.available = s.available /\ t.functional = s.functional
    /\ t.errCount = s.errCount /\ t.overridden = s.overridden /\ t.invalidated = s.invalidated

LEMMA Fields ==
  \A s \in Records :
    /\ s.power \in BOOLEAN /\ s.value \in Values /\ s.shown \in Values
    /\ s.threshold \in Thresholds /\ s.alarm \in BOOLEAN /\ s.available \in BOOLEAN
    /\ s.functional \in BOOLEAN /\ s.errCount \in 0..ErrorThreshold
    /\ s.overridden \in BOOLEAN /\ s.invalidated \in BOOLEAN
    /\ s.delays \in Seq(BOOLEAN) /\ Len(s.delays) <= MaxDelays /\ s.verdicts \in Seq(BOOLEAN)
BY Values0, Bounded DEF Records

Added(v, a) == IF v # <<>> /\ Last(v) = a THEN v ELSE Append(v, a)

LEMMA AddVerdict ==
  ASSUME NEW T, NEW d \in Seq(T), NEW v \in Seq(T), NEW a \in T, Embeds(d, v)
  PROVE  Added(v, a) \in Seq(T) /\ Embeds(Append(d, a), Added(v, a))
<1>1. /\ Append(v, a) \in Seq(T) /\ Append(v, a) # <<>>
      /\ Append(v, a)[Len(Append(v, a))] = a
  OBVIOUS
<1>2. PICK w : w = Added(v, a)
  OBVIOUS
<1>3. w \in Seq(T) /\ (w = v \/ w = Append(v, a)) /\ w # <<>> /\ w[Len(w)] = a
  BY <1>1, <1>2 DEF Last, Added
<1> QED BY <1>2, <1>3, EmbedsAppend

LEMMA Members ==
  ASSUME NEW T, NEW d \in Seq(T), NEW x, x \notin Range(d)
  PROVE  \A i \in DOMAIN d : d[i] \in T /\ d[i] # x
BY DEF Range

LEMMA JudgeFacts ==
  ASSUME NEW s \in Records, NEW a \in BOOLEAN, Ordered(s), Len(s.delays) < MaxDelays
  PROVE  /\ Judge(s, a) \in Records /\ Alike(s, Judge(s, a)) /\ Ordered(Judge(s, a))
         /\ Judge(s, a).alarm # s.alarm => Judge(s, a).alarm \in Range(Judge(s, a).verdicts)
<1>1. PICK d \in Seq(BOOLEAN), v \in Seq(BOOLEAN) : d = s.delays /\ v = s.verdicts
  BY Fields
<1>2. Embeds(d, v) /\ Len(d) < MaxDelays /\ MaxDelays \in Nat
  BY <1>1, Values0 DEF Ordered
<1>3. CASE Delays(s, a)
  <2>1. PICK w : w = Added(v, a)
    OBVIOUS
  <2>2. w \in Seq(BOOLEAN) /\ Embeds(Append(d, a), w)
    BY <1>2, <2>1, AddVerdict
  <2>3. PICK e : e = Append(d, a)
    OBVIOUS
  <2>4. e \in Seq(BOOLEAN) /\ Len(e) <= MaxDelays
    BY <1>2, <2>3
  <2>5. Embeds(e, w)
    BY <2>2, <2>3
  <2>6. Judge(s, a) = [s EXCEPT !.verdicts = w, !.delays = e]
    BY <1>1, <1>3, <2>1, <2>3 DEF Judge, Judged, Records, Added
  <2>7. e \in BoundedSeq(BOOLEAN, MaxDelays)
    BY <1>2, <2>4, Bounded
  <2>8. kind = "adc" /\ direction = "low"
    BY <1>3 DEF Delays
  <2>9. PICK t : t = Judge(s, a)
    OBVIOUS
  <2>10. t \in Records /\ Alike(s, t) /\ t.delays = e /\ t.verdicts = w /\ t.alarm = s.alarm
    BY <2>2, <2>6, <2>7, <2>9 DEF Records, Alike
  <2>11. Ordered(t)
    BY <2>5, <2>8, <2>10 DEF Ordered
  <2> QED BY <2>9, <2>10, <2>11
<1>4. CASE ~Delays(s, a)
  <2>1. PICK t : t = Judge(s, a)
    OBVIOUS
  <2>2. t = [s EXCEPT !.alarm = a, !.verdicts = <<a>>]
    BY <1>4, <2>1 DEF Judge
  <2>3. <<a>> \in Seq(BOOLEAN)
    OBVIOUS
  <2>4. t \in Records /\ Alike(s, t) /\ t.delays = d /\ t.verdicts = <<a>> /\ t.alarm = a
    BY <1>1, <2>2, <2>3 DEF Records, Alike
  <2>5. \A i \in DOMAIN d : d[i] = a
    <3>1. CASE d = <<>>
      BY <3>1
    <3>2. CASE d # <<>>
      <4>1. a = FALSE /\ TRUE \notin Range(d)
        BY <1>1, <1>4, <3>2 DEF Ordered, Delays
      <4>2. \A i \in DOMAIN d : d[i] \in BOOLEAN /\ d[i] # TRUE
        BY <4>1, Members
      <4> QED BY <4>1, <4>2, Zenon
    <3> QED BY <3>1, <3>2
  <2>6. Embeds(d, <<a>>)
    BY <2>5, EmbedsOne
  <2>7. Ordered(t)
    BY <1>1, <2>4, <2>6 DEF Ordered
  <2>8. a \in Range(<<a>>)
    <3>1. DOMAIN <<a>> = {1} /\ <<a>>[1] = a
      OBVIOUS
    <3> QED BY <3>1 DEF Range
  <2> QED BY <2>1, <2>4, <2>7, <2>8
<1> QED BY <1>3, <1>4

LEMMA CheckFacts ==
  ASSUME NEW s \in Records, Ordered(s), s.value = NaN \/ Len(s.delays) < MaxDelays
  PROVE  /\ CheckThresholds(s) \in Records /\ Alike(s, CheckThresholds(s))
         /\ Ordered(CheckThresholds(s))
         /\ CheckThresholds(s).alarm # s.alarm
              => CheckThresholds(s).alarm \in Range(CheckThresholds(s).verdicts)
         /\ s.value = NaN => CheckThresholds(s) = s
<1>1. s.value = NaN => CheckThresholds(s) = s
  BY DEF CheckThresholds, Trips, Clears
<1>2. Alike(s, s)
  BY DEF Alike
<1>3. ASSUME s.value # NaN
      PROVE  \/ CheckThresholds(s) = s
             \/ CheckThresholds(s) = Judge(s, TRUE)
             \/ CheckThresholds(s) = Judge(s, FALSE)
  BY DEF CheckThresholds
<1> QED BY <1>1, <1>2, <1>3, JudgeFacts

(* Ordered and Follows look at the delays, the verdicts and the alarm.     *)
LEMMA OrderedSame ==
  ASSUME NEW s, NEW t, Ordered(s), t.delays = s.delays, t.verdicts = s.verdicts
  PROVE  Ordered(t)
BY DEF Ordered

LEMMA PropertyFacts ==
  ASSUME NEW s \in Records, NEW v \in Values, Ordered(s), Shown(s)
  PROVE  LET t == UpdateValueProperty(s, v)
         IN  /\ t \in Records /\ Ordered(t) /\ Shown(t)
             /\ t.power = s.power /\ t.threshold = s.threshold /\ t.alarm = s.alarm
             /\ t.available = s.available /\ t.functional = s.functional
             /\ t.errCount = s.errCount /\ t.overridden = s.overridden
             /\ t.delays = s.delays /\ t.verdicts = s.verdicts
             /\ v = NaN => t.value = NaN
<1>1. PICK t : t = UpdateValueProperty(s, v)
  OBVIOUS
<1>2. CASE RequiresUpdate(s.value, v)
  <2>1. t = [s EXCEPT !.value = v, !.shown = v, !.invalidated = FALSE]
    BY <1>1, <1>2 DEF UpdateValueProperty
  <2>2. /\ t \in Records /\ t.value = v /\ t.shown = v
        /\ t.power = s.power /\ t.threshold = s.threshold /\ t.alarm = s.alarm
        /\ t.available = s.available /\ t.functional = s.functional
        /\ t.errCount = s.errCount /\ t.overridden = s.overridden
        /\ t.delays = s.delays /\ t.verdicts = s.verdicts
    BY <2>1 DEF Records
  <2> QED BY <1>1, <2>2, OrderedSame DEF Shown
<1>3. CASE ~RequiresUpdate(s.value, v)
  <2>1. t = s
    BY <1>1, <1>3 DEF UpdateValueProperty
  <2>2. v = NaN => s.value = NaN
    BY <1>3 DEF RequiresUpdate
  <2> QED BY <1>1, <2>1, <2>2
<1> QED BY <1>2, <1>3

LEMMA BlankFacts ==
  ASSUME NEW s \in Records, Ordered(s), Shown(s)
  PROVE  LET t == Blank(s)
         IN  /\ t \in Records /\ Ordered(t) /\ Shown(t) /\ t.value = NaN
             /\ t.available = FALSE /\ t.alarm = FALSE
             /\ t.power = s.power /\ t.overridden = s.overridden /\ t.delays = s.delays
<1>1. PICK u : u = UpdateValueProperty(s, NaN)
  OBVIOUS
<1>2. NaN \in Values /\ 0 \in 0..ErrorThreshold
  BY Values0 DEF Values
<1>3. /\ u \in Records /\ Ordered(u) /\ Shown(u) /\ u.value = NaN
      /\ u.power = s.power /\ u.overridden = s.overridden /\ u.delays = s.delays
  BY <1>1, <1>2, PropertyFacts
<1>4. PICK t : t = Blank(s)
  OBVIOUS
<1>5. t = [u EXCEPT !.available = FALSE, !.errCount = 0, !.alarm = FALSE]
  BY <1>1, <1>4 DEF Blank
<1>6. /\ t \in Records /\ t.value = u.value /\ t.shown = u.shown /\ t.invalidated = u.invalidated
      /\ t.available = FALSE /\ t.alarm = FALSE /\ t.power = u.power
      /\ t.overridden = u.overridden /\ t.delays = u.delays /\ t.verdicts = u.verdicts
  BY <1>2, <1>3, <1>5 DEF Records
<1>7. Ordered(t) /\ Shown(t)
  BY <1>3, <1>6, OrderedSame DEF Shown
<1> QED BY <1>3, <1>4, <1>6, <1>7

LEMMA ValueOnlyFacts ==
  ASSUME NEW s \in Records, NEW v \in Values, Ordered(s), Shown(s), s.power = TRUE,
         v = NaN \/ Len(s.delays) < MaxDelays
  PROVE  LET t == UpdateValueOnly(s, v)
         IN  /\ t \in Records /\ Ordered(t) /\ Shown(t) /\ Follows(s, t)
             /\ t.power = s.power /\ t.overridden = s.overridden
             /\ v # NaN => t.available = TRUE /\ t.functional = TRUE
             /\ v = NaN => /\ t.value = NaN /\ t.available = s.available
                           /\ t.functional = s.functional /\ t.alarm = s.alarm
                           /\ t.delays = s.delays
<1>1. PICK u : u = UpdateValueProperty(s, v)
  OBVIOUS
<1>2. /\ u \in Records /\ Ordered(u) /\ Shown(u)
      /\ u.power = s.power /\ u.alarm = s.alarm /\ u.available = s.available
      /\ u.functional = s.functional /\ u.overridden = s.overridden
      /\ u.delays = s.delays /\ u.verdicts = s.verdicts
      /\ v = NaN => u.value = NaN
  BY <1>1, PropertyFacts
<1>3. PICK c : c = CheckThresholds(u)
  OBVIOUS
<1>4. /\ c \in Records /\ Alike(u, c) /\ Ordered(c)
      /\ c.alarm # u.alarm => c.alarm \in Range(c.verdicts)
      /\ v = NaN => c = u
  BY <1>2, <1>3, CheckFacts
<1>5. Shown(c)
  BY <1>2, <1>4 DEF Alike, Shown
<1>6. PICK t : t = UpdateValueOnly(s, v)
  OBVIOUS
<1>7. CASE v = NaN
  <2>1. t = c
    BY <1>1, <1>3, <1>6, <1>7 DEF UpdateValueOnly
  <2> QED BY <1>2, <1>4, <1>5, <1>6, <1>7, <2>1 DEF Follows
<1>8. CASE v # NaN
  <2>1. t = [c EXCEPT !.functional = TRUE, !.available = TRUE, !.errCount = 0]
    BY <1>1, <1>3, <1>6, <1>8 DEF UpdateValueOnly
  <2>2. 0 \in 0..ErrorThreshold
    BY Values0
  <2>3. /\ t \in Records /\ t.value = c.value /\ t.shown = c.shown /\ t.invalidated = c.invalidated
        /\ t.available = TRUE /\ t.functional = TRUE /\ t.alarm = c.alarm /\ t.power = c.power
        /\ t.overridden = c.overridden /\ t.delays = c.delays /\ t.verdicts = c.verdicts
    BY <1>4, <2>1, <2>2 DEF Records
  <2>4. Ordered(t) /\ Shown(t)
    BY <1>4, <1>5, <2>3, OrderedSame DEF Shown
  <2>5. Follows(s, t)
    BY <1>2, <1>4, <2>3 DEF Follows
  <2> QED BY <1>2, <1>4, <1>6, <1>8, <2>3, <2>4, <2>5 DEF Alike
<1> QED BY <1>7, <1>8

(* Whatever the sensor was, after an update it is as it should be.         *)
LEMMA UpdateFacts ==
  ASSUME NEW s \in Records, NEW v \in Values, Ordered(s), Shown(s),
         v = NaN \/ Len(s.delays) < MaxDelays
  PROVE  Keeps(s, UpdateValue(s, v)) /\ (~s.power => Quiet(UpdateValue(s, v)))
<1>1. PICK t : t = UpdateValue(s, v)
  OBVIOUS
<1>2. s.power \in BOOLEAN /\ s.overridden \in BOOLEAN
  BY Fields
<1>3. CASE s.overridden = TRUE
  <2>1. t = s
    BY <1>1, <1>3 DEF UpdateValue
  <2> QED BY <1>1, <1>3, <2>1 DEF Keeps, Forgotten, Quiet, Follows
<1>4. CASE s.overridden = FALSE /\ s.power = FALSE
  <2>1. t = Blank(s)
    BY <1>1, <1>4 DEF UpdateValue
  <2>2. /\ t \in Records /\ Ordered(t) /\ Shown(t) /\ t.value = NaN
        /\ t.available = FALSE /\ t.alarm = FALSE
        /\ t.power = s.power /\ t.overridden = s.overridden /\ t.delays = s.delays
    BY <2>1, BlankFacts
  <2> QED BY <1>1, <1>4, <2>2 DEF Keeps, Forgotten, Quiet, Follows
<1>5. CASE s.overridden = FALSE /\ s.power = TRUE
  <2>1. t = UpdateValueOnly(s, v)
    BY <1>1, <1>5 DEF UpdateValue
  <2>2. /\ t \in Records /\ Ordered(t) /\ Shown(t) /\ Follows(s, t)
        /\ t.power = s.power /\ t.overridden = s.overridden
        /\ v # NaN => t.available = TRUE /\ t.functional = TRUE
        /\ v = NaN => /\ t.value = NaN /\ t.available = s.available
                      /\ t.functional = s.functional /\ t.alarm = s.alarm
                      /\ t.delays = s.delays
    BY <1>5, <2>1, ValueOnlyFacts
  <2> QED BY <1>1, <1>5, <2>2 DEF Keeps, Forgotten, Quiet
<1> QED BY <1>2, <1>3, <1>4, <1>5

(* A sensor becomes unavailable only when the host is off.                 *)
LEMMA UnavailableFacts ==
  ASSUME NEW s \in Records, Ordered(s), Shown(s), Forgotten(s), s.power = FALSE
  PROVE  Keeps(s, MarkAvailable(s, FALSE))
<1>1. PICK u : u = [s EXCEPT !.available = FALSE, !.errCount = 0]
  OBVIOUS
<1>2. 0 \in 0..ErrorThreshold /\ NaN \in Values /\ s.available \in BOOLEAN
  BY Values0, Fields DEF Values
<1>3. /\ u \in Records /\ u.value = s.value /\ u.shown = s.shown /\ u.invalidated = s.invalidated
      /\ u.available = FALSE /\ u.functional = s.functional /\ u.alarm = s.alarm
      /\ u.power = s.power /\ u.overridden = s.overridden
      /\ u.delays = s.delays /\ u.verdicts = s.verdicts
  BY <1>1, <1>2 DEF Records
<1>4. Ordered(u) /\ Shown(u)
  BY <1>3, OrderedSame DEF Shown
<1>5. PICK t : t = MarkAvailable(s, FALSE)
  OBVIOUS
<1>6. CASE s.available = TRUE
  <2>1. t = UpdateValue(u, NaN)
    BY <1>1, <1>5, <1>6 DEF MarkAvailable
  <2>2. Keeps(u, t) /\ Quiet(t)
    BY <1>2, <1>3, <1>4, <2>1, UpdateFacts
  <2> QED BY <1>3, <1>5, <2>2 DEF Keeps, Follows
<1>7. CASE s.available = FALSE
  <2>1. t = u
    BY <1>1, <1>5, <1>7 DEF MarkAvailable
  <2> QED BY <1>3, <1>4, <1>5, <1>7, <2>1 DEF Keeps, Forgotten, Quiet, Follows
<1> QED BY <1>2, <1>6, <1>7

LEMMA AvailableFacts ==
  ASSUME NEW s \in Records, Ordered(s), Shown(s), Forgotten(s)
  PROVE  Keeps(s, MarkAvailable(s, TRUE))
<1>1. PICK t : t = MarkAvailable(s, TRUE)
  OBVIOUS
<1>2. 0 \in 0..ErrorThreshold
  BY Values0
<1>3. t = [s EXCEPT !.available = TRUE, !.errCount = 0]
  BY <1>1 DEF MarkAvailable
<1>4. /\ t \in Records /\ t.value = s.value /\ t.shown = s.shown /\ t.invalidated = s.invalidated
      /\ t.available = TRUE /\ t.functional = s.functional /\ t.alarm = s.alarm
      /\ t.power = s.power /\ t.overridden = s.overridden
      /\ t.delays = s.delays /\ t.verdicts = s.verdicts
  BY <1>2, <1>3 DEF Records
<1>5. Ordered(t) /\ Shown(t)
  BY <1>4, OrderedSame DEF Shown
<1>6. Forgotten(t)
  BY <1>4 DEF Forgotten
<1>7. Quiet(t) /\ Follows(s, t)
  BY <1>4 DEF Quiet, Follows
<1> QED BY <1>1, <1>4, <1>5, <1>6, <1>7 DEF Keeps

LEMMA ErrorFacts ==
  ASSUME NEW s \in Records, Ordered(s), Shown(s), Forgotten(s)
  PROVE  Keeps(s, IncrementError(s))
<1>1. PICK t : t = IncrementError(s)
  OBVIOUS
<1>2. s.power \in BOOLEAN /\ s.errCount \in 0..ErrorThreshold /\ ErrorThreshold \in Nat /\ NaN \in Values
  BY Fields, Values0 DEF Values
<1>3. CASE s.power = FALSE
  <2>1. t = MarkAvailable(s, FALSE)
    BY <1>1, <1>3 DEF IncrementError
  <2> QED BY <1>1, <1>3, <2>1, UnavailableFacts
<1>4. CASE s.power = TRUE /\ s.errCount >= ErrorThreshold
  <2>1. t = s
    BY <1>1, <1>4 DEF IncrementError
  <2> QED BY <1>1, <1>4, <2>1 DEF Keeps, Follows
<1>5. CASE s.power = TRUE /\ ~(s.errCount >= ErrorThreshold)
  <2>1. PICK u : u = [s EXCEPT !.errCount = @ + 1]
    OBVIOUS
  <2>2. s.errCount + 1 \in 0..ErrorThreshold
    BY <1>2, <1>5
  <2>3. /\ u \in Records /\ u.value = s.value /\ u.shown = s.shown /\ u.invalidated = s.invalidated
        /\ u.available = s.available /\ u.functional = s.functional /\ u.alarm = s.alarm
        /\ u.power = s.power /\ u.overridden = s.overridden
        /\ u.delays = s.delays /\ u.verdicts = s.verdicts
    BY <2>1, <2>2 DEF Records
  <2>4. Ordered(u) /\ Shown(u) /\ Forgotten(u) /\ (Quiet(s) => Quiet(u))
    BY <2>3, OrderedSame DEF Shown, Forgotten, Quiet
  <2>5. t = IF u.errCount = ErrorThreshold THEN MarkNotFunctional(u) ELSE u
    BY <1>1, <1>5, <2>1 DEF IncrementError
  <2>6. CASE u.errCount = ErrorThreshold
    <3>1. PICK f : f = [u EXCEPT !.functional = FALSE]
      OBVIOUS
    <3>2. /\ f \in Records /\ f.value = u.value /\ f.shown = u.shown /\ f.invalidated = u.invalidated
          /\ f.available = u.available /\ f.alarm = u.alarm
          /\ f.power = u.power /\ f.overridden = u.overridden
          /\ f.delays = u.delays /\ f.verdicts = u.verdicts
      BY <2>3, <3>1 DEF Records
    <3>3. Ordered(f) /\ Shown(f) /\ (Quiet(u) => Quiet(f))
      BY <2>4, <3>2, OrderedSame DEF Shown, Quiet
    <3>4. t = UpdateValue(f, NaN)
      BY <2>5, <2>6, <3>1 DEF MarkNotFunctional
    <3>5. Keeps(f, t)
      BY <1>2, <3>2, <3>3, <3>4, UpdateFacts
    <3> QED BY <1>1, <2>3, <2>4, <3>2, <3>3, <3>5 DEF Keeps, Follows
  <2>7. CASE u.errCount # ErrorThreshold
    BY <1>1, <2>3, <2>4, <2>5, <2>7 DEF Keeps, Follows
  <2> QED BY <2>6, <2>7
<1> QED BY <1>2, <1>3, <1>4, <1>5

(* setupRead while the host is off.                                        *)
LEMMA OffFacts ==
  ASSUME NEW s \in Records, Ordered(s), Shown(s), Forgotten(s), s.power = FALSE
  PROVE  Keeps(s, UpdateValue(MarkAvailable(s, FALSE), NaN))
<1>1. PICK u : u = MarkAvailable(s, FALSE)
  OBVIOUS
<1>2. Keeps(s, u)
  BY <1>1, UnavailableFacts
<1>3. NaN \in Values
  BY DEF Values
<1>4. PICK t : t = UpdateValue(u, NaN)
  OBVIOUS
<1>5. Keeps(u, t)
  BY <1>2, <1>3, <1>4, UpdateFacts DEF Keeps
<1>6. Follows(s, t)
  BY <1>2, <1>5 DEF Keeps, Follows
<1> QED BY <1>1, <1>2, <1>4, <1>5, <1>6 DEF Keeps

-----------------------------------------------------------------------------
(* The sensor under its pollers, timers, the host and the clients          *)

RestOK ==
    /\ kind \in Daemons /\ direction \in Directions
    /\ open \in BOOLEAN /\ reads \in Seq({"ok", "aborted", "closed"})
    /\ waiting \in BOOLEAN /\ waited \in Nat
    /\ host \in BOOLEAN /\ onTimer \in BOOLEAN /\ misled \in BOOLEAN /\ onQueued \in Nat
    /\ scans \in Nat
    /\ input \in Readings \cup {Broken}
    /\ signals \in 0..MaxSignals /\ writes \in 0..MaxWrites

(* Unless the host went off while one was queued, a handler that says it   *)
(* is on meets no alarm that is delayed.                                   *)
NoneDelayed ==
    ~sensor.overridden /\ ~sensor.power /\ onQueued > 0 => sensor.delays = <<>>

SensorInv ==
    /\ sensor \in Records /\ RestOK
    /\ Ordered(sensor) /\ Shown(sensor) /\ Forgotten(sensor)
    /\ ~misled => Quiet(sensor) /\ NoneDelayed

LEMMA SensorTyped == TypeOK <=> sensor \in Records /\ RestOK
BY DEF TypeOK, Records, RestOK

LEMMA Resulting ==
  ASSUME NEW s \in Seq({"ok", "aborted", "closed"}), NEW r \in {"ok", "aborted", "closed"}
  PROVE  /\ Append(s, r) \in Seq({"ok", "aborted", "closed"})
         /\ s # <<>> => Tail(s) \in Seq({"ok", "aborted", "closed"})
OBVIOUS

LEMMA RestStep ==
  ASSUME RestOK, Next
  PROVE  RestOK'
<1>1. MaxSignals \in Nat /\ MaxWrites \in Nat /\ signals \in 0..MaxSignals /\ writes \in 0..MaxWrites
  BY Values0 DEF RestOK
<1>2. ASSUME \/ writes < MaxWrites /\ writes' = writes + 1
             \/ writes' = writes
      PROVE  writes' \in 0..MaxWrites
  BY <1>1, <1>2
<1>3. ASSUME \/ signals < MaxSignals /\ signals' = signals + 1
             \/ signals' = signals
      PROVE  signals' \in 0..MaxSignals
  BY <1>1, <1>3
<1>4. CASE SetupRead
  <2>1. reads' \in Seq({"ok", "aborted", "closed"}) /\ waiting' \in BOOLEAN
    BY <1>4, Resulting DEF SetupRead, SetupReadOf, RestartRead, RestOK
  <2>2. /\ waited' \in Nat
        /\ UNCHANGED <<kind, direction, open, host, onTimer, onQueued, misled, scans, signals, input, writes>>
    BY <1>4 DEF SetupRead, RestOK, config, hostState
  <2> QED BY <2>1, <2>2 DEF RestOK
<1>5. CASE HandleResponse
  <2>1. reads' \in Seq({"ok", "aborted", "closed"})
    BY <1>5, Resulting DEF HandleResponse, RestOK
  <2>2. waiting' \in BOOLEAN /\ open' \in BOOLEAN
    BY <1>5 DEF HandleResponse, RestartRead, RestOK
  <2>3. UNCHANGED <<kind, direction, waited, host, onTimer, onQueued, misled, scans, signals, input, writes>>
    BY <1>5 DEF HandleResponse, config, hostState
  <2> QED BY <2>1, <2>2, <2>3 DEF RestOK
<1>6. CASE WaitExpires
  <2>1. waited' \in Nat
    BY <1>6 DEF WaitExpires, RestOK
  <2>2. /\ waiting' = FALSE
        /\ UNCHANGED <<kind, direction, open, reads, host, onTimer, onQueued, misled, scans, signals,
                       input, writes>>
    BY <1>6 DEF WaitExpires, config, hostState
  <2> QED BY <2>1, <2>2 DEF RestOK
<1>7. CASE DelayExpires
  BY <1>7 DEF DelayExpires, RestOK, config, hostState, loop
<1>8. CASE HostOff
  <2>1. reads' = reads \/ \E n \in 0..Len(reads) :
          reads' = [i \in DOMAIN reads |->
                     IF i > n /\ reads[i] = "ok" THEN "aborted" ELSE reads[i]]
    BY <1>8 DEF HostOff, Deactivate
  <2>2. reads' \in Seq({"ok", "aborted", "closed"})
    <3>1. reads \in Seq({"ok", "aborted", "closed"})
      BY DEF RestOK
    <3>2. ASSUME NEW n \in 0..Len(reads)
          PROVE  [i \in DOMAIN reads |-> IF i > n /\ reads[i] = "ok" THEN "aborted" ELSE reads[i]]
                   \in Seq({"ok", "aborted", "closed"})
      BY <3>1
    <3> QED BY <2>1, <3>1, <3>2
  <2>3. signals' \in 0..MaxSignals
    BY <1>3, <1>8 DEF HostOff
  <2>4. /\ open' \in BOOLEAN /\ waiting' \in BOOLEAN /\ misled' \in BOOLEAN
        /\ host' = FALSE /\ onTimer' = FALSE
        /\ UNCHANGED <<kind, direction, waited, onQueued, scans, input, writes>>
    BY <1>8 DEF HostOff, Deactivate, RestOK, config
  <2> QED BY <2>2, <2>3, <2>4 DEF RestOK
<1>9. CASE HostOn
  BY <1>3, <1>9 DEF HostOn, RestOK, config, loop
<1>10. CASE OnTimerExpires
  <2>1. onQueued' \in Nat
    BY <1>10 DEF OnTimerExpires, RestOK
  <2>2. /\ onTimer' = FALSE
        /\ UNCHANGED <<kind, direction, open, reads, waiting, waited, host, misled, scans, signals,
                       input, writes>>
    BY <1>10 DEF OnTimerExpires, config, loop
  <2> QED BY <2>1, <2>2 DEF RestOK
<1>11. CASE PowerOn
  <2>1. onQueued' \in Nat
    BY <1>11 DEF PowerOn, RestOK
  <2>2. scans' \in Nat
    BY <1>11 DEF PowerOn, RestOK
  <2>3. UNCHANGED <<kind, direction, open, reads, waiting, waited, host, onTimer, misled, signals, input,
                    writes>>
    BY <1>11 DEF PowerOn, config, loop
  <2> QED BY <2>1, <2>2, <2>3 DEF RestOK
<1>12. CASE Activate
  <2>1. reads' \in Seq({"ok", "aborted", "closed"})
    BY <1>12, Resulting DEF Activate, SetupReadOf, RestOK
  <2>2. waiting' \in BOOLEAN /\ open' \in BOOLEAN
    BY <1>12 DEF Activate, SetupReadOf, RestartRead, RestOK
  <2>3. scans' \in Nat
    BY <1>12 DEF Activate, RestOK
  <2>4. UNCHANGED <<kind, direction, waited, host, onTimer, onQueued, misled, signals, input, writes>>
    BY <1>12 DEF Activate, config
  <2> QED BY <2>1, <2>2, <2>3, <2>4 DEF RestOK
<1>13. ASSUME NEW v \in Readings \cup {Broken}, InputChanges(v) PROVE RestOK'
  BY <1>2, <1>13 DEF InputChanges, RestOK, config, loop, hostState
<1>14. ASSUME NEW t \in Thresholds, SetThreshold(t) PROVE RestOK'
  BY <1>2, <1>14 DEF SetThreshold, RestOK, config, loop, hostState
<1>15. ASSUME NEW v \in Readings, Override(v) PROVE RestOK'
  BY <1>2, <1>15 DEF Override, RestOK, config, loop, hostState
<1> QED BY <1>4, <1>5, <1>6, <1>7, <1>8, <1>9, <1>10, <1>11, <1>12, <1>13, <1>14, <1>15 DEF Next

(* An operation that keeps the sensor as it should be keeps the invariant. *)
LEMMA KeptStep ==
  ASSUME SensorInv, RestOK', NEW t, sensor' = t, Keeps(sensor, t),
         UNCHANGED <<kind, direction, misled, onQueued>>
  PROVE  SensorInv' /\ Follows(sensor, t)
<1>1. sensor' \in Records /\ Shown(sensor)' /\ Forgotten(sensor)'
  BY DEF Keeps, Shown, Forgotten
<1>2. Ordered(sensor)'
  BY DEF Keeps, Ordered
<1>3. ASSUME misled = FALSE PROVE Quiet(sensor)' /\ NoneDelayed'
  BY <1>3 DEF SensorInv, Keeps, Quiet, NoneDelayed
<1>4. misled \in BOOLEAN
  BY DEF SensorInv, RestOK
<1> QED BY <1>1, <1>2, <1>3, <1>4 DEF SensorInv, Keeps

(* So does one that leaves the sensor alone.                               *)
LEMMA AsItIs ==
  ASSUME SensorInv PROVE Keeps(sensor, sensor)
BY DEF SensorInv, Keeps, Follows

LEMMA PollStep ==
  ASSUME SensorInv, RestOK', SetupRead \/ HandleResponse \/ WaitExpires
  PROVE  SensorInv' /\ Follows(sensor, sensor')
<1>1. PICK s \in Records : s = sensor
  BY DEF SensorInv
<1>2. s.power \in BOOLEAN /\ s.delays \in Seq(BOOLEAN) /\ Ordered(s) /\ Shown(s) /\ Forgotten(s) /\ Keeps(s, s)
  BY <1>1, Fields, AsItIs DEF SensorInv
<1>3. CASE SetupRead
  <2>1. UNCHANGED <<kind, direction, misled, onQueued>>
    BY <1>3 DEF SetupRead, config, hostState
  <2>2. PICK t : sensor' = t /\ (t = s \/ (s.power = FALSE /\ t = UpdateValue(MarkAvailable(s, FALSE), NaN)))
    BY <1>1, <1>2, <1>3 DEF SetupRead, SetupReadOf
  <2>3. Keeps(s, t)
    BY <1>2, <2>2, OffFacts
  <2> QED BY <1>1, <2>1, <2>2, <2>3, KeptStep
<1>4. CASE HandleResponse
  <2>1. UNCHANGED <<kind, direction, misled, onQueued>>
    BY <1>4 DEF HandleResponse, config, hostState
  <2>2. PICK t : /\ sensor' = t
                 /\ \/ t = s
                    \/ t = IncrementError(s)
                    \/ input # Broken /\ t = UpdateValue(s, input)
    BY <1>1, <1>4 DEF HandleResponse, Response
  <2>3. input # Broken => input \in Values
    BY DEF SensorInv, RestOK, Values
  <2>4. Len(s.delays) < MaxDelays
    BY <1>1, <1>4 DEF HandleResponse
  <2>5. Keeps(s, t)
    BY <1>2, <2>2, <2>3, <2>4, ErrorFacts, UpdateFacts
  <2> QED BY <1>1, <2>1, <2>2, <2>5, KeptStep
<1>5. CASE WaitExpires
  <2>1. UNCHANGED <<sensor, kind, direction, misled, onQueued>>
    BY <1>5 DEF WaitExpires, config, hostState
  <2> QED BY <1>1, <1>2, <2>1, KeptStep
<1> QED BY <1>3, <1>4, <1>5

LEMMA ClientStep ==
  ASSUME SensorInv, RestOK',
         \/ \E v \in Readings \cup {Broken} : InputChanges(v)
         \/ \E t \in Thresholds : SetThreshold(t)
         \/ \E v \in Readings : Override(v)
  PROVE  SensorInv' /\ Follows(sensor, sensor')
<1>1. PICK s \in Records : s = sensor
  BY DEF SensorInv
<1>2. Ordered(s) /\ Shown(s) /\ Forgotten(s) /\ Keeps(s, s) /\ s.delays \in Seq(BOOLEAN)
  BY <1>1, Fields, AsItIs DEF SensorInv
<1>3. UNCHANGED <<kind, direction, misled, onQueued>>
  BY DEF InputChanges, SetThreshold, Override, config, hostState
<1>4. ASSUME NEW v \in Readings \cup {Broken}, InputChanges(v)
      PROVE  SensorInv' /\ Follows(sensor, sensor')
  <2>1. sensor' = sensor
    BY <1>4 DEF InputChanges
  <2> QED BY <1>1, <1>2, <1>3, <2>1, KeptStep
<1>5. ASSUME NEW h \in Thresholds, SetThreshold(h)
      PROVE  SensorInv' /\ Follows(sensor, sensor')
  <2>1. PICK t : t = sensor' /\ t = [s EXCEPT !.threshold = h, !.value = NaN, !.invalidated = TRUE]
    BY <1>1, <1>5 DEF SetThreshold
  <2>2. /\ t \in Records /\ t.value = NaN /\ t.invalidated = TRUE
        /\ t.available = s.available /\ t.functional = s.functional /\ t.alarm = s.alarm
        /\ t.power = s.power /\ t.overridden = s.overridden
        /\ t.delays = s.delays /\ t.verdicts = s.verdicts
    BY <1>5, <2>1 DEF Records, Values
  <2>3. Ordered(t) /\ Shown(t) /\ Forgotten(t) /\ (Quiet(s) => Quiet(t)) /\ Follows(s, t)
    BY <1>2, <2>2, OrderedSame DEF Shown, Forgotten, Quiet, Follows
  <2>4. Keeps(s, t)
    BY <2>2, <2>3 DEF Keeps
  <2> QED BY <1>1, <1>3, <2>1, <2>4, KeptStep
<1>6. ASSUME NEW v \in Readings, Override(v)
      PROVE  SensorInv' /\ Follows(sensor, sensor')
  <2>1. PICK u : u = [s EXCEPT !.value = v, !.shown = v, !.invalidated = FALSE, !.overridden = TRUE]
    OBVIOUS
  <2>2. /\ u \in Records /\ u.value = v /\ u.shown = v /\ u.overridden = TRUE /\ u.alarm = s.alarm
        /\ u.delays = s.delays /\ u.verdicts = s.verdicts
    BY <1>6, <2>1 DEF Records, Values
  <2>3. Ordered(u) /\ Len(u.delays) < MaxDelays
    BY <1>1, <1>2, <1>6, <2>2, OrderedSame DEF Override
  <2>4. PICK t : t = CheckThresholds(u) /\ t = sensor'
    BY <1>1, <1>6, <2>1 DEF Override
  <2>5. /\ t \in Records /\ Alike(u, t) /\ Ordered(t)
        /\ t.alarm # u.alarm => t.alarm \in Range(t.verdicts)
    BY <2>2, <2>3, <2>4, CheckFacts
  <2>6. Shown(t) /\ t.overridden = TRUE /\ Follows(s, t)
    BY <2>2, <2>5 DEF Alike, Shown, Follows
  <2>7. sensor' \in Records /\ Shown(sensor)' /\ Forgotten(sensor)' /\ Quiet(sensor)' /\ NoneDelayed'
    BY <2>4, <2>5, <2>6 DEF Shown, Forgotten, Quiet, NoneDelayed
  <2>8. Ordered(sensor)'
    BY <1>3, <2>4, <2>5 DEF Ordered
  <2> QED BY <1>1, <2>4, <2>6, <2>7, <2>8 DEF SensorInv
<1> QED BY <1>4, <1>5, <1>6

(* A delayed alarm of a sensor that is on; it is available, or misled.     *)
LEMMA DelayStep ==
  ASSUME SensorInv, RestOK', DelayExpires
  PROVE  SensorInv' /\ Follows(sensor, sensor')
<1>1. PICK s \in Records : s = sensor
  BY DEF SensorInv
<1>2. PICK d \in Seq(BOOLEAN), v \in Seq(BOOLEAN) : d = s.delays /\ v = s.verdicts
  BY Fields
<1>3. /\ Ordered(s) /\ Shown(s) /\ Forgotten(s) /\ d # <<>> /\ Len(d) <= MaxDelays /\ MaxDelays \in Nat
      /\ s.power \in BOOLEAN
  BY <1>1, <1>2, Fields, Values0 DEF SensorInv, DelayExpires
<1>4. UNCHANGED <<kind, direction, misled, onQueued>>
  BY DEF DelayExpires, config, hostState
<1>5. PICK a \in BOOLEAN, e \in Seq(BOOLEAN) : a = Head(d) /\ e = Tail(d) /\ Len(e) <= MaxDelays
  <2>1. Head(d) \in BOOLEAN /\ Tail(d) \in Seq(BOOLEAN) /\ Len(Tail(d)) <= MaxDelays
    BY <1>3
  <2> QED BY <2>1
<1>6. PICK w \in Seq(BOOLEAN) : w = Follow(v, a) /\ a \in Range(w) /\ Embeds(e, w) /\ Embeds(e, v)
  <2>1. Embeds(d, v)
    BY <1>2, <1>3 DEF Ordered
  <2> QED BY <1>3, <1>5, <2>1, EmbedsTail
<1>7. e \in BoundedSeq(BOOLEAN, MaxDelays)
  BY <1>3, <1>5, Bounded
<1>8. PICK t : t = sensor' /\ t = [DelayedAlarm(s, a) EXCEPT !.delays = e]
  <2>1. PICK x : x = DelayedAlarm(s, a)
    OBVIOUS
  <2>2. x.delays = d
    <3>1. x = s \/ x = [s EXCEPT !.alarm = a, !.verdicts = Follow(v, a)]
      BY <1>2, <2>1 DEF DelayedAlarm
    <3>2. DOMAIN s = DOMAIN x /\ x.delays = s.delays
      BY <3>1 DEF Records
    <3> QED BY <1>2, <3>2
  <2>3. sensor' = [DelayedAlarm(s, Head(d)) EXCEPT !.delays = Tail(@)]
    BY <1>1, <1>2 DEF DelayExpires
  <2>4. sensor' = [x EXCEPT !.delays = Tail(@)]
    BY <1>5, <2>1, <2>3
  <2>5. sensor' = [x EXCEPT !.delays = e]
    BY <1>5, <2>2, <2>4
  <2> QED BY <2>1, <2>5
<1>9. /\ t \in Records /\ t.value = s.value /\ t.shown = s.shown /\ t.invalidated = s.invalidated
      /\ t.available = s.available /\ t.functional = s.functional
      /\ t.power = s.power /\ t.overridden = s.overridden /\ t.delays = e
      /\ \/ s.power = TRUE /\ t.alarm = a /\ t.verdicts = w
         \/ s.power = FALSE /\ t.alarm = s.alarm /\ t.verdicts = v
  <2>1. CASE s.power = TRUE
    <3>1. t = [[s EXCEPT !.alarm = a, !.verdicts = w] EXCEPT !.delays = e]
      BY <1>2, <1>6, <1>8, <2>1 DEF DelayedAlarm, Records
    <3> QED BY <1>7, <2>1, <3>1 DEF Records
  <2>2. CASE s.power = FALSE
    <3>1. t = [s EXCEPT !.delays = e]
      BY <1>8, <2>2 DEF DelayedAlarm
    <3> QED BY <1>2, <1>7, <2>2, <3>1 DEF Records
  <2> QED BY <1>3, <2>1, <2>2
<1>10. Ordered(t)
  BY <1>2, <1>3, <1>6, <1>9 DEF Ordered
<1>11. Shown(t) /\ Forgotten(t) /\ Follows(s, t)
  BY <1>3, <1>6, <1>9 DEF Shown, Forgotten, Follows
<1>12. ASSUME misled = FALSE PROVE Quiet(t) /\ (~t.overridden /\ ~t.power => ~(onQueued > 0))
  <2>1. Quiet(s) /\ (~s.overridden /\ ~s.power /\ onQueued > 0 => s.delays = <<>>)
    BY <1>1, <1>12 DEF SensorInv, NoneDelayed
  <2> QED BY <1>2, <1>3, <1>9, <2>1 DEF Quiet
<1>13. Ordered(sensor)'
  BY <1>4, <1>8, <1>10 DEF Ordered
<1>14. sensor' \in Records /\ Shown(sensor)' /\ Forgotten(sensor)'
  BY <1>8, <1>9, <1>11 DEF Shown, Forgotten
<1>15. ASSUME misled' = FALSE PROVE Quiet(sensor)' /\ NoneDelayed'
  BY <1>4, <1>8, <1>12, <1>15 DEF Quiet, NoneDelayed
<1>16. misled' \in BOOLEAN
  BY DEF RestOK
<1> QED BY <1>1, <1>8, <1>11, <1>13, <1>14, <1>15, <1>16 DEF SensorInv

(* A wait that ends while the host counts as off: it outlasted all delays. *)
LEMMA WaitStep ==
  ASSUME SensorInv, RestOK', HostOn \/ OnTimerExpires
  PROVE  SensorInv' /\ Follows(sensor, sensor')
<1>1. UNCHANGED <<sensor, kind, direction, misled>>
  BY DEF HostOn, OnTimerExpires, config
<1>2. ASSUME misled = FALSE PROVE NoneDelayed'
  BY <1>2 DEF SensorInv, NoneDelayed, HostOn, OnTimerExpires
<1>3. Ordered(sensor)' /\ Shown(sensor)' /\ Forgotten(sensor)' /\ (Quiet(sensor) => Quiet(sensor)')
  BY <1>1 DEF SensorInv, Ordered, Shown, Forgotten, Quiet
<1>4. misled \in BOOLEAN
  BY DEF SensorInv, RestOK
<1> QED BY <1>1, <1>2, <1>3, <1>4 DEF SensorInv, Follows

LEMMA PowerStep ==
  ASSUME SensorInv, RestOK', PowerOn
  PROVE  SensorInv' /\ Follows(sensor, sensor')
<1>1. PICK s \in Records : s = sensor
  BY DEF SensorInv
<1>2. PICK t : t = sensor' /\ t = [s EXCEPT !.power = TRUE]
  BY <1>1 DEF PowerOn, On
<1>3. UNCHANGED <<kind, direction, misled>> /\ onQueued > 0
  BY DEF PowerOn, config
<1>4. /\ t \in Records /\ t.value = s.value /\ t.shown = s.shown /\ t.invalidated = s.invalidated
      /\ t.available = s.available /\ t.functional = s.functional /\ t.alarm = s.alarm
      /\ t.power = TRUE /\ t.overridden = s.overridden
      /\ t.delays = s.delays /\ t.verdicts = s.verdicts
  BY <1>2 DEF Records
<1>5. Ordered(t) /\ Shown(t) /\ Forgotten(t) /\ Follows(s, t)
  BY <1>1, <1>4, OrderedSame DEF SensorInv, Shown, Forgotten, Follows
<1>6. ASSUME misled = FALSE PROVE Quiet(t)
  <2>1. Quiet(s) /\ (~s.overridden /\ ~s.power => s.delays = <<>>)
    BY <1>1, <1>3, <1>6 DEF SensorInv, NoneDelayed
  <2> QED BY <1>4, <2>1 DEF Quiet
<1>7. Ordered(sensor)' /\ Shown(sensor)' /\ Forgotten(sensor)' /\ NoneDelayed'
  BY <1>2, <1>3, <1>4, <1>5 DEF Ordered, Shown, Forgotten, NoneDelayed
<1>8. ASSUME misled = FALSE PROVE Quiet(sensor)'
  BY <1>2, <1>6, <1>8 DEF Quiet
<1>9. misled \in BOOLEAN
  BY DEF SensorInv, RestOK
<1> QED BY <1>1, <1>2, <1>3, <1>4, <1>5, <1>7, <1>8, <1>9 DEF SensorInv

LEMMA ActivateStep ==
  ASSUME SensorInv, RestOK', Activate
  PROVE  SensorInv' /\ Follows(sensor, sensor')
<1>1. PICK s \in Records : s = sensor
  BY DEF SensorInv
<1>2. UNCHANGED <<kind, direction, misled, onQueued>> /\ Keeps(s, s)
  BY <1>1, AsItIs DEF Activate, config
<1>3. PICK u : u = MarkAvailable(s, TRUE)
  OBVIOUS
<1>4. Keeps(s, u) /\ u.power \in BOOLEAN
  <2>1. Keeps(s, u)
    BY <1>1, <1>3, AvailableFacts DEF SensorInv
  <2> QED BY <2>1, Fields DEF Keeps
<1>5. PICK t : /\ t = sensor'
               /\ \/ t = s
                  \/ t = u
                  \/ u.power = FALSE /\ t = UpdateValue(MarkAvailable(u, FALSE), NaN)
  BY <1>1, <1>3, <1>4 DEF Activate, SetupReadOf
<1>6. CASE t = s
  BY <1>1, <1>2, <1>5, <1>6, KeptStep
<1>7. CASE t = u
  BY <1>1, <1>2, <1>4, <1>5, <1>7, KeptStep
<1>8. CASE u.power = FALSE /\ t = UpdateValue(MarkAvailable(u, FALSE), NaN)
  <2>1. Keeps(u, t)
    BY <1>4, <1>8, OffFacts DEF Keeps
  <2>2. Follows(s, t)
    BY <1>4, <1>8, <2>1 DEF Keeps, Follows
  <2>3. Keeps(s, t)
    BY <1>4, <2>1, <2>2 DEF Keeps
  <2> QED BY <1>1, <1>2, <1>5, <2>3, KeptStep
<1> QED BY <1>5, <1>6, <1>7, <1>8

LEMMA OffStep ==
  ASSUME SensorInv, RestOK', HostOff
  PROVE  SensorInv' /\ Follows(sensor, sensor')
<1>1. PICK s \in Records : s = sensor
  BY DEF SensorInv
<1>2. PICK u : u = [s EXCEPT !.power = FALSE]
  OBVIOUS
<1>3. /\ u \in Records /\ u.value = s.value /\ u.shown = s.shown /\ u.invalidated = s.invalidated
      /\ u.available = s.available /\ u.functional = s.functional /\ u.alarm = s.alarm
      /\ u.power = FALSE /\ u.overridden = s.overridden
      /\ u.delays = s.delays /\ u.verdicts = s.verdicts
  BY <1>2 DEF Records
<1>4. Ordered(u) /\ Shown(u) /\ Forgotten(u) /\ (Quiet(s) => Quiet(u))
  BY <1>1, <1>3, OrderedSame DEF SensorInv, Shown, Forgotten, Quiet
<1>5. PICK t : t = sensor' /\ (t = u \/ t = MarkAvailable(u, FALSE))
  BY <1>1, <1>2 DEF HostOff, Deactivate, Off
<1>6. Keeps(u, t)
  <2>1. Keeps(u, u)
    BY <1>3, <1>4 DEF Keeps, Follows
  <2> QED BY <1>3, <1>4, <1>5, <2>1, UnavailableFacts
<1>7. UNCHANGED <<kind, direction, onQueued>> /\ misled' = (misled \/ onQueued > 0) /\ onQueued \in Nat
  BY DEF SensorInv, RestOK, HostOff, config
<1>8. ASSUME misled' = FALSE PROVE Quiet(t) /\ onQueued = 0
  <2>1. misled = FALSE /\ ~(onQueued > 0)
    <3>1. misled \in BOOLEAN
      BY DEF SensorInv, RestOK
    <3>2. ~(misled \/ onQueued > 0)
      BY <1>7, <1>8, Zenon
    <3> QED BY <3>1, <3>2, Zenon
  <2>2. onQueued = 0
    BY <1>7, <2>1
  <2>3. Quiet(s)
    BY <1>1, <2>1 DEF SensorInv
  <2>4. Quiet(t)
    BY <1>4, <1>6, <2>3 DEF Keeps
  <2> QED BY <2>2, <2>4
<1>9. Follows(s, t)
  BY <1>3, <1>6 DEF Keeps, Follows
<1>10. sensor' \in Records /\ Ordered(sensor)' /\ Shown(sensor)' /\ Forgotten(sensor)'
  BY <1>5, <1>6, <1>7 DEF Keeps, Ordered, Shown, Forgotten
<1>11. ASSUME misled' = FALSE PROVE Quiet(sensor)' /\ NoneDelayed'
  <2>1. Quiet(sensor)'
    BY <1>5, <1>8, <1>11 DEF Quiet
  <2>2. ~(onQueued' > 0)
    BY <1>7, <1>8, <1>11
  <2> QED BY <2>1, <2>2 DEF NoneDelayed
<1>12. misled' \in BOOLEAN
  BY DEF RestOK
<1> QED BY <1>1, <1>5, <1>9, <1>10, <1>11, <1>12 DEF SensorInv

LEMMA StillStep ==
  ASSUME SensorInv, UNCHANGED vars
  PROVE  SensorInv' /\ Follows(sensor, sensor')
<1>1. RestOK'
  BY DEF SensorInv, RestOK, vars
<1>2. UNCHANGED <<sensor, kind, direction, misled, onQueued>>
  BY DEF vars
<1> QED BY <1>1, <1>2, AsItIs, KeptStep

LEMMA SensorStep ==
  ASSUME SensorInv, [SensorsNext]_allVars
  PROVE  SensorInv' /\ Follows(sensor, sensor')
<1>1. CASE Next
  <2>1. RestOK'
    BY <1>1, RestStep DEF SensorInv
  <2>2. CASE SetupRead \/ HandleResponse \/ WaitExpires
    BY <2>1, <2>2, PollStep
  <2>3. CASE \/ \E v \in Readings \cup {Broken} : InputChanges(v)
             \/ \E t \in Thresholds : SetThreshold(t)
             \/ \E v \in Readings : Override(v)
    BY <2>1, <2>3, ClientStep
  <2>4. CASE DelayExpires
    BY <2>1, <2>4, DelayStep
  <2>5. CASE HostOff
    BY <2>1, <2>5, OffStep
  <2>6. CASE HostOn \/ OnTimerExpires
    BY <2>1, <2>6, WaitStep
  <2>7. CASE PowerOn
    BY <2>1, <2>7, PowerStep
  <2>8. CASE Activate
    BY <2>1, <2>8, ActivateStep
  <2> QED BY <1>1, <2>2, <2>3, <2>4, <2>5, <2>6, <2>7, <2>8 DEF Next
<1>2. CASE UNCHANGED vars
  BY <1>2, StillStep
<1> QED BY <1>1, <1>2 DEF SensorsNext, allVars

LEMMA SensorStart ==
  ASSUME SensorsInit
  PROVE  SensorInv
<1>1. PICK k \in Daemons, d \in Directions : Start(k, d)
  BY DEF SensorsInit, Init, SensorIdle, Daemons, Directions
<1>2. RestOK
  <2>1. <<>> \in Seq({"ok", "aborted", "closed"}) /\ <<"ok">> \in Seq({"ok", "aborted", "closed"})
    OBVIOUS
  <2>2. open \in BOOLEAN /\ reads \in Seq({"ok", "aborted", "closed"}) /\ input \in Readings \cup {Broken}
    BY <2>1 DEF SensorsInit, Init, SensorIdle
  <2>3. signals \in 0..MaxSignals /\ writes \in 0..MaxWrites
    BY Values0 DEF SensorsInit, Init, SensorIdle
  <2> QED BY <1>1, <2>2, <2>3 DEF RestOK, Start
<1>3. /\ sensor.value = NaN /\ sensor.shown = NaN /\ sensor.alarm = FALSE
      /\ sensor.available = TRUE /\ sensor.functional = TRUE /\ sensor.power = TRUE
      /\ sensor.delays = <<>>
      /\ sensor \in Records
  <2>1. <<>> \in BoundedSeq(BOOLEAN, MaxDelays) /\ <<>> \in Seq(BOOLEAN)
    <3>1. <<>> \in Seq(BOOLEAN) /\ Len(<<>>) = 0 /\ MaxDelays \in Nat
      BY Values0
    <3>2. \A s : s \in BoundedSeq(BOOLEAN, MaxDelays) <=> s \in Seq(BOOLEAN) /\ Len(s) <= MaxDelays
      BY <3>1, Bounded
    <3>3. Len(<<>>) <= MaxDelays
      BY <3>1
    <3> QED BY <3>1, <3>2, <3>3
  <2>2. 0 \in 0..ErrorThreshold /\ NaN \in Values
    BY Values0 DEF Values
  <2>3. \E t \in Thresholds :
          sensor = [power |-> TRUE, value |-> NaN, shown |-> NaN, threshold |-> t,
                    alarm |-> FALSE, available |-> TRUE, functional |-> TRUE, errCount |-> 0,
                    overridden |-> FALSE, invalidated |-> FALSE,
                    delays |-> <<>>, verdicts |-> <<>>]
    BY <1>1 DEF Start
  <2> QED BY <2>1, <2>2, <2>3 DEF Records
<1>4. Embeds(sensor.delays, sensor.verdicts)
  BY <1>3, Fields, EmbedsNone
<1> QED BY <1>2, <1>3, <1>4 DEF SensorInv, Ordered, Shown, Forgotten, Quiet, NoneDelayed

(* The invariant the next two theorems follow from: what the sensor's      *)
(* record keeps to under its pollers, timers, the host and the clients.    *)
THEOREM SensorInvariant == SensorsSpec => []SensorInv
<1>1. SensorsInit => SensorInv
  BY SensorStart
<1>2. SensorInv /\ [SensorsNext]_allVars => SensorInv'
  BY SensorStep
<1> QED BY <1>1, <1>2, PTL DEF SensorsSpec

(***************************************************************************)
(* However the handlers of its reads, timers and the host's signals        *)
(* interleave, a sensor that is not available or not functional shows no   *)
(* number but one that a client's threshold made it forget, and raises no  *)
(* alarm while it is not available (Sensor::updateValue, markAvailable and *)
(* markFunctional of sensor.hpp), whatever the readings, the threshold and *)
(* the number of delayed alarms.                                           *)
(***************************************************************************)
THEOREM UnavailableShowsNothing == SensorsSpec => []UnavailableIsBlank
<1>1. SensorInv => UnavailableIsBlank
  <2> SUFFICES ASSUME SensorInv PROVE UnavailableIsBlank
    OBVIOUS
  <2>1. Shown(sensor) /\ Forgotten(sensor) /\ (~misled => Quiet(sensor))
    BY DEF SensorInv
  <2> QED BY <2>1 DEF UnavailableIsBlank, Shown, Forgotten, Quiet
<1> QED BY <1>1, SensorInvariant, PTL

(***************************************************************************)
(* Delayed or not, an alarm is raised and ended in the order of the        *)
(* verdicts on the readings: the handlers of ThresholdTimer::startTimer    *)
(* never bring back one that a later verdict overtook.                     *)
(***************************************************************************)
THEOREM AlarmsFollow == SensorsSpec => AlarmsInOrder
<1>1. SensorInv /\ [SensorsNext]_allVars =>
        [sensor'.alarm # sensor.alarm =>
            sensor'.alarm \in Range(sensor'.verdicts) \/ ~sensor'.power]_vars
  <2> SUFFICES ASSUME SensorInv, [SensorsNext]_allVars
               PROVE  Follows(sensor, sensor')
    BY DEF Follows
  <2> QED BY SensorStep
<1> QED BY <1>1, SensorInvariant, PTL DEF SensorsSpec, AlarmsInOrder

-----------------------------------------------------------------------------
(* The types, with those of the events of a power supply                   *)

EventTypes ==
    /\ value \in [Paths -> {0, 1}]
    /\ asserts \in [Events -> SUBSET Paths] /\ assertState \in [Events -> BOOLEAN]
    /\ combineEvent \in SUBSET Events /\ functional \in BOOLEAN

LEMMA Supply0 ==
  /\ EventOfPath \in [Paths -> Events]
  /\ WarnAfter \in Nat \ {0} /\ MaxChanges \in Nat
BY SensorsAssumption DEF Psu!EventsAssumption

LEMMA AssertStep ==
  ASSUME EventTypes, NEW p \in Paths, Psu!Assert(p) PROVE EventTypes'
<1>1. EventOfPath[p] \in Events
  BY Supply0
<1>2. value' \in [Paths -> {0, 1}] /\ asserts' \in [Events -> SUBSET Paths]
  BY <1>1 DEF EventTypes, Psu!Assert
<1>3. assertState' \in [Events -> BOOLEAN]
  <2>1. assertState' = [assertState EXCEPT ![EventOfPath[p]] = TRUE] \/ assertState' = assertState
    BY DEF Psu!Assert
  <2> QED BY <1>1, <2>1 DEF EventTypes
<1>4. combineEvent' \in SUBSET Events
  BY <1>1 DEF EventTypes, Psu!Assert
<1>5. functional' \in BOOLEAN
  BY DEF EventTypes, Psu!Assert
<1> QED BY <1>2, <1>3, <1>4, <1>5 DEF EventTypes

LEMMA DeassertStep ==
  ASSUME EventTypes, NEW p \in Paths, Psu!Withdraw(p) \/ Psu!Deassert(p) PROVE EventTypes'
<1>1. EventOfPath[p] \in Events
  BY Supply0
<1>2. CASE Psu!Withdraw(p)
  BY <1>1, <1>2 DEF EventTypes, Psu!Withdraw
<1>3. CASE Psu!Deassert(p)
  <2>1. value' \in [Paths -> {0, 1}] /\ asserts' = asserts
    BY <1>3 DEF EventTypes, Psu!Deassert
  <2>2. assertState' \in [Events -> BOOLEAN]
    <3>1. assertState' = [assertState EXCEPT ![EventOfPath[p]] = FALSE] \/ assertState' = assertState
      BY <1>3 DEF Psu!Deassert, Psu!DeassertEvent
    <3> QED BY <1>1, <3>1 DEF EventTypes
  <2>3. combineEvent' \in SUBSET Events
    BY <1>3 DEF EventTypes, Psu!Deassert, Psu!DeassertEvent
  <2>4. functional' \in BOOLEAN
    BY <1>3 DEF EventTypes, Psu!Deassert, Psu!DeassertEvent
  <2> QED BY <2>1, <2>2, <2>3, <2>4 DEF EventTypes
<1> QED BY <1>2, <1>3

LEMMA SupplyStep ==
  ASSUME Psu!TypeOK, Psu!Next
  PROVE  Psu!TypeOK'
<1>1. EventTypes
  BY DEF Psu!TypeOK, Psu!Contents, EventTypes
<1>2. SUFFICES /\ EventTypes'
               /\ errCount' \in [Paths -> 0..WarnAfter + 1]
               /\ reading' \in SUBSET Paths
               /\ file' \in [Paths -> {0, 1, 2}] /\ power' \in BOOLEAN
               /\ changes' \in 0..MaxChanges
  BY DEF EventTypes, Psu!TypeOK, Psu!Contents, Psu!Unreadable
<1>3. ASSUME UNCHANGED Psu!event PROVE EventTypes'
  BY <1>1, <1>3 DEF EventTypes, Psu!event
<1>4. ASSUME NEW p \in Paths, NEW v, Psu!UpdateValue(p, v) PROVE EventTypes'
  BY <1>1, <1>3, <1>4, AssertStep, DeassertStep DEF Psu!UpdateValue
<1>5. /\ errCount \in [Paths -> 0..WarnAfter + 1] /\ reading \in SUBSET Paths
      /\ file \in [Paths -> {0, 1, 2}] /\ power \in BOOLEAN /\ changes \in 0..MaxChanges
  BY DEF Psu!TypeOK, Psu!Contents, Psu!Unreadable
<1>6. CASE \E p \in Paths : Psu!SetupRead(p)
  <2>1. PICK p \in Paths : Psu!SetupRead(p)
    BY <1>6
  <2>2. EventTypes'
    BY <1>3, <1>4, <2>1 DEF Psu!SetupRead
  <2>3. reading' \in SUBSET Paths /\ UNCHANGED <<errCount, file, power, changes>>
    BY <1>5, <2>1 DEF Psu!SetupRead
  <2> QED BY <1>5, <2>2, <2>3
<1>7. CASE \E p \in Paths : Psu!HandleResponse(p)
  <2>1. PICK p \in Paths : Psu!HandleResponse(p)
    BY <1>7
  <2>2. EventTypes'
    BY <1>3, <1>4, <2>1 DEF Psu!HandleResponse
  <2>3. reading' \in SUBSET Paths /\ UNCHANGED <<file, power, changes>>
    BY <1>5, <2>1 DEF Psu!HandleResponse
  <2>4. PICK n \in 0..WarnAfter + 1 : errCount' = [errCount EXCEPT ![p] = n]
    <3>1. errCount[p] \in 0..WarnAfter + 1 /\ WarnAfter \in Nat
      BY <1>5, Supply0
    <3>2. CASE file[p] # Psu!Unreadable
      <4>1. 0 \in 0..WarnAfter + 1
        BY <3>1
      <4> QED BY <2>1, <3>2, <4>1 DEF Psu!HandleResponse
    <3>3. CASE file[p] = Psu!Unreadable /\ errCount[p] + 1 < WarnAfter
      <4>1. errCount[p] + 1 \in 0..WarnAfter + 1
        BY <3>1, <3>3
      <4> QED BY <2>1, <3>3, <4>1 DEF Psu!HandleResponse
    <3>4. CASE file[p] = Psu!Unreadable /\ ~(errCount[p] + 1 < WarnAfter)
      <4>1. WarnAfter + 1 \in 0..WarnAfter + 1
        BY <3>1
      <4> QED BY <2>1, <3>4, <4>1 DEF Psu!HandleResponse
    <3> QED BY <3>2, <3>3, <3>4
  <2>5. errCount' \in [Paths -> 0..WarnAfter + 1]
    BY <1>5, <2>4
  <2> QED BY <1>5, <2>2, <2>3, <2>5
<1>8. ASSUME Psu!Change PROVE changes' \in 0..MaxChanges
  BY <1>5, <1>8, Supply0 DEF Psu!Change
<1>9. CASE \E p \in Paths, v \in Psu!Contents \cup {Psu!Unreadable} : Psu!FileChanges(p, v)
  <2>1. PICK p \in Paths, v \in {0, 1, 2} : Psu!FileChanges(p, v)
    BY <1>9 DEF Psu!Contents, Psu!Unreadable
  <2>2. /\ file' \in [Paths -> {0, 1, 2}] /\ UNCHANGED Psu!event
        /\ UNCHANGED <<errCount, reading, power>> /\ Psu!Change
    BY <1>5, <2>1 DEF Psu!FileChanges
  <2> QED BY <1>3, <1>5, <1>8, <2>2
<1>10. CASE Psu!PowerChanges
  <2>1. /\ power' \in BOOLEAN /\ UNCHANGED Psu!event
        /\ UNCHANGED <<errCount, reading, file>> /\ Psu!Change
    BY <1>5, <1>10 DEF Psu!PowerChanges
  <2> QED BY <1>3, <1>5, <1>8, <2>1
<1> QED BY <1>6, <1>7, <1>9, <1>10 DEF Psu!Next

(***************************************************************************)
(* Every variable of the polled sensor and of the power supply's events    *)
(* keeps its type: neither the sensor's errors (ErrorThreshold of          *)
(* incrementError) nor those of an alarm file (warnAfterErrorCount) nor    *)
(* the delayed alarms exceed their bounds.                                 *)
(***************************************************************************)
THEOREM SensorsTypeCorrect == SensorsSpec => []SensorsTypeOK
<1>1. SensorsInit => Psu!TypeOK
  <2> SUFFICES ASSUME SensorsInit PROVE Psu!TypeOK
    OBVIOUS
  <2>1. /\ Psu!Start /\ file = [p \in Paths |-> 0] /\ power \in BOOLEAN
        /\ changes \in 0..MaxChanges
    <3>1. 0 \in 0..MaxChanges /\ MaxChanges \in 0..MaxChanges
      BY Supply0
    <3>2. /\ Psu!Start /\ file = [p \in Paths |-> 0] /\ power \in BOOLEAN
          /\ changes = 0 \/ changes = MaxChanges
      BY DEF SensorsInit, PsuIdle, Psu!Init
    <3> QED BY <3>1, <3>2
  <2>2. 0 \in 0..WarnAfter + 1
    BY Supply0
  <2> QED BY <2>1, <2>2 DEF Psu!Start, Psu!TypeOK, Psu!Contents, Psu!Unreadable
<1>2. Psu!TypeOK /\ [SensorsNext]_allVars => Psu!TypeOK'
  <2> SUFFICES ASSUME Psu!TypeOK, [SensorsNext]_allVars PROVE Psu!TypeOK'
    OBVIOUS
  <2>1. CASE UNCHANGED psuVars
    BY <2>1 DEF Psu!TypeOK, psuVars
  <2>2. CASE Psu!Next
    BY <2>2, SupplyStep
  <2> QED BY <2>1, <2>2 DEF SensorsNext, allVars
<1>3. SensorInv /\ Psu!TypeOK => SensorsTypeOK
  BY SensorTyped DEF SensorInv, SensorsTypeOK
<1> QED BY <1>1, <1>2, <1>3, SensorInvariant, PTL DEF SensorsSpec
=============================================================================
