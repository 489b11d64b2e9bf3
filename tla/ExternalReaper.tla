--------------------------- MODULE ExternalReaper ---------------------------
(***************************************************************************)
(* External sensors (src/src/external): values written over D-Bus, each    *)
(* good for the Timeout of its sensor.  One timer, the reaper, serves all  *)
(* of them: it is set to the earliest expiry at every write and whenever   *)
(* it expires, whatever wait was pending or had just ended.                *)
(***************************************************************************)
EXTENDS Naturals, FiniteSets, FiniteSetsExt

CONSTANTS
    WriteTimeout,       \* ticks that a value of each sensor is good for, 0 for ever
    MaxExternalWrites   \* bound: writes, and sensors replaced

ReaperAssumption ==
    WriteTimeout \in [DOMAIN WriteTimeout -> Nat] /\ MaxExternalWrites \in Nat

VARIABLES
    writeAlive,         \* sensors written, and not invalidated since
    writeAge,           \* ticks since writeLast, counted up to the timeout
    externalShown,      \* "finite" or "nan"
    reaperDue,          \* ticks until the wait that is pending ends, if there is one
    reaperQueued,       \* handlers of waits that ended
    reapedEarly,        \* history: sensors invalidated before their time
    externalWrites

reaperVars == <<writeAlive, writeAge, externalShown, reaperDue, reaperQueued, reapedEarly,
                externalWrites>>

Sensors == DOMAIN WriteTimeout

Start ==
    /\ writeAlive = {} /\ writeAge = [s \in Sensors |-> 0]
    /\ externalShown = [s \in Sensors |-> "nan"]
    /\ reaperDue = {} /\ reaperQueued = 0 /\ reapedEarly = {} /\ externalWrites = 0

Init == Start

Event == externalWrites < MaxExternalWrites /\ externalWrites' = externalWrites + 1

-----------------------------------------------------------------------------
Perishable == {s \in Sensors : WriteTimeout[s] > 0}
Stale(written, age) == {s \in written \cap Perishable : age[s] >= WriteTimeout[s]}

RemainingWhole(s, age) == WriteTimeout[s]

Remaining(s, age) == WriteTimeout[s] - age[s]

\* updateReaper, with these sensors alive, of these ages, showing these values.
UpdateReaper(written, age, values) ==
    LET stale == Stale(written, age)
        left == (written \ stale) \cap Perishable
    IN
    /\ writeAlive' = written \ stale
    /\ externalShown' = [s \in Sensors |-> IF s \in stale THEN "nan" ELSE values[s]]
    /\ reapedEarly' = reapedEarly \cup {s \in stale : age[s] < WriteTimeout[s]}
    /\ reaperDue' = IF left = {} THEN reaperDue
                    ELSE {Min({Remaining(s, age) : s \in left})}

\* setSensorValue and externalSetTrigger: a client writes a value, NaN perhaps.
Write(s, v) ==
    /\ Event
    /\ writeAge' = [writeAge EXCEPT ![s] = 0]
    /\ UpdateReaper(writeAlive \cup {s}, writeAge', [externalShown EXCEPT ![s] = v])
    /\ UNCHANGED reaperQueued

\* createSensors: a changed configuration replaces the sensor; the timer goes on.
Replace(s) ==
    /\ Event
    /\ writeAlive' = writeAlive \ {s}
    /\ writeAge' = [writeAge EXCEPT ![s] = 0]
    /\ externalShown' = [externalShown EXCEPT ![s] = "nan"]
    /\ UNCHANGED <<reaperDue, reaperQueued, reapedEarly>>

\* Time passes, also while handlers wait for the event loop.
Tick ==
    /\ writeAge' = [s \in Sensors |-> IF writeAge[s] < WriteTimeout[s] THEN writeAge[s] + 1
                                      ELSE writeAge[s]]
    /\ reaperDue' = {IF d > 0 THEN d - 1 ELSE 0 : d \in reaperDue}
    /\ UNCHANGED <<writeAlive, externalShown, reaperQueued, reapedEarly, externalWrites>>

\* The wait that is pending ends; setting the timer again does not take its handler back.
ReaperExpires ==
    /\ reaperDue = {0} /\ reaperDue' = {} /\ reaperQueued' = reaperQueued + 1
    /\ UNCHANGED <<writeAlive, writeAge, externalShown, reapedEarly, externalWrites>>

Reap ==
    /\ reaperQueued > 0 /\ reaperQueued' = reaperQueued - 1
    /\ UpdateReaper(writeAlive, writeAge, externalShown)
    /\ UNCHANGED <<writeAge, externalWrites>>

Proceeds(k) ==
    \/ k = 1 /\ Tick
    \/ k = 2 /\ ReaperExpires
    \/ k = 3 /\ Reap

Next ==
    \/ \E k \in 1..3 : Proceeds(k)
    \/ \E s \in Sensors : Replace(s)
    \/ \E s \in Sensors, v \in {"finite", "nan"} : Write(s, v)

Spec == Init /\ [][Next]_reaperVars /\ \A k \in 1..3 : WF_reaperVars(Proceeds(k))

-----------------------------------------------------------------------------
TypeOK ==
    /\ {writeAlive, reapedEarly} \subseteq SUBSET Sensors
    /\ \A s \in Sensors : writeAge[s] \in 0..WriteTimeout[s]
    /\ externalShown \in [Sensors -> {"finite", "nan"}]
    /\ reaperDue \subseteq 0..Max({WriteTimeout[s] : s \in Sensors}) /\ Cardinality(reaperDue) < 2
    /\ reaperQueued \in Nat /\ externalWrites \in 0..MaxExternalWrites

(* Every value that perishes is looked at by its expiry, however waits of  *)
(* other sensors, replaced sensors and handlers that queue up overlap, and *)
(* none is taken back before.                                              *)
ReaperIsSet ==
    /\ reapedEarly = {}
    /\ \A s \in writeAlive \cap Perishable :
        reaperQueued > 0 \/ \E d \in reaperDue : d <= WriteTimeout[s] - writeAge[s]

(* A value that nobody writes again is not shown for ever.                 *)
AllReaped == \A s \in Perishable : externalShown[s] = "nan" /\ s \notin writeAlive
ValuesPerish == <>[]AllReaped
=============================================================================
