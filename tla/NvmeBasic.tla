----------------------------- MODULE NvmeBasic ------------------------------
(***************************************************************************)
(* The drives of one root bus (src/src/nvme/NVMeBasicContext.cpp).  Their  *)
(* sensors are in a list; once a second a cursor walks it, and asks one    *)
(* drive after another, by way of a pipe, a thread that may block on the   *)
(* bus, and another pipe.  A drive in error is asked less often.  A drive  *)
(* that is unplugged leaves the list at once, whatever the cursor is       *)
(* doing; a new configuration replaces everything.                         *)
(***************************************************************************)
EXTENDS Naturals, FiniteSets, SequencesExt

CONSTANTS
    Drives,             \* configured drives
    DriveErrors,        \* errorThreshold
    ScanDelayTicks,     \* walks between two requests to a drive in error
    MaxDriveEvents      \* bound: drives that change, leave or come, and the host

NvmeAssumption ==
    /\ IsFiniteSet(Drives) /\ Drives # {}
    /\ {DriveErrors, ScanDelayTicks} \subseteq Nat \ {0} /\ MaxDriveEvents \in Nat

Temperatures == {40, 41}
NaN == 0
Short == 1              \* no answer, or less than six bytes of one
NotReady == 2           \* not ready, or not functional
Stale == 3              \* 0x80 and 0x81: no temperature
Answers == Temperatures \cup {Short, NotReady, Stale}

End == 0

VARIABLES
    polled,             \* the list
    pollCursor,         \* an element of it, or End
    walk,               \* "timer", "request" and "response" in a pipe, or "stopped"
    drive,              \* the drive asked
    response,
    reading,            \* what a drive would answer
    powered,            \* the host is on
    sensor,             \* of each drive: the value shown, errCount and scanDelay
    driveEvents

nvmeVars == <<polled, pollCursor, walk, drive, response, reading, powered, sensor, driveEvents>>

Fresh == [value |-> NaN, errCount |-> 0, scanDelay |-> 0]

\* pollNVMeDevices, with the list as it will be.
Poll(list) == pollCursor' = (IF list = <<>> THEN End ELSE Head(list)) /\ walk' = "timer"

Start ==
    /\ polled = SetToSeq(Drives)
    /\ pollCursor = Head(polled) /\ walk = "timer" /\ drive = End /\ response = Short
    /\ reading = [d \in Drives |-> 40] /\ powered = TRUE
    /\ sensor = [d \in Drives |-> Fresh] /\ driveEvents = 0

Init == Start

Event == driveEvents < MaxDriveEvents /\ driveEvents' = driveEvents + 1

-----------------------------------------------------------------------------
(* struct Sensor, as far as it matters here: see module Sensor.            *)
Shows(s, v) == [s EXCEPT !.value = v, !.errCount = IF v = NaN THEN @ ELSE 0]
Blank(s) == [s EXCEPT !.value = NaN, !.errCount = 0]

IncrementError(s) ==
    IF ~powered THEN Blank(s)
    ELSE IF s.errCount >= DriveErrors THEN s
    ELSE IF s.errCount + 1 = DriveErrors THEN [s EXCEPT !.value = NaN, !.errCount = DriveErrors]
    ELSE [s EXCEPT !.errCount = @ + 1]

UpdateValue(s, v) == IF powered THEN Shows(s, v) ELSE Blank(s)

InError(s) == s.errCount >= DriveErrors

\* sample.
Ticked(s) ==
    [s EXCEPT !.scanDelay = IF ~InError(s) THEN 0
                            ELSE (IF @ = 0 THEN ScanDelayTicks ELSE @) - 1]
Sampled(s) == Ticked(s).scanDelay = 0

-----------------------------------------------------------------------------
Position(d) == CHOOSE i \in DOMAIN polled : polled[i] = d
Following(list, i) == IF i < Len(list) THEN list[i + 1] ELSE End

\* What is left of the walk.
Rest == IF pollCursor = End THEN <<>> ELSE SubSeq(polled, Position(pollCursor), Len(polled))

(* readAndProcessNVMeSensor: sensors are passed until one is to be asked;  *)
(* behind the last one the timer starts again.                             *)
ReadFrom(rest, table) ==
    LET due == {i \in DOMAIN rest : powered /\ Sampled(table[rest[i]])}
        first == IF due = {} THEN Len(rest) + 1 ELSE CHOOSE i \in due : \A j \in due : i <= j
        passed == {rest[i] : i \in DOMAIN rest \cap 1..first}
    IN  /\ sensor' = [d \in Drives |-> IF d \notin passed THEN table[d]
                                       ELSE IF powered THEN Ticked(table[d])
                                       ELSE Blank(table[d])]
        /\ IF due = {} THEN Poll(polled) /\ UNCHANGED drive
           ELSE /\ drive' = rest[first] /\ walk' = "request"
                /\ pollCursor' = Following(rest, first)

Scan ==
    /\ walk = "timer"
    /\ ReadFrom(Rest, sensor)
    /\ UNCHANGED <<polled, response, reading, powered, driveEvents>>

\* processBasicQueryStream: the thread asks whatever the address says, used or not.
Query ==
    /\ walk = "request"
    /\ response' = reading[drive] /\ walk' = "response"
    /\ UNCHANGED <<polled, pollCursor, drive, reading, powered, sensor, driveEvents>>

\* processResponse.
Processed(s) ==
    CASE response \in {Short, Stale} -> IncrementError(s)
      [] response = NotReady -> UpdateValue(s, NaN)
      [] OTHER -> UpdateValue(s, response)

\* The answer for a sensor that was removed ends the walk, and starts no other.
Response ==
    /\ walk = "response"
    /\ IF drive \in Range(polled)
       THEN ReadFrom(Rest, [sensor EXCEPT ![drive] = Processed(@)])
       ELSE walk' = "stopped" /\ UNCHANGED <<pollCursor, drive, sensor>>
    /\ UNCHANGED <<polled, response, reading, powered, driveEvents>>

-----------------------------------------------------------------------------
LeftBehind(d) == pollCursor

Advanced(d) == IF pollCursor = d THEN Following(polled, Position(d)) ELSE pollCursor

\* removeSensor: erasing an element leaves the iterators to the others valid.
RemoveSensor(d) ==
    /\ polled' = RemoveAt(polled, Position(d))
    /\ pollCursor' = Advanced(d)

InterfaceRemoved ==
    /\ Event
    /\ \E d \in Range(polled) : RemoveSensor(d)
    /\ UNCHANGED <<walk, drive, response, reading, powered, sensor>>

(* handleSensorConfigurations closes the contexts - their timers, and with *)
(* their pipes the threads - and creates others.                           *)
Reconfigured ==
    /\ Event
    /\ \E configured \in SUBSET Drives :
          LET list == SetToSeq(configured) IN polled' = list /\ Poll(list)
    /\ sensor' = [d \in Drives |-> Fresh] /\ drive' = End
    /\ UNCHANGED <<response, reading, powered>>

DriveChanges ==
    /\ Event
    /\ \/ \E d \in Drives, r \in Answers : reading' = [reading EXCEPT ![d] = r] /\ UNCHANGED powered
       \/ powered' = ~powered /\ UNCHANGED reading
    /\ UNCHANGED <<polled, pollCursor, walk, drive, response, sensor>>

Proceeds == Scan \/ Query \/ Response

Next == Proceeds \/ InterfaceRemoved \/ Reconfigured \/ DriveChanges

Spec == Init /\ [][Next]_nvmeVars /\ WF_nvmeVars(Proceeds)

-----------------------------------------------------------------------------
TypeOK ==
    /\ polled \in Seq(Drives) /\ walk \in {"timer", "request", "response", "stopped"}
    /\ pollCursor \in Drives \cup {End} /\ drive \in Drives \cup {End} /\ response \in Answers
    /\ reading \in [Drives -> Answers] /\ powered \in BOOLEAN
    /\ sensor \in [Drives -> [value : Temperatures \cup {NaN}, errCount : 0..DriveErrors,
                              scanDelay : 0..ScanDelayTicks]]
    /\ driveEvents \in 0..MaxDriveEvents

(* NVMeContext.hpp: the post-condition of removeSensor, "pollCursor is a   *)
(* valid iterator for the sensor list", at any time.                       *)
CursorIsValid == pollCursor \in Range(polled) \cup {End}

Tells(d) == IF powered /\ reading[d] \in Temperatures THEN reading[d] ELSE NaN

(* When drives stop changing, the sensor of each shows what it reports,    *)
(* unless the bus is not polled any more.                                  *)
ShowsWhatTheyTell ==
    walk # "stopped" => \A i \in DOMAIN polled : sensor[polled[i]].value = Tells(polled[i])
DrivesAreShown == <>[]ShowsWhatTheyTell
=============================================================================
