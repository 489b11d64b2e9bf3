------------------------------ MODULE PsuEvents ------------------------------
(***************************************************************************)
(* The operational status of a power supply (src/psu/PSUEvent.cpp): alarm  *)
(* files are polled one by one, those of one event are its sub-events, and *)
(* the supply is functional if no event is asserted.                       *)
(***************************************************************************)
EXTENDS Naturals, FiniteSets

CONSTANTS Paths,       \* alarm files
          Events,      \* groupEventName
          EventOf,     \* the event of each file
          WarnAfter,   \* warnAfterErrorCount
          MaxChanges   \* bound: changes of files and of the host's power

EventsAssumption ==
    /\ EventOf \in [Paths -> Events]
    /\ WarnAfter \in Nat \ {0} /\ MaxChanges \in Nat

Contents == {0, 1}
Unreadable == 2                 \* a read that fails or does not parse

VARIABLES
    value, errCount,  \* of each PSUSubEvent
    reading,          \* files whose read is under way
    asserts,          \* of each event
    assertState,
    combineEvent,     \* events asserted
    functional,       \* on D-Bus
    file, power, changes

vars == <<value, errCount, reading, asserts, assertState, combineEvent, functional,
          file, power, changes>>

event == <<value, asserts, assertState, combineEvent, functional>>

TypeOK ==
    /\ value \in [Paths -> Contents] /\ errCount \in [Paths -> 0..WarnAfter + 1]
    /\ reading \in SUBSET Paths
    /\ asserts \in [Events -> SUBSET Paths] /\ assertState \in [Events -> BOOLEAN]
    /\ combineEvent \in SUBSET Events /\ functional \in BOOLEAN
    /\ file \in [Paths -> Contents \cup {Unreadable}] /\ power \in BOOLEAN
    /\ changes \in 0..MaxChanges

Start ==
    /\ value = [p \in Paths |-> 0] /\ errCount = [p \in Paths |-> 0]
    /\ reading = {}
    /\ asserts = [e \in Events |-> {}] /\ assertState = [e \in Events |-> FALSE]
    /\ combineEvent = {} /\ functional = TRUE

Init ==
    /\ Start
    /\ file = [p \in Paths |-> 0] /\ power = TRUE /\ changes = 0

-----------------------------------------------------------------------------
Assert(p) ==
    LET e == EventOf[p]
    IN  /\ IF ~assertState[e] /\ asserts[e] = {}
           THEN /\ assertState' = [assertState EXCEPT ![e] = TRUE]
                /\ functional' = (functional /\ combineEvent # {})
                /\ combineEvent' = combineEvent \cup {e}
           ELSE UNCHANGED <<assertState, functional, combineEvent>>
        /\ asserts' = [asserts EXCEPT ![e] = @ \cup {p}]
        /\ value' = [value EXCEPT ![p] = 1]

\* While files assert the event, one that is clear keeps its old value, and
\* comes here again with its next reading.
Withdraw(p) ==
    /\ asserts[EventOf[p]] # {}
    /\ asserts' = [asserts EXCEPT ![EventOf[p]] = @ \ {p}]
    /\ UNCHANGED <<value, assertState, combineEvent, functional>>

DeassertSilently(e) ==
    /\ assertState' = [assertState EXCEPT ![e] = FALSE]
    /\ combineEvent' = combineEvent \ {e}
    /\ UNCHANGED functional

DeassertEvent(e) ==
    /\ assertState' = [assertState EXCEPT ![e] = FALSE]
    /\ combineEvent' = combineEvent \ {e}
    /\ functional' = (functional \/ combineEvent' = {})

Deassert(p) ==
    /\ asserts[EventOf[p]] = {}
    /\ IF assertState[EventOf[p]] THEN DeassertEvent(EventOf[p])
       ELSE UNCHANGED <<assertState, combineEvent, functional>>
    /\ value' = [value EXCEPT ![p] = 0]
    /\ UNCHANGED asserts

UpdateValue(p, v) ==
    \/ v = value[p] /\ UNCHANGED event
    \/ v # value[p] /\ v = 1 /\ Assert(p)
    \/ v # value[p] /\ v = 0 /\ (Withdraw(p) \/ Deassert(p))

\* setupRead, when the poll timer of the file expires
SetupRead(p) ==
    /\ p \notin reading
    /\ IF power THEN reading' = reading \cup {p} /\ UNCHANGED event
                ELSE UpdateValue(p, 0) /\ UNCHANGED reading
    /\ UNCHANGED <<errCount, file, power, changes>>

\* Errors count until they are warned of; from then on each is a deassertion.
HandleResponse(p) ==
    /\ p \in reading
    /\ reading' = reading \ {p}
    /\ IF file[p] # Unreadable
       THEN UpdateValue(p, file[p]) /\ errCount' = [errCount EXCEPT ![p] = 0]
       ELSE LET n == errCount[p] + 1
            IN  IF n < WarnAfter
                THEN errCount' = [errCount EXCEPT ![p] = n] /\ UNCHANGED event
                ELSE errCount' = [errCount EXCEPT ![p] = WarnAfter + 1] /\ UpdateValue(p, 0)
    /\ UNCHANGED <<file, power, changes>>

-----------------------------------------------------------------------------
Change == changes < MaxChanges /\ changes' = changes + 1

FileChanges(p, v) ==
    /\ v # file[p]
    /\ Change
    /\ file' = [file EXCEPT ![p] = v]
    /\ UNCHANGED <<event, errCount, reading, power>>

PowerChanges ==
    /\ Change
    /\ power' = ~power
    /\ UNCHANGED <<event, errCount, reading, file>>

Next ==
    \/ \E p \in Paths : SetupRead(p) \/ HandleResponse(p)
    \/ \E p \in Paths, v \in Contents \cup {Unreadable} : FileChanges(p, v)
    \/ PowerChanges

Spec == Init /\ [][Next]_vars

(***************************************************************************)
(* Every file is polled: its timer expires and its reads end.              *)
(***************************************************************************)
Fairness == \A p \in Paths : WF_vars(SetupRead(p)) /\ WF_vars(HandleResponse(p))

FairSpec == Spec /\ Fairness

-----------------------------------------------------------------------------
(* Properties                                                              *)

(***************************************************************************)
(* "Any of the sub events of one event is asserted, then the event will be *)
(* asserted": a file that says so for good has its event asserted for good.*)
(***************************************************************************)
AssertedIsShown ==
    \A p \in Paths :
        <>[](power /\ file[p] = 1) => <>[](EventOf[p] \in combineEvent /\ ~functional)

(***************************************************************************)
(* A supply none of whose files says anything any more, because they are   *)
(* clear or cannot be read or the host is off, becomes functional again,   *)
(* whatever the order in which its files asserted and cleared.             *)
(***************************************************************************)
ClearedIsFunctional ==
    <>[](~power \/ \A p \in Paths : file[p] # 1)
        => <>[](functional /\ combineEvent = {} /\ \A p \in Paths : value[p] = 0)
=============================================================================
