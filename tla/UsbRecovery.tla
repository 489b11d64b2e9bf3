----------------------------- MODULE UsbRecovery -----------------------------
(***************************************************************************)
(* The recovery of an MCTP device on USB whose setup keeps failing         *)
(* (src/src/mctp/USBRecovery.cpp, IstRecovery.cpp and MCTPReactor.cpp):    *)
(* after so many failures the halt of its endpoint is cleared, but not     *)
(* while an in-system test runs, which makes setups fail too.  Whether one *)
(* runs is known from a service that comes and goes; its signals, the      *)
(* replies it gives and those of the mapper are queued.                    *)
(***************************************************************************)
EXTENDS Naturals, Sequences

CONSTANTS
    RecoveryThreshold,  \* of the configuration
    MaxNews,            \* bound: calls are answered while less is queued
    MaxUsbEvents        \* bound: what the device, the test and the user do, and faults

UsbAssumption ==
    RecoveryThreshold \in Nat \ {0} /\ MaxNews \in Nat \ {0} /\ MaxUsbEvents \in Nat

VARIABLES
    usb,                \* its driver, whether the endpoint is halted, whether in RCM mode
    usbFailures,        \* usbSetupFailureCounts
    automatic,          \* autoUSBRecoveryEnabled
    ist,                \* the service of the test: "absent", "idle", "running"
    istService,         \* "never" looked up, "known", or "cleared"
    istInProgress,
    istCalls,           \* "find" of the mapper, "get" of the service
    istNews,            \* what was sent to the reactor
    istMisled,          \* history: a call failed while a test was running
    usbEvents

usbVars == <<usb, usbFailures, automatic, ist, istService, istInProgress, istCalls, istNews,
             istMisled, usbEvents>>

device == <<usb, usbFailures, automatic>>
istKnowledge == <<istService, istInProgress>>

Start ==
    /\ usb = [bound |-> TRUE, halted |-> FALSE, rcm |-> FALSE]
    /\ usbFailures = 0 /\ automatic = TRUE
    /\ ist = "absent" /\ istService = "never" /\ istInProgress = FALSE
    /\ istCalls = <<"find">> /\ istNews = <<>> /\ istMisled = FALSE /\ usbEvents = 0
Init == Start

Happens == usbEvents < MaxUsbEvents /\ usbEvents' = usbEvents + 1

\* A call that is under way is not told from one more of its kind.
Asked(c) ==
    IF \E i \in DOMAIN istCalls : istCalls[i] = c THEN istCalls ELSE Append(istCalls, c)

-----------------------------------------------------------------------------
(* readIstInProgress and refreshState: without a service no test runs.     *)
ReadIstInProgress ==
    /\ istInProgress' = (istInProgress /\ istService = "known")
    /\ istCalls' = IF istService = "known" THEN Asked("get") ELSE istCalls

RefreshState ==
    /\ istInProgress' = (istInProgress /\ istService = "known")
    /\ istCalls' = Asked(IF istService = "known" THEN "get" ELSE "find")

Hears(m) == istNews # <<>> /\ Head(istNews) = m /\ istNews' = Tail(istNews)

(* The reply of the service, and PropertiesChanged, which may come from a  *)
(* service that is not known.                                              *)
Replied ==
    /\ \/ Hears("running") /\ istInProgress' = TRUE
       \/ Hears("idle") /\ istInProgress' = FALSE
    /\ UNCHANGED <<istService, istCalls>>

StateHeard ==
    /\ \/ Hears("begun") /\ istInProgress' = TRUE
       \/ Hears("ended") /\ istInProgress' = FALSE
    /\ istCalls' = IF istService = "known" THEN istCalls ELSE Asked("find")
    /\ UNCHANGED istService

Malformed == Hears("malformed") /\ RefreshState /\ UNCHANGED istService

(* The reply of the mapper, and watchIstService. *)
Found ==
    \/ /\ Hears("found")
       /\ istService' = "known" /\ istCalls' = Asked("get") /\ UNCHANGED istInProgress
    \/ /\ Hears("unknown")
       /\ istService' = IF istService = "known" THEN "cleared" ELSE istService
       /\ UNCHANGED <<istInProgress, istCalls>>

(* NameOwnerChanged, once the service is watched. *)
OwnerChanged ==
    /\ \/ Hears("lost") /\ istInProgress' = FALSE /\ UNCHANGED istCalls
       \/ Hears("owned") /\ ReadIstInProgress
    /\ UNCHANGED istService

IstHeard ==
    /\ Replied \/ StateHeard \/ Malformed \/ Found \/ OwnerChanged
    /\ UNCHANGED <<device, ist, istMisled, usbEvents>>

-----------------------------------------------------------------------------
(* clearBulkOutHalt: the driver is detached, the interface claimed, the    *)
(* halt cleared, and the driver attached again; each may fail, and a       *)
(* device without driver has no interface by which it is found.            *)
Recovered(claimed, cleared, attached) ==
    [usb EXCEPT !.halted = @ /\ ~(claimed /\ cleared), !.bound = attached]

Located == usb.bound
IsDeviceInRecoveryMode == usb.rcm

ClearBulkOutHalt ==
    \/ /\ ~Located \/ IsDeviceInRecoveryMode
       /\ UNCHANGED <<usb, usbEvents>>
    \/ /\ Located /\ ~IsDeviceInRecoveryMode
       /\ \E claimed, cleared, attached \in BOOLEAN :
            /\ usb' = Recovered(claimed, cleared, attached)
            /\ IF claimed /\ cleared /\ attached THEN UNCHANGED usbEvents ELSE Happens

(* setupEndpoint's callback: trackUsbSetupFailure and                      *)
(* suppressRecoveryForIst, or clearUsbSetupFailureTracking.                *)
Reachable == usb.bound /\ ~usb.halted /\ ~usb.rcm /\ ist # "running"

SetupFails ==
    /\ ~Reachable
    /\ \/ /\ usbFailures + 1 < RecoveryThreshold
          /\ usbFailures' = usbFailures + 1
          /\ UNCHANGED <<usb, istInProgress, istCalls, usbEvents>>
       \/ /\ usbFailures + 1 = RecoveryThreshold
          /\ usbFailures' = 0
          /\ \/ ~automatic /\ UNCHANGED <<usb, istInProgress, istCalls, usbEvents>>
             \/ automatic /\ istInProgress /\ RefreshState /\ UNCHANGED <<usb, usbEvents>>
             \/ /\ automatic /\ ~istInProgress /\ ClearBulkOutHalt
                /\ UNCHANGED <<istInProgress, istCalls>>
    /\ UNCHANGED <<automatic, ist, istService, istNews, istMisled>>

SetupSucceeds ==
    /\ Reachable /\ usbFailures # 0
    /\ usbFailures' = 0
    /\ UNCHANGED <<usb, automatic, ist, istKnowledge, istCalls, istNews, istMisled, usbEvents>>

(* The D-Bus method that asks for a recovery, test or not. *)
ForceUSBRecovery ==
    /\ ClearBulkOutHalt
    /\ UNCHANGED <<usbFailures, automatic, ist, istKnowledge, istCalls, istNews, istMisled>>

-----------------------------------------------------------------------------
(* The mapper and the service answer, or do not. *)
Answer(c) ==
    CASE c = "find" -> IF ist = "absent" THEN "unknown" ELSE "found"
      [] c = "get" -> IF ist = "running" THEN "running" ELSE "idle"
Failure(c) == IF c = "find" THEN "unknown" ELSE "idle"

IstServed ==
    /\ istCalls # <<>> /\ istCalls' = Tail(istCalls) /\ Len(istNews) < MaxNews
    /\ \/ istNews' = Append(istNews, Answer(Head(istCalls))) /\ UNCHANGED <<istMisled, usbEvents>>
       \/ /\ Happens
          /\ istNews' = Append(istNews, Failure(Head(istCalls)))
          /\ istMisled' = (istMisled \/ ist = "running")
    /\ UNCHANGED <<device, ist, istKnowledge>>

Tells(m) == istNews' = Append(istNews, m)
TellsOwner(m) == istNews' = IF istService = "never" THEN istNews ELSE Append(istNews, m)

IstChanges ==
    /\ Happens
    /\ \/ ist = "absent" /\ ist' = "idle" /\ TellsOwner("owned")
       \/ ist = "idle" /\ ist' = "running" /\ Tells("begun")
       \/ ist = "running" /\ ist' = "idle" /\ Tells("ended")
       \/ ist # "absent" /\ ist' = "absent" /\ TellsOwner("lost")
       \/ ist # "absent" /\ Tells("malformed") /\ UNCHANGED ist
    /\ UNCHANGED <<device, istKnowledge, istCalls, istMisled>>

(* The device halts, enters its recovery mode, or is plugged in again; the *)
(* automatic recovery is turned off and on.                                *)
DeviceChanges ==
    /\ Happens
    /\ \/ usb.bound /\ ~usb.halted /\ usb' = [usb EXCEPT !.halted = TRUE] /\ UNCHANGED automatic
       \/ usb.bound /\ ~usb.rcm /\ usb' = [usb EXCEPT !.rcm = TRUE] /\ UNCHANGED automatic
       \/ /\ usb' = [bound |-> TRUE, halted |-> FALSE, rcm |-> FALSE] /\ usb' # usb
          /\ UNCHANGED automatic
       \/ automatic' = ~automatic /\ UNCHANGED usb
    /\ UNCHANGED <<usbFailures, ist, istKnowledge, istCalls, istNews, istMisled>>

\* The reactor and the bus go on; its tick sets up what is not set up.
Proceeds(k) ==
    \/ k = 1 /\ (IstHeard \/ IstServed)
    \/ k = 2 /\ (SetupFails \/ SetupSucceeds)

Next ==
    \/ IstHeard \/ IstServed \/ SetupFails \/ SetupSucceeds \/ ForceUSBRecovery
    \/ IstChanges \/ DeviceChanges
Spec == Init /\ [][Next]_usbVars /\ \A k \in 1 .. 2 : WF_usbVars(Proceeds(k))

-----------------------------------------------------------------------------
TypeOK ==
    /\ usb \in [bound : BOOLEAN, halted : BOOLEAN, rcm : BOOLEAN]
    /\ usbFailures \in 0 .. RecoveryThreshold - 1 /\ automatic \in BOOLEAN
    /\ ist \in {"absent", "idle", "running"} /\ istService \in {"never", "known", "cleared"}
    /\ istInProgress \in BOOLEAN /\ istMisled \in BOOLEAN
    /\ istCalls \in Seq({"find", "get"}) /\ Len(istCalls) <= 2
    /\ istNews \in Seq({"running", "idle", "begun", "ended", "malformed", "found", "unknown", "lost",
                        "owned"})

(* While a test runs no halt is cleared behind its back: the reactor knows *)
(* of it, or is about to.                                                  *)
TestIsKnown ==
    ist = "running" => istInProgress \/ istMisled \/ istCalls # <<>> \/ istNews # <<>>

(* When nothing changes, a device whose endpoint was halted is recovered.  *)
IsRecovered ==
    usb.halted => ~usb.bound \/ usb.rcm \/ ~automatic \/ ist = "running"
Follows == <>[]IsRecovered
=============================================================================
