------------------------------ MODULE UsbGadget ------------------------------
(***************************************************************************)
(* The USB gadget by which a host reaches the BMC over MCTP                *)
(* (src/src/mctp/MCTPCustomDevices.cpp), as the reactor drives it.  Its    *)
(* setup blocks the daemon and runs commands that fail one by one; nothing *)
(* is undone.  Then it tells the bus owner of the host to look again, by a *)
(* Discovery Notify, when an endpoint that is not an address of the BMC    *)
(* appears or goes.                                                        *)
(***************************************************************************)
EXTENDS Naturals, Sequences

CONSTANT MaxGadgetEvents    \* bound: what Entity Manager and mctpd do, and commands that fail

GadgetAssumption == MaxGadgetEvents \in Nat

Eids == {"one", "other"}

VARIABLES
    gadgetWanted,   \* Entity Manager publishes the item
    gadgetState,    \* MCTPReactor::states of its device
    gadget,         \* in the kernel: bound, rules ("none", "part", "whole"), address
    toldAll,        \* history: the address was said to be there already
    isSetup,        \* of the device object; then its association is hosted
    mctpdObjects,   \* endpoints mctpd has an object for
    localEids,      \* those of them that are addresses of the BMC
    netLocalEids,   \* what the device knows of them, or {"unknown"}
    gadgetAsk,      \* GetManagedObjects is "none", "asked" or "replied"
    replied,        \* LocalEIDs in the reply
    gadgetMail,     \* signals that wait for the device, and the reply
    unnotified,     \* history: endpoints that changed since the last Discovery Notify sent
    unheard,        \* history: those of them whose own Discovery Notify failed
    gadgetEvents

gadgetVars == <<gadgetWanted, gadgetState, gadget, toldAll, isSetup, mctpdObjects, localEids,
                netLocalEids, gadgetAsk, replied, gadgetMail, unnotified, unheard, gadgetEvents>>

mctpdNet == <<mctpdObjects, localEids>>
subscription == <<netLocalEids, gadgetAsk, replied, gadgetMail, unnotified, unheard>>

Start ==
    /\ gadgetWanted = FALSE /\ gadgetState = "Unmanaged"
    /\ gadget = [bound |-> FALSE, rules |-> "none", address |-> FALSE]
    /\ toldAll = FALSE /\ isSetup = FALSE /\ mctpdObjects = {} /\ localEids = {}
    /\ netLocalEids = {"unknown"} /\ gadgetAsk = "none" /\ replied = {} /\ gadgetMail = <<>>
    /\ unnotified = {} /\ unheard = {} /\ gadgetEvents = 0
Init == Start

Happens == gadgetEvents < MaxGadgetEvents /\ gadgetEvents' = gadgetEvents + 1

-----------------------------------------------------------------------------
(* Setup: the gadget is configured and bound, its link set up, the rules   *)
(* added until one fails, and its address and role set.  A command that    *)
(* fails leaves errno as it was: the address is then taken to be there     *)
(* already, or the failure to be none, which the reactor takes for an      *)
(* endpoint that is known.                                                 *)
BoundGadget == {[gadget EXCEPT !.bound = TRUE]}
Filtered == {[g EXCEPT !.rules = rules] : g \in BoundGadget, rules \in {"part", "whole"}}

\* How far a setup gets: the gadget in the kernel, and what the callback is told.
Failures ==
    {<<gadget, "error">>}
        \cup {<<g, told>> : g \in BoundGadget, told \in {"error", "nothing"}}
        \cup {<<g, told>> : g \in Filtered, told \in {"error", "nothing", "exists"}}
        \cup {<<[g EXCEPT !.address = TRUE], "error">> : g \in Filtered}
        \cup {<<[gadget EXCEPT !.bound = TRUE, !.rules = "part", !.address = TRUE], "endpoint">>}
Success == <<[bound |-> TRUE, rules |-> "whole", address |-> TRUE], "endpoint">>

\* The association is hosted and mctpd is asked which addresses are the BMC's own.
Subscribed ==
    /\ gadgetState' = "Assigned" /\ isSetup' = TRUE
    /\ netLocalEids' = {"unknown"} /\ gadgetAsk' = "asked" /\ replied' = {}
    /\ gadgetMail' = <<>> /\ unnotified' = {} /\ unheard' = {}

Setup(spent) ==
    \E outcome \in Failures \cup {Success} :
        /\ gadgetEvents' = gadgetEvents + spent + IF outcome = Success THEN 0 ELSE 1
        /\ gadgetEvents' <= MaxGadgetEvents
        /\ gadget' = outcome[1]
        /\ \/ /\ outcome[2] \in {"endpoint", "exists"}
              /\ toldAll' = (outcome[2] = "exists")
              /\ Subscribed
           \/ /\ outcome[2] \in {"error", "nothing"}
              /\ gadgetState' = IF outcome[2] = "error" THEN "Unassigned" ELSE "Assigning"
              /\ UNCHANGED <<toldAll, isSetup, subscription>>
        /\ UNCHANGED mctpdNet

(* MCTPReactor: the first setup, those of the tick, and withdrawal. *)
Manage ==
    /\ ~gadgetWanted /\ gadgetWanted' = TRUE
    /\ \/ gadgetState = "Unmanaged" /\ Setup(1)
       \/ /\ Happens
          /\ \/ gadgetState = "Removing" /\ gadgetState' = "Unassigned"
             \/ gadgetState = "Quarantine" /\ gadgetState' = "Assigning"
          /\ UNCHANGED <<gadget, toldAll, isSetup, mctpdNet, subscription>>

Tick == gadgetState = "Unassigned" /\ Setup(0) /\ UNCHANGED gadgetWanted

\* remove() tells the reactor and forgets that it was set up; the kernel keeps the gadget.
Remove ==
    /\ isSetup' = FALSE
    /\ netLocalEids' = {"unknown"} /\ gadgetAsk' = "none" /\ replied' = {}
    /\ gadgetMail' = <<>> /\ unnotified' = {} /\ unheard' = {}

Unmanage ==
    /\ Happens /\ gadgetWanted /\ gadgetWanted' = FALSE
    /\ \/ gadgetState = "Assigned" /\ gadgetState' = "Removing" /\ Remove
       \/ gadgetState = "Unassigned" /\ gadgetState' = "Unmanaged" /\ UNCHANGED <<isSetup, subscription>>
       \/ gadgetState = "Assigning" /\ gadgetState' = "Quarantine" /\ UNCHANGED <<isSetup, subscription>>
    /\ UNCHANGED <<gadget, toldAll, mctpdNet>>

-----------------------------------------------------------------------------
(* What mctpd does while the device is subscribed reaches it in order.     *)
ObjectChanges ==
    /\ Happens /\ isSetup
    /\ \E eid \in Eids, isLocal \in BOOLEAN :
         /\ eid \in mctpdObjects => isLocal = (eid \in localEids)
         /\ mctpdObjects' = (mctpdObjects \cup {eid}) \ (mctpdObjects \cap {eid})
         /\ localEids' = IF isLocal /\ eid \in mctpdObjects' THEN localEids \cup {eid} ELSE localEids \ {eid}
         /\ gadgetMail' = Append(gadgetMail, eid)
         /\ unnotified' = IF isLocal THEN unnotified ELSE unnotified \cup {eid}
    /\ UNCHANGED <<gadgetWanted, gadgetState, gadget, toldAll, isSetup, netLocalEids, gadgetAsk, replied,
                   unheard>>

\* An error, or a reply without LocalEIDs, leaves the device knowing none.
Reply ==
    /\ gadgetAsk = "asked" /\ gadgetAsk' = "replied"
    /\ \/ replied' = localEids /\ UNCHANGED gadgetEvents
       \/ replied' = {"unknown"} /\ Happens
    /\ gadgetMail' = Append(gadgetMail, "reply")
    /\ UNCHANGED <<gadgetWanted, gadgetState, gadget, toldAll, isSetup, mctpdNet, netLocalEids,
                   unnotified, unheard>>

(* sendDiscoveryNotify.  Without a socket, its option, the interface or    *)
(* the datagram there is a line in the log, and no other attempt.          *)
SendDiscoveryNotify(eid) ==
    \/ unnotified' = {} /\ unheard' = {} /\ UNCHANGED gadgetEvents
    \/ unheard' = unheard \cup {eid} /\ UNCHANGED unnotified /\ Happens

(* onEndpointAdded and onEndpointRemoved, and the reply's handler. *)
Ignores(eid) == eid \in netLocalEids

HandleMail ==
    /\ gadgetMail # <<>> /\ gadgetMail' = Tail(gadgetMail)
    /\ LET mail == Head(gadgetMail)
       IN  \/ /\ mail = "reply"
              /\ netLocalEids' = replied /\ gadgetAsk' = "none"
              /\ UNCHANGED <<unnotified, unheard, gadgetEvents>>
           \/ /\ mail # "reply" /\ Ignores(mail)
              /\ UNCHANGED <<netLocalEids, gadgetAsk, unnotified, unheard, gadgetEvents>>
           \/ /\ mail # "reply" /\ ~Ignores(mail)
              /\ SendDiscoveryNotify(mail) /\ UNCHANGED <<netLocalEids, gadgetAsk>>
    /\ UNCHANGED <<gadgetWanted, gadgetState, gadget, toldAll, isSetup, mctpdNet, replied>>

Proceeds == Tick \/ Reply \/ HandleMail
Next == Manage \/ Tick \/ Unmanage \/ ObjectChanges \/ Reply \/ HandleMail
Spec == Init /\ [][Next]_gadgetVars /\ WF_gadgetVars(Proceeds)

-----------------------------------------------------------------------------
TypeOK ==
    /\ gadgetWanted \in BOOLEAN /\ toldAll \in BOOLEAN /\ isSetup \in BOOLEAN
    /\ gadgetState \in {"Unmanaged", "Assigning", "Unassigned", "Assigned", "Quarantine", "Removing"}
    /\ gadget \in [bound : BOOLEAN, rules : {"none", "part", "whole"}, address : BOOLEAN]
    /\ mctpdObjects \subseteq Eids /\ localEids \subseteq mctpdObjects
    /\ netLocalEids \subseteq Eids \cup {"unknown"}
    /\ gadgetAsk \in {"none", "asked", "replied"} /\ replied \subseteq Eids \cup {"unknown"}
    /\ \A i \in DOMAIN gadgetMail : gadgetMail[i] \in Eids \cup {"reply"}
    /\ unnotified \subseteq Eids /\ unheard \subseteq Eids

(* The association is hosted for a gadget that was set up, and that has    *)
(* its address unless it was said to be there.                             *)
AssignedIsSetUp ==
    /\ gadgetState = "Assigned" <=> isSetup
    /\ isSetup => gadget.bound /\ gadget.rules # "none" /\ (gadget.address \/ toldAll)

(* Of a change among the endpoints the host is told, but for one whose EID *)
(* was an address of the BMC when the device asked, and one whose          *)
(* Discovery Notify failed: that one is not retried, and the host is left  *)
(* behind until the next that is sent.                                     *)
HostIsNotified == gadgetMail = <<>> => unnotified \subseteq netLocalEids \cup unheard

(* When nothing changes any more, an item that is published has its        *)
(* endpoint, or waits for a setup that told nothing.                       *)
IsServed ==
    IF gadgetWanted THEN gadgetState \in {"Assigned", "Assigning"} /\ gadgetMail = <<>>
    ELSE gadgetState \in {"Unmanaged", "Removing", "Quarantine"}
Follows == <>[]IsServed
=============================================================================
