----------------------------- MODULE BridgePool -----------------------------
(***************************************************************************)
(* An endpoint behind an MCTP bridge (src/src/mctp/MCTPBridgePoolDevice    *)
(* .cpp) and what the reactor does with it.  mctpd sets such endpoints up  *)
(* by itself: the device computes the EID from the bridge's pool and waits *)
(* for its object to appear, so that it is associated with the inventory.  *)
(* mctpd's signals are queued; the calls of a setup block the reactor, not *)
(* mctpd.  One item is followed, with one device object at a time; a       *)
(* device is subscribed to as long as its association is hosted, so the    *)
(* generations of MCTPReactor are left out.                                *)
(***************************************************************************)
EXTENDS Naturals, Sequences

CONSTANTS
    PoolStarts,         \* where the bridge's pool may begin
    PoolSize,
    PoolIndex,          \* the device's place in the pool
    MaxPoolEvents       \* bound: what mctpd and Entity Manager do

PoolAssumption ==
    /\ PoolStarts \subseteq Nat \ {0} /\ PoolSize \in Nat \ {0}
    /\ PoolIndex \in 0 .. PoolSize - 1 /\ MaxPoolEvents \in Nat

VARIABLES
    published,          \* Entity Manager publishes the item
    poolStart,          \* Bridge1.PoolStart, or 0: the bridge is not set up
    endpoints,          \* the EIDs of its pool that mctpd has an object for
    poolSignals,        \* what the device's watches have queued
    lifecycle,          \* MCTPReactor::states of the item
    predicted,          \* bridgedEid, 0 before it is resolved; its watches are armed
    setupCallback,      \* the reactor waits for the endpoint
    introspecting,      \* a setup has armed the watches and looks for the endpoint
    associated,         \* the EID whose association is hosted, or 0
    misled,             \* history: it waits for what does not come any more
    poolEvents

poolVars == <<published, poolStart, endpoints, poolSignals, lifecycle, predicted, setupCallback,
              introspecting, associated, misled, poolEvents>>

mctpd == <<poolStart, endpoints>>

Start ==
    /\ published = FALSE /\ poolStart = 0 /\ endpoints = {} /\ poolSignals = <<>>
    /\ lifecycle = "Unmanaged" /\ predicted = 0 /\ setupCallback = FALSE
    /\ introspecting = FALSE /\ associated = 0 /\ misled = FALSE /\ poolEvents = 0
Init == Start

Happens == poolEvents < MaxPoolEvents /\ poolEvents' = poolEvents + 1

-----------------------------------------------------------------------------
(* setup(): without its bridge the device is set up later.  Signals that   *)
(* were sent before the watches were armed are not delivered to them.      *)
Resolved == poolStart + PoolIndex

Setup(from) ==
    \/ /\ poolStart = 0
       /\ lifecycle' = IF from = "Assigning" THEN "Unassigned" ELSE "Lost"
       /\ UNCHANGED <<poolSignals, predicted, setupCallback, introspecting, misled>>
    \/ /\ poolStart # 0
       /\ lifecycle' = from
       /\ predicted' = Resolved /\ poolSignals' = <<>>
       /\ setupCallback' = TRUE /\ introspecting' = TRUE /\ misled' = FALSE

(* notifyEndpointPresent and trackEndpoint. *)
NotifyPresent ==
    /\ setupCallback' = FALSE
    /\ associated' = predicted
    /\ lifecycle' = IF lifecycle = "Assigning" THEN "Assigned" ELSE "Recovered"

(* The end of setup(); a call that fails counts as an endpoint that is not *)
(* there yet.                                                              *)
Introspect ==
    /\ introspecting /\ introspecting' = FALSE
    /\ \/ /\ predicted \in endpoints
          /\ NotifyPresent
          /\ UNCHANGED <<misled, poolEvents>>
       \/ /\ predicted \notin endpoints
          /\ UNCHANGED <<lifecycle, setupCallback, associated, misled, poolEvents>>
       \/ /\ predicted \in endpoints /\ Happens
          /\ misled' = TRUE
          /\ UNCHANGED <<lifecycle, setupCallback, associated>>
    /\ UNCHANGED <<published, mctpd, poolSignals, predicted>>

Handles(kind) ==
    /\ ~introspecting
    /\ poolSignals # <<>> /\ Head(poolSignals) = kind
    /\ poolSignals' = Tail(poolSignals)
    /\ UNCHANGED <<published, mctpd, predicted, introspecting, misled, poolEvents>>

EndpointAdded ==
    /\ Handles("added")
    /\ \/ setupCallback /\ NotifyPresent
       \/ ~setupCallback /\ UNCHANGED <<lifecycle, setupCallback, associated>>

(* The callback of trackEndpoint; the watches remain. *)
EndpointRemoved ==
    /\ Handles("removed")
    /\ associated' = 0
    /\ lifecycle' = IF associated # 0 THEN "Lost" ELSE lifecycle
    /\ UNCHANGED setupCallback

-----------------------------------------------------------------------------
(* The reactor: tick, manageMCTPDevice and unmanageMCTPDevice. *)
Tick ==
    /\ ~introspecting /\ poolStart # 0
    /\ \/ lifecycle = "Unassigned" /\ Setup("Assigning")
       \/ lifecycle = "Lost" /\ Setup("Recovering")
    /\ UNCHANGED <<published, mctpd, associated, poolEvents>>

\* The device goes, with its watches and its association.
Dropped ==
    /\ predicted' = 0 /\ poolSignals' = <<>> /\ setupCallback' = FALSE
    /\ associated' = 0 /\ misled' = FALSE
    /\ UNCHANGED introspecting

Kept == UNCHANGED <<poolSignals, predicted, setupCallback, introspecting, associated, misled>>

Manage ==
    /\ Happens /\ ~introspecting
    /\ published' = TRUE
    /\ \/ lifecycle = "Unmanaged" /\ Setup("Assigning") /\ UNCHANGED associated
       \/ lifecycle \in {"Assigned", "Removing"} /\ lifecycle' = "Unassigned" /\ Dropped
       \/ lifecycle = "Quarantine" /\ lifecycle' = "Assigning" /\ Kept
       \/ lifecycle = "Recovered" /\ lifecycle' = "Assigned" /\ Kept
    /\ UNCHANGED mctpd

Unmanage ==
    /\ Happens /\ ~introspecting
    /\ published /\ published' = FALSE
    /\ \/ lifecycle \in {"Assigning", "Recovering"} /\ lifecycle' = "Quarantine" /\ Kept
       \/ lifecycle \in {"Unassigned", "Lost"} /\ lifecycle' = "Unmanaged" /\ Dropped
       \/ lifecycle = "Assigned" /\ lifecycle' = "Removing" /\ Dropped
       \/ lifecycle = "Recovered" /\ UNCHANGED lifecycle /\ Kept
    /\ UNCHANGED mctpd

-----------------------------------------------------------------------------
(* mctpd publishes endpoints of the bridge's pool and withdraws them.      *)
Signalled(e, kind) ==
    poolSignals' = IF e = predicted THEN Append(poolSignals, kind) ELSE poolSignals

EndpointAppears ==
    /\ Happens /\ poolStart # 0
    /\ \E e \in poolStart .. poolStart + PoolSize - 1 :
         e \notin endpoints /\ endpoints' = endpoints \cup {e} /\ Signalled(e, "added")
    /\ UNCHANGED <<published, poolStart, lifecycle, predicted, setupCallback, introspecting,
                   associated, misled>>

EndpointDisappears ==
    /\ Happens
    /\ \E e \in endpoints : endpoints' = endpoints \ {e} /\ Signalled(e, "removed")
    /\ UNCHANGED <<published, poolStart, lifecycle, predicted, setupCallback, introspecting,
                   associated, misled>>

(* The bridge is lost, or set up again, perhaps with another pool. *)
BridgeChanges ==
    /\ Happens /\ endpoints = {}
    /\ poolStart' \in PoolStarts \cup {0} /\ poolStart' # poolStart
    /\ misled' = (misled \/ (setupCallback /\ poolStart' # 0 /\ predicted # Resolved'))
    /\ UNCHANGED <<published, endpoints, poolSignals, lifecycle, predicted, setupCallback,
                   introspecting, associated>>

Proceeds == Introspect \/ EndpointAdded \/ EndpointRemoved \/ Tick

Next ==
    Proceeds \/ Manage \/ Unmanage \/ EndpointAppears \/ EndpointDisappears \/ BridgeChanges

Spec == Init /\ [][Next]_poolVars /\ WF_poolVars(Proceeds)

-----------------------------------------------------------------------------
Eids == UNION {s .. s + PoolSize - 1 : s \in PoolStarts}

TypeOK ==
    /\ published \in BOOLEAN /\ poolStart \in PoolStarts \cup {0} /\ endpoints \subseteq Eids
    /\ poolSignals \in Seq({"added", "removed"})
    /\ lifecycle \in {"Unmanaged", "Assigning", "Unassigned", "Assigned", "Quarantine", "Lost",
                      "Recovering", "Recovered", "Removing"}
    /\ {predicted, associated} \subseteq Eids \cup {0}
    /\ {setupCallback, introspecting, misled} \subseteq BOOLEAN

(* No association outlives its endpoint unnoticed: the endpoint exists or  *)
(* the signal that it does not is queued.  A device that waits is not      *)
(* associated.                                                             *)
AssociatedExists ==
    associated # 0 =>
        /\ associated = predicted /\ ~setupCallback
        /\ lifecycle \in {"Assigned", "Recovered"}
        /\ associated \in endpoints \/ \E i \in DOMAIN poolSignals : poolSignals[i] = "removed"

(* When nothing changes, an item is associated with the endpoint at its    *)
(* place in the pool, if it is there.                                      *)
FollowsPool ==
    published =>
        \/ misled
        \/ IF poolStart # 0 /\ Resolved \in endpoints
             THEN associated = Resolved
             ELSE associated = 0
Follows == <>[]FollowsPool
=============================================================================
