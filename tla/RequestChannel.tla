--------------------------- MODULE RequestChannel ---------------------------
(***************************************************************************)
(* What MctpRequester promises its clients (the GPU sensor objects), with  *)
(* nothing said about instance identifiers, timers, sockets or the event   *)
(* loop: requests addressed to one endpoint are completed one at a time,   *)
(* in the order they were submitted, each exactly once; only the death of  *)
(* the process discards requests, and it discards all of them.             *)
(***************************************************************************)
EXTENDS Naturals, Sequences

CONSTANTS Eids,         \* endpoint identifiers the daemon talks to
          MaxRequests   \* bound: requests submitted in one behaviour

Requests == 1..MaxRequests

VARIABLES
    pending,    \* [Eids -> Seq(Requests)]: not completed yet, oldest first
    completed   \* SUBSET Requests: callback invoked, or lost with the process

chanVars == <<pending, completed>>

Outstanding == {r \in Requests : \E e \in Eids : \E i \in DOMAIN pending[e] : pending[e][i] = r}

ChanInit ==
    /\ pending = [e \in Eids |-> <<>>]
    /\ completed = {}

ChanSubmit(e) ==
    \E r \in Requests :
        /\ r \notin completed \cup Outstanding
        /\ pending' = [pending EXCEPT ![e] = Append(@, r)]
        /\ UNCHANGED completed

ChanComplete(e) ==
    /\ pending[e] # <<>>
    /\ completed' = completed \cup {Head(pending[e])}
    /\ pending' = [pending EXCEPT ![e] = Tail(@)]

ChanDie ==
    /\ completed' = completed \cup Outstanding
    /\ pending' = [e \in Eids |-> <<>>]

ChanNext ==
    \/ \E e \in Eids : ChanSubmit(e) \/ ChanComplete(e)
    \/ ChanDie

ChanSpec ==
    /\ ChanInit
    /\ [][ChanNext]_chanVars
    /\ \A e \in Eids : WF_chanVars(ChanComplete(e))
=============================================================================
