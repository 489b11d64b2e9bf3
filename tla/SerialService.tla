---------------------------- MODULE SerialService ----------------------------
(***************************************************************************)
(* What a SerialQueue promises those that submit tasks to it, with nothing *)
(* said about handles, requests, events or the event loop: tasks begin in  *)
(* the order they were submitted, and none begins before the one ahead of  *)
(* it has ended.  Only the end of the queue discards tasks.                *)
(***************************************************************************)
EXTENDS Sequences

CONSTANT Tasks

VARIABLES
    line,   \* Seq(Tasks): submitted and not ended, oldest first
    begun   \* the task at the head of the line has begun

lineVars == <<line, begun>>

LineInit == line = <<>> /\ begun = FALSE

LineSubmit ==
    \E t \in Tasks :
        /\ line' = Append(line, t)
        /\ begun' = (begun \/ line = <<>>)

LineBegin ==
    /\ line # <<>> /\ ~begun
    /\ begun' = TRUE
    /\ UNCHANGED line

\* A task that finds nothing to do ends as it begins.
LineEnd ==
    /\ line # <<>>
    /\ line' = Tail(line)
    /\ begun' = FALSE

LineDestroy == line' = <<>> /\ begun' = FALSE

LineNext == LineSubmit \/ LineBegin \/ LineEnd \/ LineDestroy

LineSpec == LineInit /\ [][LineNext]_lineVars
=============================================================================
