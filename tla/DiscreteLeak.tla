---------------------------- MODULE DiscreteLeak ----------------------------
(***************************************************************************)
(* A leak detector read as one bit                                         *)
(* (src/src/DiscreteLeakDetectSensor.cpp): the bit is polled; a policy     *)
(* object, looked for once and read again after each of its signals, says  *)
(* whether a leak shuts the host or the chassis down, and after what       *)
(* delay.  A shutdown that waits is withdrawn by a generation number, as   *)
(* the handler of a timer that expired cannot be cancelled any more.       *)
(***************************************************************************)
EXTENDS Naturals, Sequences

CONSTANT MaxPolicyEvents    \* bound: changes of the bit and the policy, failures, new detectors

DiscreteAssumption == MaxPolicyEvents \in Nat

VARIABLES
    pin,            \* the detector is really wet
    leak,           \* leakLevel
    policy,         \* what the policy object says
    bound,          \* "unknown", "none" was found, "asked" - no match yet -, "matched", or "unmatched"
    loaded, known,  \* leakPolicyPropsLoaded_ and the properties
    calls,          \* GetAll calls the policy's service has not answered
    mail,           \* what the service sent and the daemon has not read
    armed, queued,  \* the generation of the shutdown timer, and of handlers that wait to run
    generation,
    off,            \* history: the shutdown requested since the leak was noticed
    stale,          \* history: a change of the policy was not, or cannot be, read
    policyEvents

discreteVars == <<pin, leak, policy, bound, loaded, known, calls, mail, armed, queued,
                  generation, off, stale, policyEvents>>

Policies == [reaction : {"None", "GracefulShutdown", "ForceOff"}, delayed : BOOLEAN]

\* A detector as it is constructed; its discovery of the policy begins.
New == [leak |-> FALSE, bound |-> "unknown", loaded |-> FALSE,
        known |-> [reaction |-> "None", delayed |-> FALSE]]

Start ==
    /\ pin = FALSE /\ policy = New.known
    /\ leak = FALSE /\ bound = "unknown" /\ loaded = FALSE /\ known = New.known
    /\ calls = 0 /\ mail = <<>> /\ armed = 0 /\ queued = {} /\ generation = 0
    /\ off = "none" /\ stale = FALSE /\ policyEvents = 0

Init == Start

Event == policyEvents < MaxPolicyEvents /\ policyEvents' = policyEvents + 1

-----------------------------------------------------------------------------
\* criticalReactionTriggersShutdown
Triggers(isLoaded, props) == isLoaded /\ props.reaction # "None"

\* executeShutdown
Target(props) == IF props.reaction = "GracefulShutdown" THEN "host" ELSE "chassis"

GenerationOnly ==
    armed' = armed /\ generation' = generation + 1 /\ UNCHANGED off

CancelPendingShutdown ==
    armed' = 0 /\ generation' = generation + 1 /\ UNCHANGED off

StartShutdown(props, sofar) ==
    /\ generation' = generation + 1
    /\ IF props.delayed THEN armed' = generation' /\ off' = sofar
       ELSE armed' = 0 /\ off' = Target(props)

-----------------------------------------------------------------------------
PinChanges ==
    /\ Event /\ pin' = ~pin
    /\ UNCHANGED <<leak, policy, bound, loaded, known, calls, mail, armed, queued, generation,
                   off, stale>>

\* getLeakInfo: a file that cannot be read shows no leak.
GetLeakInfo ==
    /\ bound # "asked"
    /\ \/ leak' = pin /\ UNCHANGED policyEvents
       \/ leak' = FALSE /\ pin /\ Event
    /\ IF leak' = leak THEN UNCHANGED <<armed, generation, off>>
       ELSE IF ~leak' THEN CancelPendingShutdown
       ELSE IF Triggers(loaded, known) THEN StartShutdown(known, "none")
       ELSE off' = "none" /\ UNCHANGED <<armed, generation>>
    /\ UNCHANGED <<pin, policy, bound, loaded, known, calls, mail, queued, stale>>

\* The mapper and the names are asked once: when one of them fails, or the policy comes
\* later, the detector has none for good.
BindLeakPolicy ==
    /\ bound = "unknown"
    /\ \/ /\ bound' = "asked" /\ CancelPendingShutdown
          /\ loaded' = FALSE /\ calls' = calls + 1 /\ UNCHANGED policyEvents
       \/ bound' = "none" /\ Event /\ UNCHANGED <<armed, generation, off, loaded, calls>>
    /\ UNCHANGED <<pin, leak, policy, known, mail, queued, stale>>

\* AddMatch returns, or fails; the daemon did nothing else meanwhile.
InstallLeakPolicyMatch ==
    /\ bound = "asked"
    /\ \/ bound' = "matched" /\ UNCHANGED policyEvents
       \/ bound' = "unmatched" /\ Event
    /\ UNCHANGED <<pin, leak, policy, loaded, known, calls, mail, armed, queued, generation,
                   off, stale>>

\* The service of the policy answers one GetAll after the other.
Answer ==
    /\ calls > 0 /\ calls' = calls - 1
    /\ \/ mail' = Append(mail, <<"reply", policy>>) /\ stale' = FALSE /\ UNCHANGED policyEvents
       \/ stale' = TRUE /\ Event /\ UNCHANGED mail
    /\ UNCHANGED <<pin, leak, policy, bound, loaded, known, armed, queued, generation, off>>

PolicyChanges ==
    /\ Event
    /\ \E p \in Policies \ {policy} : policy' = p
    /\ IF bound = "matched" THEN mail' = Append(mail, <<"changed">>) /\ UNCHANGED stale
       ELSE stale' = (stale \/ (bound \in {"asked", "unmatched"} /\ calls = 0)) /\ UNCHANGED mail
    /\ UNCHANGED <<pin, leak, bound, loaded, known, calls, armed, queued, generation, off>>

LoadAllPolicyProperties ==
    /\ bound # "asked" /\ mail # <<>> /\ Head(mail)[1] = "changed"
    /\ mail' = Tail(mail) /\ calls' = calls + 1
    /\ UNCHANGED <<pin, leak, policy, bound, loaded, known, armed, queued, generation, off,
                   stale, policyEvents>>

ApplyPolicyConfigMap ==
    /\ bound # "asked" /\ mail # <<>> /\ Head(mail)[1] = "reply"
    /\ mail' = Tail(mail) /\ known' = Head(mail)[2] /\ loaded' = TRUE
    /\ IF leak /\ Triggers(TRUE, known') THEN StartShutdown(known', off)
       ELSE CancelPendingShutdown
    /\ UNCHANGED <<pin, leak, policy, bound, calls, queued, stale, policyEvents>>

-----------------------------------------------------------------------------
TimerExpires ==
    /\ armed # 0
    /\ armed' = 0 /\ queued' = queued \cup {armed}
    /\ UNCHANGED <<pin, leak, policy, bound, loaded, known, calls, mail, generation, off,
                   stale, policyEvents>>

CurrentAny(g) == TRUE

\* A handler whose timer was withdrawn after it expired does nothing.
Current(g) == g = generation

HandleTimer ==
    /\ bound # "asked"
    /\ \E g \in queued :
          /\ queued' = queued \ {g}
          /\ off' = IF Current(g) /\ Triggers(loaded, known) THEN Target(known) ELSE off
    /\ UNCHANGED <<pin, leak, policy, bound, loaded, known, calls, mail, armed, generation,
                   stale, policyEvents>>

\* The configuration changes: a new detector; callbacks of the old one find it gone.
Recreate ==
    /\ Event /\ bound # "asked"
    /\ leak' = New.leak /\ bound' = New.bound /\ loaded' = New.loaded /\ known' = New.known
    /\ calls' = 0 /\ mail' = <<>> /\ armed' = 0 /\ queued' = {} /\ generation' = 0
    /\ off' = "none" /\ stale' = FALSE
    /\ UNCHANGED <<pin, policy>>

Proceeds ==
    \/ GetLeakInfo \/ BindLeakPolicy \/ InstallLeakPolicyMatch \/ Answer
    \/ LoadAllPolicyProperties \/ ApplyPolicyConfigMap \/ TimerExpires \/ HandleTimer

Next == Proceeds \/ PinChanges \/ PolicyChanges \/ Recreate

Spec == Init /\ [][Next]_discreteVars /\ WF_discreteVars(Proceeds)

-----------------------------------------------------------------------------
TypeOK ==
    /\ {pin, leak, loaded, stale} \subseteq BOOLEAN
    /\ policy \in Policies /\ known \in Policies
    /\ bound \in {"unknown", "none", "asked", "matched", "unmatched"}
    /\ armed \in {0, generation} /\ \A g \in queued : g <= generation
    /\ off \in {"none", "host", "chassis"}
    /\ policyEvents \in 0..MaxPolicyEvents

(* A shutdown is requested only while the leak lasts, and as the policy    *)
(* that is known then says, whatever ran or waited before.                 *)
ShutdownIsDue ==
    [][off' \notin {"none", off} =>
          leak' /\ Triggers(loaded', known') /\ off' = Target(known')]_discreteVars

(* A leak that lasts is followed by the shutdown its policy asks for, once *)
(* the detector found the policy and unless its last change could not be   *)
(* read.  One that found no policy does not look again, and shuts nothing  *)
(* down.                                                                   *)
LeakIsOff ==
    pin /\ policy.reaction # "None" /\ ~stale => off # "none" \/ (bound = "none" /\ ~loaded)
LeakShutsDown == <>[]LeakIsOff
=============================================================================
