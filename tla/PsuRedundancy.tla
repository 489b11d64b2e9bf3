--------------------------- MODULE PsuRedundancy ----------------------------
(***************************************************************************)
(* Redundancy of the power supplies (src/src/PSURedundancy.cpp): the       *)
(* supplies that work are counted once, one call after the other, and then *)
(* with each signal of a change.  The status and the loss of redundancy    *)
(* are set at the crossing of the configured counts only.                  *)
(*                                                                         *)
(* Nobody writes Status or RedundancyLost through D-Bus.                   *)
(***************************************************************************)
EXTENDS Integers, Sequences, FiniteSets

CONSTANTS
    TotalPSU, RedundantPSU, SufficientPSU,  \* the configuration
    MaxSupplyEvents                         \* bound: changes of the supplies and new configurations

PsuAssumption ==
    /\ {TotalPSU, RedundantPSU, SufficientPSU, MaxSupplyEvents} \subseteq Nat
    /\ SufficientPSU < RedundantPSU /\ RedundantPSU <= TotalPSU

VARIABLES
    functional,         \* supplies that work
    tallied,            \* supplies the constructor has read; TotalPSU + 1 once the match is there
    workable, previous, \* workablePSU and previousWorkablePSU
    status, redundancyLost, \* status is "none" while it is empty
    signals,            \* changes the daemon has not read yet
    unseen,             \* history: a supply changed between its reading and the match
    supplyEvents

psuVars == <<functional, tallied, workable, previous, status, redundancyLost, signals, unseen,
             supplyEvents>>

Supplies == 0..TotalPSU - 1

Start ==
    /\ functional = Supplies /\ tallied = 0
    /\ workable = 0 /\ previous = TotalPSU /\ status = "none" /\ redundancyLost = FALSE
    /\ signals = <<>> /\ unseen = FALSE /\ supplyEvents = 0

Init == Start

Event == supplyEvents < MaxSupplyEvents /\ supplyEvents' = supplyEvents + 1

Monitored == tallied > TotalPSU

-----------------------------------------------------------------------------
SupplyChanges ==
    /\ Event
    /\ \E s \in Supplies :
          /\ functional' = IF s \in functional THEN functional \ {s} ELSE functional \cup {s}
          /\ signals' = IF Monitored THEN Append(signals, s \in functional') ELSE signals
          /\ unseen' = (unseen \/ (s < tallied /\ ~Monitored))
    /\ UNCHANGED <<tallied, workable, previous, status, redundancyLost>>

\* setStatus, with n supplies that work.
Status(n) ==
    CASE n > previous /\ n >= RedundantPSU /\ n = TotalPSU -> "fullyRedundant"
      [] n > previous /\ n >= RedundantPSU /\ n # TotalPSU /\ previous < RedundantPSU ->
            "redundancyRegained"
      [] n > previous /\ n < RedundantPSU /\ previous = SufficientPSU -> "sufficient"
      [] n < previous /\ n >= RedundantPSU /\ previous = TotalPSU -> "redundancyDegradedFromFull"
      [] n < previous /\ n >= RedundantPSU /\ previous # TotalPSU -> "redundancyDegraded"
      [] n < previous /\ n < RedundantPSU /\ n = SufficientPSU -> "insufficient"
      [] n < previous /\ n < RedundantPSU /\ n > SufficientPSU /\ previous >= RedundantPSU ->
            "sufficientFromRedundant"
      [] OTHER -> status

SetStatus(n) ==
    /\ workable' = n /\ previous' = n
    /\ status' = Status(n)
    /\ redundancyLost' = IF n < previous /\ n < RedundantPSU /\ previous >= RedundantPSU THEN TRUE
                         ELSE IF n > previous /\ n < RedundantPSU /\ previous = SufficientPSU
                              THEN FALSE
                         ELSE redundancyLost

\* The constructor reads the supplies.
ReadSupply ==
    /\ tallied < TotalPSU
    /\ tallied' = tallied + 1
    /\ workable' = IF tallied \in functional THEN workable + 1 ELSE workable
    /\ UNCHANGED <<functional, previous, status, redundancyLost, signals, unseen, supplyEvents>>

\* Then sets the status and installs the match.
InstallMatch ==
    /\ tallied = TotalPSU /\ tallied' = tallied + 1
    /\ SetStatus(workable)
    /\ UNCHANGED <<functional, signals, unseen, supplyEvents>>

CountedUp(isFunctional) == workable + 1

Counted(isFunctional) == IF isFunctional THEN workable + 1 ELSE workable - 1

PsuEvent ==
    /\ Monitored /\ signals # <<>>
    /\ signals' = Tail(signals)
    /\ SetStatus(Counted(Head(signals)))
    /\ UNCHANGED <<functional, tallied, unseen, supplyEvents>>

\* Counted anew: the configuration changes, or a call failed, which ends the daemon.
Recreate ==
    /\ Event
    /\ tallied' = 0 /\ workable' = 0 /\ previous' = TotalPSU
    /\ status' = "none" /\ redundancyLost' = FALSE /\ signals' = <<>> /\ unseen' = FALSE
    /\ UNCHANGED functional

Proceeds == ReadSupply \/ InstallMatch \/ PsuEvent

Next == Proceeds \/ SupplyChanges \/ Recreate

Spec == Init /\ [][Next]_psuVars /\ WF_psuVars(Proceeds)

-----------------------------------------------------------------------------
TypeOK ==
    /\ functional \subseteq Supplies /\ tallied \in 0..TotalPSU + 1
    /\ ~unseen => workable \in 0..TotalPSU
    /\ {redundancyLost, unseen} \subseteq BOOLEAN
    /\ supplyEvents \in 0..MaxSupplyEvents

(* Without a change that fell between the first readings and the match,    *)
(* the count is that of the supplies that work when all signals are read,  *)
(* full redundancy is shown only when all work, redundancy only when       *)
(* enough do, and bare sufficiency only when too few do.                   *)
RedundancyIsCounted ==
    Monitored /\ signals = <<>> /\ ~unseen =>
        /\ workable = Cardinality(functional)
        /\ status = "fullyRedundant" => functional = Supplies
        /\ status \in {"redundancyRegained", "redundancyDegraded", "redundancyDegradedFromFull"} =>
              Cardinality(functional) >= RedundantPSU
        /\ status \in {"sufficient", "sufficientFromRedundant"} =>
              Cardinality(functional) < RedundantPSU
=============================================================================
