SPECIFICATION FairSpec
CONSTANTS
    Devices = {d1, d2, d3}
    Endpoints = {e1, e2, e3}
    NoDevice = NoDevice
    NoEndpoint = NoEndpoint
    MaxCalls = 3
    Discovery = FALSE
    Faults = FALSE
INVARIANTS
    WaitingHasSetup
    AssociationIsTracked
    AssignedIsAssociated
PROPERTIES
    RemoveNeverRacesSetup
    PresentIsAssociated
    AbsentIsReleased
CHECK_DEADLOCK FALSE
