SPECIFICATION Spec
CONSTANTS
    Devices = {d1, d2}
    Endpoints = {e1, e2}
    NoDevice = NoDevice
    NoEndpoint = NoEndpoint
    MaxCalls = 2
    Discovery = TRUE
    Faults = FALSE
CHECK_DEADLOCK FALSE
INVARIANT WaitingHasSetup
