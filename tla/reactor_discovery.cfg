SPECIFICATION Spec
CONSTANTS
    Devices = {d1, d2}
    Endpoints = {e1, e2}
    NoDevice = NoDevice
    NoEndpoint = NoEndpoint
    MaxCalls = 2
    Discovery = TRUE
    Faults = TRUE
CHECK_DEADLOCK FALSE
INVARIANTS TypeOK LostIsBare
