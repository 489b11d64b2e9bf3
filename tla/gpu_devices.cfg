SPECIFICATION DevicesSpec
CONSTANTS
    Configs = {c1, c2}
    Eids = {e1}
    DeviceTypes = {gpu, nic}
    Other = Other
    NoConfig = NoConfig
    MaxSignals = 3
    MaxLosses = 1
    Props = {1, 2}
    EventTypes = {0, 3}
    NicPorts = 2
    MaxAttempts = 3
    MaxPolls = 2
    MaxFailures = 4
INVARIANTS
    DevicesTypeOK
    OnlyOvertakenSurvive
    OneContinuation
PROPERTIES
    EndpointsAreFound
    SetUpCompletes
CHECK_DEADLOCK FALSE
