SPECIFICATION Spec
CONSTANTS
    Eids = {e1, e2}
    NoEid = NoEid
    MaxRequests = 1
    NumIids = 3
    MaxStray = 1
    MaxErrors = 0
INVARIANT AlwaysListening
CHECK_DEADLOCK FALSE
