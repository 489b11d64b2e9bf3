SPECIFICATION Spec
CONSTANTS
    Eids = {e1, e2}
    NoEid = NoEid
    MaxRequests = 2
    NumIids = 3
    MaxStray = 0
    MaxErrors = 0
INVARIANT TimeoutIsOwn
CHECK_DEADLOCK FALSE
