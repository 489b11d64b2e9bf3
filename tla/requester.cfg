SPECIFICATION FairSpec
CONSTANTS
    Eids = {e1, e2}
    NoEid = NoEid
    MaxRequests = 2
    NumIids = 2
    MaxStray = 1
    MaxErrors = 1
INVARIANTS
    TypeOK
    NoRequestStranded
PROPERTIES
    AnswerMatchesRequest
    ChannelSafety
    EveryRequestCompletes
CHECK_DEADLOCK FALSE
