SPECIFICATION FairSpec
CONSTANTS
    BufSize = 3
    BodyLimit = 2
    Requests <- FewRequests
    MaxRequests = 2
    Links <- PlainPipelined
    Leases = {TRUE, FALSE}
    Faults = {}
    MaxEvents = 1
PROPERTIES EveryRequestAnswered
CHECK_DEADLOCK FALSE
