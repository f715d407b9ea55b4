SPECIFICATION FairSpec
CONSTANTS
    BufSize = 3
    BodyLimit = 5
    Requests <- AllRequests
    MaxRequests = 3
    Links <- AllLinks
    Leases = {TRUE, FALSE}
    Faults = {"eof", "broken"}
    MaxEvents = 1
INVARIANTS AnsweredAsSent ClosedForAReason BufferBounded
PROPERTIES AnsweredUnlessPipelined
CHECK_DEADLOCK FALSE
