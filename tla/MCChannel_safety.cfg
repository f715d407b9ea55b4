SPECIFICATION Spec
CONSTANTS
    t1 = t1
    t2 = t2
    k1 = k1
    k2 = k2
    Topics = {t1}
    NoTopic = NoTopic
    Routed = {t1}
    Subs = {k1, k2}
    NoSub = NoSub
    Events = {"phx_join", "phx_leave", "heartbeat", "event", "send_event"}
    Refs = {TRUE}
    Timers = {"later"}
    Failures = {"panic", "cut"}
    MaxRequests = 3
    MaxPublish = 2
    MaxOut = 3
SYMMETRY Sym
INVARIANTS NothingLostWhileJoined RepliesInOrder QuietUnlessJoined JoinedIsLive
CHECK_DEADLOCK FALSE
