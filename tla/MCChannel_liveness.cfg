SPECIFICATION FairSpec
CONSTANTS
    t1 = t1
    t2 = t2
    k1 = k1
    k2 = k2
    Topics = {t1, t2}
    NoTopic = NoTopic
    Routed = {t1}
    Subs = {k1, k2}
    NoSub = NoSub
    Events = {"phx_join", "heartbeat"}
    Refs = {TRUE, FALSE}
    Timers = {"interval"}
    Failures = {"panic", "shutdown"}
    MaxRequests = 2
    MaxPublish = 1
    MaxOut = 2
PROPERTIES HeartbeatAnswered ClosedIsReaped ForwarderReaped TimersStop
CHECK_DEADLOCK FALSE
