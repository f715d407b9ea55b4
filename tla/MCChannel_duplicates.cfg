SPECIFICATION Spec
CONSTANTS
    t1 = t1
    t2 = t2
    k1 = k1
    k2 = k2
    Topics = {t1}
    NoTopic = NoTopic
    Routed = {t1}
    Subs = {k1, k2}
    NoSub = NoSub
    Events = {"phx_join", "phx_leave"}
    Refs = {TRUE}
    Timers = {}
    Failures = {}
    MaxRequests = 3
    MaxPublish = 1
    MaxOut = 4
INVARIANTS PushedOnce
CHECK_DEADLOCK FALSE
