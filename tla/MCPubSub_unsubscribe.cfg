SPECIFICATION MCSpec
CONSTANTS
    c1 = c1
    c2 = c2
    s1 = s1
    s2 = s2
    t1 = t1
    t2 = t2
    Topics = {t1, t2}
    Callers = {c1, c2}
    Subs = {s1, s2}
    NoTopic = NoTopic
    NoSub = NoSub
    MaxBroadcasts = 1
    MaxQueue = 2
PROPERTIES UnsubscribeSparesLiving
CHECK_DEADLOCK FALSE
