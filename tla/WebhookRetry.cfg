SPECIFICATION Spec
CONSTANTS
    Scenes <- WebhookScene
    Callers = {t1, t2}
    Keys = {k1, k2}
    RateLimit = 2
    LastMinute = 2
    Jobs = {j1, j2}
    Workers = {w1, w2}
    Pollers = {p1}
    MaxJobs = 1
    Cases = {c1}
    Senders = {s1, s2}
    MaxRows = 2
    MaxRetries = 2
    Ids = {n1, n2, n3}
    Signals <- AllSignals
    Base <- Weights
    MinSamples = 2
    Window = 1
CHECK_DEADLOCK FALSE
PROPERTY
    FailedRetried
