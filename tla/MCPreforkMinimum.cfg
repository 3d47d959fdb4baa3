SPECIFICATION FairSpec
CONSTANTS
    w1 = w1
    w2 = w2
    w3 = w3
    Workers = {w1, w2, w3}
    NoWorker = NoWorker
    wmin = 1
    wmax = 2
    rqmax = 1
    min_idle = 1
    ovstall = FALSE
    IdleTimeout = FALSE
    WorkerTimeout = FALSE
    StopKinds <- NoStops
    MaxConns = 1
    MaxFaults = 1
    MaxSlow = 0
PROPERTY MinimumRestored
CHECK_DEADLOCK FALSE
