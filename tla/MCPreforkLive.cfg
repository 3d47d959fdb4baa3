SPECIFICATION FairSpec
CONSTANTS
    w1 = w1
    w2 = w2
    w3 = w3
    Workers = {w1, w2, w3}
    NoWorker = NoWorker
    wmin = 1
    wmax = 1
    rqmax = 1
    min_idle = 1
    ovstall = TRUE
    IdleTimeout = TRUE
    WorkerTimeout = TRUE
    StopKinds <- BothStops
    MaxConns = 3
    MaxFaults = 1
    MaxSlow = 1
INVARIANT NeverBlind
PROPERTY DrainComplete
PROPERTY ConnectionsTaken
PROPERTY ShutdownEnds
