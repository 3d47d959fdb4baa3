SPECIFICATION Spec
CONSTANTS
    w1 = w1
    w2 = w2
    w3 = w3
    Workers = {w1, w2, w3}
    NoWorker = NoWorker
    wmin = 1
    wmax = 2
    rqmax = 1
    min_idle = 1
    ovstall = FALSE
    IdleTimeout = TRUE
    WorkerTimeout = TRUE
    StopKinds <- BothStops
    MaxConns = 3
    MaxFaults = 1
    MaxSlow = 1
SYMMETRY Symmetry
INVARIANT TypeOK
INVARIANT NoAssertionFails
INVARIANT InStep
INVARIANT NoStrayWorkers
INVARIANT WorkerLimit
INVARIANT LossAccounted
INVARIANT IInv
PROPERTY BusyNeverShot
PROPERTY ImplementsService
