\* Two sessions over one workload, with a crash, an early lapse or an error.
SPECIFICATION FairSpec
CONSTANTS
    Execs = {e1, e2}
    Workloads <- AllExecs
    Runners = {r1, r2}
    Tokens = {t1, t2, t3, t4}
    NoToken = NoToken
    Concurrency = 1
    LongCalls = TRUE
    MaxMishaps = 1
INVARIANTS
    TypeOK
    CalledOnce
    NoLapseNoContention
PROPERTIES
    CompleteIsFinal
    EveryExecutionSettles
