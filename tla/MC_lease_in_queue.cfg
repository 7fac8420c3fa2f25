\* A lease that gets old while its task waits for its turn: two sessions call the model for one execution.
SPECIFICATION Spec
CONSTANTS
    Execs = {e1, e2}
    Workloads <- AllExecs
    Runners = {r1, r2}
    Tokens = {t1, t2, t3, t4}
    NoToken = NoToken
    Concurrency = 1
    LongCalls = FALSE
    MaxMishaps = 1
INVARIANTS
    NeverContend
