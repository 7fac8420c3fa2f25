\* Four tasks, two calls a window of three ticks, two slots: both orders of limiter and semaphore
SPECIFICATION FairSpec
CONSTANTS
    Callers = {c1, c2, c3, c4}
    Rpm = 2
    Window = 3
    Concurrency = 2
INVARIANTS
    TypeOK
    WithinRate
PROPERTIES
    EveryCallerServed
\* When every call is over there is nothing left to do.
CHECK_DEADLOCK FALSE
