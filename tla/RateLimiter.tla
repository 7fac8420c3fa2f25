---------------------------- MODULE RateLimiter ----------------------------
(***************************************************************************)
(* The sliding-window limiter of one provider (rate_limiter.py) and the    *)
(* tasks that share it.  acquire() holds an asyncio.Lock while it looks at *)
(* the deque of timestamps, and goes on holding it while it sleeps.        *)
(*                                                                         *)
(* Two programs use it in different orders: the passes of a run acquire    *)
(* first and then wait for the semaphore, a benchmark does it the other    *)
(* way round.  `order` says which of the two this behaviour is.            *)
(*                                                                         *)
(* Time is the age of each timestamp, in ticks, up to Window: older is     *)
(* no different.  A fractional rpm acts as the next whole number.          *)
(***************************************************************************)
EXTENDS Integers, Sequences, FiniteSets

CONSTANTS Callers,      \* the tasks, each of which makes one call
          Rpm,          \* per_provider_rpm
          Window,       \* self._window, in ticks
          Concurrency   \* permits of the semaphore

ASSUME LimitsAreNat ==
    /\ Rpm \in Nat \ {0}
    /\ Window \in Nat \ {0}
    /\ Concurrency \in Nat \ {0}

VARIABLES
    order,      \* "limiter_first" or "slot_first"
    at,         \* where each task is
    waiting,    \* the waiters of the lock, first come first served
    sleeper,    \* the task that holds the lock while it sleeps, if any
    stamps,     \* the deque, as the tasks whose `now` it holds
    age,        \* [Callers -> 0..Window]: ticks since the task's `now`
    due,        \* sleep_for: the timestamp whose end each sleeping task waits for
    ready,      \* tasks that wait for the semaphore with their stamp taken
    called      \* [Callers -> 0..Window]: ticks since the task's call began

vars == <<order, at, waiting, sleeper, stamps, age, due, ready, called>>

Nobody == "nobody"
ASSUME NobodyIsNoCaller == Nobody \notin Callers

Init ==
    /\ order \in {"limiter_first", "slot_first"}
    /\ at = [c \in Callers |-> "new"]
    /\ waiting = <<>> /\ sleeper = Nobody
    /\ stamps = <<>> /\ ready = <<>>
    /\ age = [c \in Callers |-> Window]
    /\ due = [c \in Callers |-> Nobody]
    /\ called = [c \in Callers |-> Window]

---------------------------------------------------------------------------
(* The semaphore.                                                          *)

HasSlot(c) ==
    \/ at[c] = "calling"
    \/ order = "slot_first" /\ at[c] \in {"queued", "sleeping"}

SlotIsFree == Cardinality({c \in Callers : HasSlot(c)}) < Concurrency

---------------------------------------------------------------------------
(* acquire().                                                              *)

Arrive(c) ==
    /\ at[c] = "new"
    /\ order = "slot_first" => SlotIsFree
    /\ at' = [at EXCEPT ![c] = "queued"]
    /\ waiting' = Append(waiting, c)
    /\ UNCHANGED <<order, sleeper, stamps, age, due, ready, called>>

\* The first k timestamps are those `while now - ts[0] >= window` pops.
Expired(k) ==
    /\ k \in 0..Len(stamps)
    /\ \A j \in 1..k : age[stamps[j]] = Window
    /\ k < Len(stamps) => age[stamps[k + 1]] < Window

Live(k) == SubSeq(stamps, k + 1, Len(stamps))

Full(live) == Len(live) >= Rpm

\* The task c has the lock, nobody sleeping on it.
TakesLock(c) ==
    /\ sleeper = Nobody
    /\ waiting # <<>> /\ Head(waiting) = c
    /\ at[c] = "queued"

\* `ts.append(now)` and the return: the call starts at once if the task has a
\* slot or finds one free.
Stamp(c, live) ==
    LET starts == order = "slot_first" \/ (SlotIsFree /\ ready = <<>>)
    IN  /\ stamps' = Append(live, c)
        /\ age' = [age EXCEPT ![c] = 0]
        /\ at' = [at EXCEPT ![c] = IF starts THEN "calling" ELSE "ready"]
        /\ called' = IF starts THEN [called EXCEPT ![c] = 0] ELSE called
        /\ ready' = IF starts THEN ready ELSE Append(ready, c)

Admit(c) ==
    /\ TakesLock(c)
    /\ \E k \in 0..Len(stamps) :
          /\ Expired(k)
          /\ ~Full(Live(k))
          /\ Stamp(c, Live(k))
    /\ waiting' = Tail(waiting)
    /\ UNCHANGED <<order, sleeper, due>>

\* Variant: the lock is not held while the task sleeps.
SleepUnlocked(c) ==
    /\ TakesLock(c)
    /\ \E k \in 0..Len(stamps) :
          /\ Expired(k)
          /\ Full(Live(k))
          /\ stamps' = Live(k)
          /\ due' = [due EXCEPT ![c] = Head(Live(k))]
    /\ at' = [at EXCEPT ![c] = "sleeping"]
    /\ waiting' = Tail(waiting)
    /\ UNCHANGED <<order, sleeper, age, ready, called>>

Sleep(c) ==
    /\ TakesLock(c)
    /\ \E k \in 0..Len(stamps) :
          /\ Expired(k)
          /\ Full(Live(k))
          /\ stamps' = Live(k)
          /\ due' = [due EXCEPT ![c] = Head(Live(k))]
    /\ at' = [at EXCEPT ![c] = "sleeping"]
    /\ sleeper' = c
    /\ waiting' = Tail(waiting)
    /\ UNCHANGED <<order, age, ready, called>>

\* Variant: the lock is not given back after the sleep.
WakeKeepingLock(c) ==
    /\ at[c] = "sleeping"
    /\ age[due[c]] = Window
    /\ \E k \in 0..Len(stamps) : Expired(k) /\ Stamp(c, Live(k))
    /\ due' = [due EXCEPT ![c] = Nobody]
    /\ UNCHANGED <<order, sleeper, waiting>>

\* sleep_for is what the oldest timestamp lacked to leave the window; the task
\* may run again any time after that, and looks at the deque again.
Wake(c) ==
    /\ at[c] = "sleeping"
    /\ age[due[c]] = Window
    /\ \E k \in 0..Len(stamps) : Expired(k) /\ Stamp(c, Live(k))
    /\ due' = [due EXCEPT ![c] = Nobody]
    /\ sleeper' = Nobody
    /\ UNCHANGED <<order, waiting>>

---------------------------------------------------------------------------
(* The call, and time.                                                     *)

StartCall(c) ==
    /\ ready # <<>> /\ Head(ready) = c
    /\ SlotIsFree
    /\ ready' = Tail(ready)
    /\ at' = [at EXCEPT ![c] = "calling"]
    /\ called' = [called EXCEPT ![c] = 0]
    /\ UNCHANGED <<order, waiting, sleeper, stamps, age, due>>

\* An answer, an error or a timeout.
FinishCall(c) ==
    /\ at[c] = "calling"
    /\ at' = [at EXCEPT ![c] = "done"]
    /\ UNCHANGED <<order, waiting, sleeper, stamps, age, due, ready, called>>

\* Variant: ages are not cut off.
OlderForEver(n) == n + 1

Older(n) == IF n < Window THEN n + 1 ELSE Window

Tick ==
    /\ \E c \in Callers : age[c] < Window \/ called[c] < Window
    /\ age' = [c \in Callers |-> Older(age[c])]
    /\ called' = [c \in Callers |-> Older(called[c])]
    /\ UNCHANGED <<order, at, waiting, sleeper, stamps, due, ready>>

TaskStep(c) ==
    Arrive(c) \/ Admit(c) \/ Sleep(c) \/ Wake(c) \/ StartCall(c) \/ FinishCall(c)

Next == Tick \/ \E c \in Callers : TaskStep(c)

Spec == Init /\ [][Next]_vars

\* The event loop runs every task that can run, and the clock goes on.
FairSpec == Spec /\ WF_vars(Tick) /\ \A c \in Callers : WF_vars(TaskStep(c))

---------------------------------------------------------------------------
(* Correctness.                                                            *)

\* Type correctness of the limiter and its tasks.
TypeOK ==
    /\ order \in {"limiter_first", "slot_first"}
    /\ at \in [Callers -> {"new", "queued", "sleeping", "ready", "calling", "done"}]
    /\ waiting \in Seq(Callers)
    /\ sleeper \in Callers \union {Nobody}
    /\ stamps \in Seq(Callers)
    /\ age \in [Callers -> 0..Window]
    /\ due \in [Callers -> Callers \union {Nobody}]
    /\ ready \in Seq(Callers)
    /\ called \in [Callers -> 0..Window]

\* acquire() lets no more than rpm tasks pass within any window, however many
\* wait for the same slot, and however late the one that sleeps wakes up.
PassesWithinRate == Cardinality({c \in Callers : age[c] < Window}) <= Rpm

\* The requests themselves keep to the rate where a task has its slot before it
\* acquires: nothing then comes between the timestamp and the call.
RequestsWithinRate ==
    order = "slot_first" => Cardinality({c \in Callers : called[c] < Window}) <= Rpm

\* The rate is kept, for the tasks let through and, where it can be, for the requests.
WithinRate == PassesWithinRate /\ RequestsWithinRate

\* Every task that asks is let through and makes its call, in spite of those
\* that ask after it.
EveryCallerServed == \A c \in Callers : at[c] = "queued" ~> at[c] = "done"
=============================================================================
