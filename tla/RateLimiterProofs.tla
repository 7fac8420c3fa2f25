------------------------- MODULE RateLimiterProofs -------------------------
(***************************************************************************)
(* RateLimiter, for every set of tasks, rate, window and number of slots.  *)
(*                                                                         *)
(* That acquire() keeps to the rate rests on the deque: it never holds     *)
(* more than rpm timestamps (RoomOK), and it holds every one that is still *)
(* within the window (RecentOK).  The first needs the lock: while a task   *)
(* sleeps nobody touches the deque, so that the timestamp it waits for is  *)
(* still at its head when it wakes up (SleeperOK).                         *)
(***************************************************************************)
EXTENDS RateLimiter, FiniteSetTheorems, TLAPS

InDeque(c) == \E i \in 1..Len(stamps) : stamps[i] = c

RecentOK == \A c \in Callers : age[c] < Window => InDeque(c)

RoomOK == Len(stamps) <= Rpm

SleeperOK ==
    \A c \in Callers : at[c] = "sleeping" =>
        /\ sleeper = c
        /\ stamps # <<>>
        /\ due[c] = Head(stamps)

\* With its slot taken first, a task calls when it is stamped.
SameAge ==
    order = "slot_first" => ready = <<>> /\ \A c \in Callers : called[c] = age[c]

IInv == TypeOK /\ RecentOK /\ RoomOK /\ SleeperOK /\ SameAge

---------------------------------------------------------------------------
(* The deque.                                                              *)

LEMMA LiveIsSuffix ==
    ASSUME TypeOK, NEW k \in 0..Len(stamps)
    PROVE  /\ Live(k) \in Seq(Callers)
           /\ Len(Live(k)) = Len(stamps) - k
           /\ \A i \in 1..Len(Live(k)) : Live(k)[i] = stamps[k + i]
<1>1. stamps \in Seq(Callers)
  BY DEF TypeOK
<1>2. k \in 0..Len(stamps) /\ Len(stamps) \in Nat
  BY <1>1
<1>. QED
  BY <1>1, <1>2 DEF Live

\* What `while ... popleft()` leaves still holds every recent timestamp.
LEMMA LiveKeepsRecent ==
    ASSUME TypeOK, RecentOK, NEW k \in 0..Len(stamps), Expired(k),
           NEW c \in Callers, age[c] < Window
    PROVE  \E i \in 1..Len(Live(k)) : Live(k)[i] = c
<1>1. PICK i \in 1..Len(stamps) : stamps[i] = c
  BY DEF RecentOK, InDeque
<1>2. Len(stamps) \in Nat /\ k \in Nat
  BY DEF TypeOK
<1>3. i > k
  <2>1. ASSUME i <= k PROVE FALSE
    <3>1. age[stamps[i]] = Window
      BY <1>2, <2>1 DEF Expired
    <3>2. age[c] \in 0..Window
      BY DEF TypeOK
    <3>. QED
      BY <1>1, <3>1, <3>2, LimitsAreNat
  <2>. QED
    BY <1>2, <2>1
<1>4. i - k \in 1..Len(Live(k))
  BY <1>2, <1>3, LiveIsSuffix
<1>5. Live(k)[i - k] = stamps[k + (i - k)]
  BY <1>4, LiveIsSuffix
<1>6. k + (i - k) = i
  BY <1>2
<1>. QED
  BY <1>1, <1>4, <1>5, <1>6

\* What a stamp does to the deque, if there was room for it.
LEMMA StampKeepsDeque ==
    ASSUME TypeOK, RecentOK, NEW c \in Callers, NEW k \in 0..Len(stamps),
           Expired(k), Len(Live(k)) < Rpm, Stamp(c, Live(k))
    PROVE  RecentOK' /\ RoomOK' /\ stamps' \in Seq(Callers)
<1>. DEFINE live == Live(k)
<1>1. live \in Seq(Callers) /\ Len(live) \in Nat
  BY LiveIsSuffix
<1>2. stamps' = Append(live, c) /\ age' = [age EXCEPT ![c] = 0]
  BY DEF Stamp
<1>. HIDE DEF live
<1>3. stamps' \in Seq(Callers) /\ Len(stamps') = Len(live) + 1
  BY <1>1, <1>2
<1>4. RoomOK'
  BY <1>1, <1>3, LimitsAreNat DEF RoomOK, live
<1>5. RecentOK'
  <2>. SUFFICES ASSUME NEW d \in Callers, age'[d] < Window
                PROVE  \E i \in 1..Len(stamps') : stamps'[i] = d
    BY DEF RecentOK, InDeque
  <2>1. CASE d = c
    <3>1. stamps'[Len(live) + 1] = c
      BY <1>1, <1>2
    <3>2. Len(live) + 1 \in 1..Len(stamps')
      BY <1>1, <1>3
    <3>. QED
      BY <2>1, <3>1, <3>2
  <2>2. CASE d # c
    <3>1. age[d] < Window
      BY <1>2, <2>2 DEF TypeOK
    <3>2. PICK i \in 1..Len(live) : live[i] = d
      BY <3>1, LiveKeepsRecent DEF live
    <3>3. stamps'[i] = d
      BY <1>1, <1>2, <3>2
    <3>4. i \in 1..Len(stamps')
      BY <1>1, <1>3, <3>2
    <3>. QED
      BY <3>3, <3>4
  <2>. QED
    BY <2>1, <2>2
<1>. QED
  BY <1>3, <1>4, <1>5

\* The timestamp a sleeper waits for has left the window, so that one place is
\* free when it wakes up.
LEMMA WakeFindsRoom ==
    ASSUME IInv, NEW c \in Callers, at[c] = "sleeping", age[due[c]] = Window,
           NEW k \in 0..Len(stamps), Expired(k)
    PROVE  Len(Live(k)) < Rpm
<1>1. /\ stamps \in Seq(Callers)
      /\ stamps # <<>>
      /\ due[c] = Head(stamps)
      /\ Len(stamps) <= Rpm
  BY DEF IInv, TypeOK, SleeperOK, RoomOK
<1>2. Len(stamps) \in Nat \ {0} /\ Head(stamps) = stamps[1]
  BY <1>1
<1>3. k # 0
  <2>1. ASSUME k = 0 PROVE FALSE
    <3>1. age[stamps[0 + 1]] < Window
      BY <1>2, <2>1 DEF Expired
    <3>. QED
      BY <1>1, <1>2, <3>1, LimitsAreNat
  <2>. QED
    BY <2>1
<1>4. Len(Live(k)) = Len(stamps) - k
  BY LiveIsSuffix DEF IInv
<1>. QED
  BY <1>1, <1>2, <1>3, <1>4, LimitsAreNat

---------------------------------------------------------------------------
(* The invariant, action by action.                                        *)

LEMMA InitEstablishes == Init => IInv
<1>. SUFFICES ASSUME Init PROVE IInv
  OBVIOUS
<1>1. TypeOK
  BY LimitsAreNat DEF Init, TypeOK
<1>2. RecentOK /\ RoomOK /\ SleeperOK /\ SameAge
  BY LimitsAreNat DEF Init, RecentOK, RoomOK, SleeperOK, SameAge
<1>. QED
  BY <1>1, <1>2 DEF IInv

LEMMA ArriveKeeps == ASSUME IInv, NEW c \in Callers, Arrive(c) PROVE IInv'
<1>1. /\ at' = [at EXCEPT ![c] = "queued"]
      /\ waiting' = Append(waiting, c)
      /\ UNCHANGED <<order, sleeper, stamps, age, due, ready, called>>
  BY DEF Arrive
<1>2. TypeOK'
  BY <1>1 DEF IInv, TypeOK
<1>3. RecentOK' /\ RoomOK' /\ SameAge'
  BY <1>1 DEF IInv, RecentOK, RoomOK, SameAge, InDeque
<1>4. SleeperOK'
  BY <1>1 DEF IInv, TypeOK, SleeperOK
<1>. QED
  BY <1>2, <1>3, <1>4 DEF IInv

\* What Stamp does to the variables, as facts to be cited.
LEMMA StampEffect ==
    ASSUME IInv, NEW c \in Callers, NEW k \in 0..Len(stamps), Expired(k),
           Len(Live(k)) < Rpm, Stamp(c, Live(k)), order' = order
    PROVE  /\ RecentOK' /\ RoomOK' /\ SameAge'
           /\ stamps' \in Seq(Callers)
           /\ age' \in [Callers -> 0..Window]
           /\ called' \in [Callers -> 0..Window]
           /\ ready' \in Seq(Callers)
           /\ at' \in [Callers -> {"new", "queued", "sleeping", "ready", "calling", "done"}]
           /\ \A d \in Callers : at'[d] = "sleeping" => at[d] = "sleeping" /\ d # c
<1>. DEFINE starts == order = "slot_first" \/ (SlotIsFree /\ ready = <<>>)
<1>1. /\ age' = [age EXCEPT ![c] = 0]
      /\ at' = [at EXCEPT ![c] = IF starts THEN "calling" ELSE "ready"]
      /\ called' = IF starts THEN [called EXCEPT ![c] = 0] ELSE called
      /\ ready' = IF starts THEN ready ELSE Append(ready, c)
      /\ order = "slot_first" => starts
  BY DEF Stamp
<1>. HIDE DEF starts
<1>2. TypeOK
  BY DEF IInv
<1>3. RecentOK' /\ RoomOK' /\ stamps' \in Seq(Callers)
  BY StampKeepsDeque DEF IInv
<1>4. age' \in [Callers -> 0..Window] /\ called' \in [Callers -> 0..Window]
  BY <1>1, <1>2, LimitsAreNat DEF TypeOK
<1>5. ready' \in Seq(Callers)
  BY <1>1, <1>2 DEF TypeOK
<1>6. at' \in [Callers -> {"new", "queued", "sleeping", "ready", "calling", "done"}]
  BY <1>1, <1>2 DEF TypeOK
<1>7. \A d \in Callers : at'[d] = "sleeping" => at[d] = "sleeping" /\ d # c
  BY <1>1, <1>2 DEF TypeOK
<1>8. SameAge'
  BY <1>1, <1>2 DEF IInv, SameAge, TypeOK
<1>. QED
  BY <1>3, <1>4, <1>5, <1>6, <1>7, <1>8

LEMMA AdmitKeeps == ASSUME IInv, NEW c \in Callers, Admit(c) PROVE IInv'
<1>1. PICK k \in 0..Len(stamps) : Expired(k) /\ ~Full(Live(k)) /\ Stamp(c, Live(k))
  BY DEF Admit
<1>2. /\ waiting' = Tail(waiting)
      /\ waiting # <<>>
      /\ sleeper = Nobody
      /\ UNCHANGED <<order, sleeper, due>>
  BY DEF Admit, TakesLock
<1>3. Len(Live(k)) < Rpm
  BY <1>1, LiveIsSuffix, LimitsAreNat DEF Full, IInv
<1>7. waiting' \in Seq(Callers)
  BY <1>2 DEF IInv, TypeOK
<1>8. /\ order' \in {"limiter_first", "slot_first"}
      /\ sleeper' \in Callers \union {Nobody}
      /\ due' \in [Callers -> Callers \union {Nobody}]
  BY <1>2 DEF IInv, TypeOK
<1>4. TypeOK'
  BY <1>1, <1>2, <1>3, <1>7, <1>8, StampEffect DEF TypeOK
<1>5. \A d \in Callers : at'[d] # "sleeping"
  BY <1>1, <1>2, <1>3, StampEffect, NobodyIsNoCaller DEF IInv, SleeperOK
<1>6. SleeperOK'
  BY <1>5 DEF SleeperOK
<1>. QED
  BY <1>1, <1>2, <1>3, <1>4, <1>6, StampEffect DEF IInv

LEMMA SleepKeeps == ASSUME IInv, NEW c \in Callers, Sleep(c) PROVE IInv'
<1>1. PICK k \in 0..Len(stamps) :
         /\ Expired(k) /\ Full(Live(k))
         /\ stamps' = Live(k)
         /\ due' = [due EXCEPT ![c] = Head(Live(k))]
  BY DEF Sleep
<1>2. /\ at' = [at EXCEPT ![c] = "sleeping"]
      /\ sleeper' = c
      /\ waiting' = Tail(waiting)
      /\ waiting # <<>>
      /\ sleeper = Nobody
      /\ UNCHANGED <<order, age, ready, called>>
  BY DEF Sleep, TakesLock
<1>3. /\ Live(k) \in Seq(Callers)
      /\ Len(Live(k)) = Len(stamps) - k
      /\ Len(stamps) \in Nat
  BY <1>1, LiveIsSuffix DEF IInv, TypeOK
<1>4. Live(k) # <<>> /\ Head(Live(k)) \in Callers
  BY <1>1, <1>3, LimitsAreNat DEF Full
<1>10. waiting' \in Seq(Callers)
  BY <1>2 DEF IInv, TypeOK
<1>11. due' \in [Callers -> Callers \union {Nobody}]
  BY <1>1, <1>4 DEF IInv, TypeOK
<1>12. at' \in [Callers -> {"new", "queued", "sleeping", "ready", "calling", "done"}]
  BY <1>2 DEF IInv, TypeOK
<1>5. TypeOK'
  BY <1>1, <1>2, <1>3, <1>10, <1>11, <1>12 DEF IInv, TypeOK
<1>6. RecentOK'
  BY <1>1, <1>2, LiveKeepsRecent DEF IInv, RecentOK, InDeque
<1>7. RoomOK' /\ SameAge'
  BY <1>1, <1>2, <1>3, LimitsAreNat DEF IInv, RoomOK, SameAge
<1>8. \A d \in Callers : d # c => at[d] # "sleeping"
  BY <1>2, NobodyIsNoCaller DEF IInv, SleeperOK
<1>9. SleeperOK'
  BY <1>1, <1>2, <1>4, <1>8 DEF IInv, TypeOK, SleeperOK
<1>. QED
  BY <1>5, <1>6, <1>7, <1>9 DEF IInv

LEMMA WakeKeeps == ASSUME IInv, NEW c \in Callers, Wake(c) PROVE IInv'
<1>1. PICK k \in 0..Len(stamps) : Expired(k) /\ Stamp(c, Live(k))
  BY DEF Wake
<1>2. /\ at[c] = "sleeping" /\ age[due[c]] = Window
      /\ due' = [due EXCEPT ![c] = Nobody]
      /\ sleeper' = Nobody
      /\ UNCHANGED <<order, waiting>>
  BY DEF Wake
<1>3. Len(Live(k)) < Rpm
  BY <1>1, <1>2, WakeFindsRoom
<1>4. TypeOK'
  BY <1>1, <1>2, <1>3, StampEffect DEF IInv, TypeOK
<1>5. \A d \in Callers : at'[d] # "sleeping"
  BY <1>1, <1>2, <1>3, StampEffect DEF IInv, SleeperOK
<1>6. SleeperOK'
  BY <1>5 DEF SleeperOK
<1>. QED
  BY <1>1, <1>2, <1>3, <1>4, <1>6, StampEffect DEF IInv

LEMMA StartCallKeeps == ASSUME IInv, NEW c \in Callers, StartCall(c) PROVE IInv'
<1>1. /\ ready # <<>> /\ Head(ready) = c
      /\ ready' = Tail(ready)
      /\ at' = [at EXCEPT ![c] = "calling"]
      /\ called' = [called EXCEPT ![c] = 0]
      /\ UNCHANGED <<order, waiting, sleeper, stamps, age, due>>
  BY DEF StartCall
<1>0. order # "slot_first"
  BY <1>1 DEF IInv, SameAge
<1>5. SameAge'
  BY <1>0, <1>1 DEF SameAge
<1>2. TypeOK'
  BY <1>1, LimitsAreNat DEF IInv, TypeOK
<1>3. RecentOK' /\ RoomOK'
  BY <1>1 DEF IInv, RecentOK, RoomOK, InDeque
<1>4. SleeperOK'
  BY <1>1 DEF IInv, TypeOK, SleeperOK
<1>. QED
  BY <1>2, <1>3, <1>4, <1>5 DEF IInv

LEMMA FinishCallKeeps == ASSUME IInv, NEW c \in Callers, FinishCall(c) PROVE IInv'
<1>1. /\ at' = [at EXCEPT ![c] = "done"]
      /\ UNCHANGED <<order, waiting, sleeper, stamps, age, due, ready, called>>
  BY DEF FinishCall
<1>2. TypeOK'
  BY <1>1 DEF IInv, TypeOK
<1>3. RecentOK' /\ RoomOK' /\ SameAge'
  BY <1>1 DEF IInv, RecentOK, RoomOK, SameAge, InDeque
<1>4. SleeperOK'
  BY <1>1 DEF IInv, TypeOK, SleeperOK
<1>. QED
  BY <1>2, <1>3, <1>4 DEF IInv

LEMMA TickKeeps == ASSUME IInv, Tick PROVE IInv'
<1>1. /\ age' = [c \in Callers |-> Older(age[c])]
      /\ called' = [c \in Callers |-> Older(called[c])]
      /\ UNCHANGED <<order, at, waiting, sleeper, stamps, due, ready>>
  BY DEF Tick
<1>2. \A n \in 0..Window : Older(n) \in 0..Window /\ (Older(n) < Window => n < Window)
  BY LimitsAreNat DEF Older
<1>3. TypeOK'
  BY <1>1, <1>2 DEF IInv, TypeOK
<1>4. RecentOK'
  BY <1>1, <1>2 DEF IInv, TypeOK, RecentOK, InDeque
<1>5. RoomOK' /\ SleeperOK' /\ SameAge'
  BY <1>1 DEF IInv, RoomOK, SleeperOK, SameAge
<1>. QED
  BY <1>3, <1>4, <1>5 DEF IInv

LEMMA StepKeeps == ASSUME IInv, [Next]_vars PROVE IInv'
<1>1. CASE UNCHANGED vars
  BY <1>1 DEF IInv, vars, TypeOK, RecentOK, InDeque, RoomOK, SleeperOK, SameAge
<1>2. CASE Tick
  BY <1>2, TickKeeps
<1>3. ASSUME NEW c \in Callers, TaskStep(c) PROVE IInv'
  BY <1>3, ArriveKeeps, AdmitKeeps, SleepKeeps, WakeKeeps, StartCallKeeps, FinishCallKeeps
     DEF TaskStep
<1>. QED
  BY <1>1, <1>2, <1>3 DEF Next

---------------------------------------------------------------------------
(* Theorems.                                                               *)

LEMMA Invariance == Spec => []IInv
<1>. QED
  BY InitEstablishes, StepKeeps, PTL DEF Spec

\* The limiter and its tasks keep their types, for every set of tasks, rate,
\* window and number of slots (rate_limiter.py).
THEOREM LimiterTypeCorrect == Spec => []TypeOK
<1>1. IInv => TypeOK
  BY DEF IInv
<1>. QED
  BY <1>1, Invariance, PTL

InDequeSet == {stamps[i] : i \in 1..Len(stamps)}

\* A set of tasks that all stand in the deque is no larger than the deque.
LEMMA CountInDeque ==
    ASSUME TypeOK, NEW S \in SUBSET Callers, \A c \in S : InDeque(c)
    PROVE  Cardinality(S) \in Nat /\ Cardinality(S) <= Len(stamps)
<1>1. Len(stamps) \in Nat
  BY DEF TypeOK
<1>2. IsFiniteSet(1..Len(stamps)) /\ Cardinality(1..Len(stamps)) = Len(stamps)
  <2>1. \A n \in Nat : IsFiniteSet(1..n) /\ Cardinality(1..n) = n
    <3>1. TAKE n \in Nat
    <3>2. /\ IsFiniteSet(1..n)
          /\ Cardinality(1..n) = IF 1 > n THEN 0 ELSE n - 1 + 1
      BY FS_Interval
    <3>. QED
      BY <3>2
  <2>. QED
    BY <1>1, <2>1
<1>3. [i \in 1..Len(stamps) |-> stamps[i]] \in Surjection(1..Len(stamps), InDequeSet)
  BY DEF Surjection, InDequeSet
<1>4. IsFiniteSet(InDequeSet) /\ Cardinality(InDequeSet) <= Cardinality(1..Len(stamps))
  BY <1>2, <1>3, FS_Surjection
<1>5. S \subseteq InDequeSet
  BY DEF InDeque, InDequeSet
<1>6. Cardinality(S) <= Cardinality(InDequeSet) /\ IsFiniteSet(S)
  BY <1>4, <1>5, FS_Subset
<1>7. Cardinality(S) \in Nat /\ Cardinality(InDequeSet) \in Nat
  BY <1>4, <1>6, FS_CardinalityType
<1>. QED
  BY <1>1, <1>2, <1>4, <1>6, <1>7

LEMMA RateFollows == IInv => WithinRate
<1>. SUFFICES ASSUME IInv PROVE WithinRate
  OBVIOUS
<1>. DEFINE recent == {c \in Callers : age[c] < Window}
<1>1. \A c \in recent : InDeque(c)
  BY DEF IInv, RecentOK
<1>2. Cardinality(recent) \in Nat /\ Cardinality(recent) <= Len(stamps)
  BY <1>1, CountInDeque DEF IInv
<1>3. Cardinality(recent) <= Rpm
  BY <1>2, LimitsAreNat DEF IInv, TypeOK, RoomOK
<1>4. order = "slot_first" => {c \in Callers : called[c] < Window} = recent
  BY DEF IInv, SameAge
<1>. QED
  BY <1>3, <1>4 DEF WithinRate, PassesWithinRate, RequestsWithinRate

\* However many tasks wait for the same slot, and however late the sleeper is
\* run again, no window of time holds more than rpm timestamps
\* (rate_limiter.py:28-41). Where the slot is taken first, as the benchmark does
\* (runner.py:140, 173), the requests themselves keep to the rate.
THEOREM RateIsKept == Spec => []WithinRate
<1>. QED
  BY RateFollows, Invariance, PTL
=============================================================================
