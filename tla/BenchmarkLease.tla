--------------------------- MODULE BenchmarkLease --------------------------
(***************************************************************************)
(* The benchmark runner (benchmarking/runner.py) over the executions table *)
(* of its store (benchmarking/store.py).  Several processes run over one   *)
(* file, for the same or for other model configurations; each leases the   *)
(* executions it works on with a token of its own, and gives back to the   *)
(* others what a dead process left running, once its lease is old.         *)
(*                                                                         *)
(* A session is one BenchmarkRunner.run in a process of its own.  Within   *)
(* it one task per execution runs in one event loop; a step ends at each   *)
(* transaction and where the task waits for the semaphore or the model.    *)
(***************************************************************************)
EXTENDS Naturals, FiniteSets

CONSTANTS Execs,         \* executions: (case, model configuration) pairs
          Workloads,     \* the sets of them a (dataset, configuration) selects
          Runners,       \* process slots: how many sessions run at a time
          Tokens,        \* uuid4 run tokens
          NoToken,       \* run_token IS NULL
          Concurrency,   \* calls one session has in flight
          LongCalls,     \* a call may take longer than stale_after_seconds
          MaxMishaps     \* bound: leases that get old while their task is
                         \* alive, calls that fail, processes that die

ASSUME WorkloadsAreExecs == Workloads \subseteq SUBSET Execs
ASSUME NoTokenIsNone == NoToken \notin Tokens
ASSUME LimitsAreNat == {Concurrency, MaxMishaps} \subseteq Nat
ASSUME LongCallsIsBool == LongCalls \in BOOLEAN

VARIABLES
    execs,       \* the table: status, run_token, the age of claimed_at, and
                 \* the session whose answer is stored, as its token
    phase,       \* where each session is in run(); "off" is no process
    token,       \* its run_token
    mine,        \* the executions of its dataset and configuration
    retry,       \* its --retry-errors
    task,        \* _run_one for each execution
    \* Bookkeeping of the model.
    excused,     \* executions that failed or were recovered
    calls,       \* calls made for each of the others
    lapses, errors, crashes

session == <<phase, token, mine, retry>>
counts  == <<calls, excused, lapses, errors, crashes>>
vars    == <<execs, session, task, counts>>

NoRow   == [status |-> "absent", token |-> NoToken, claimed |-> "null", answer |-> NoToken]
Pending == [status |-> "pending", token |-> NoToken, claimed |-> "null", answer |-> NoToken]

\* A row that can be claimed holds no answer.
Claimed(r) == [status |-> "running", token |-> token[r], claimed |-> "fresh", answer |-> NoToken]

\* The token is set and the call is not over.
Active == {"waiting", "calling", "failing"}

Live(r)     == phase[r] # "off"
Holds(r, e) == execs[e].token = token[r]
Calling(r)  == {e \in Execs : task[r][e] = "calling"}

\* The process is gone.
End(r) ==
    /\ phase' = [phase EXCEPT ![r] = "off"]
    /\ token' = [token EXCEPT ![r] = NoToken]
    /\ mine' = [mine EXCEPT ![r] = {}]
    /\ retry' = [retry EXCEPT ![r] = FALSE]

Excuse(S) ==
    /\ excused' = excused \union S
    /\ calls' = [e \in Execs |-> IF e \in S THEN 0 ELSE calls[e]]

Set(r, e, state) == task' = [task EXCEPT ![r][e] = state]

Init ==
    /\ execs = [e \in Execs |-> NoRow]
    /\ phase = [r \in Runners |-> "off"]
    /\ token = [r \in Runners |-> NoToken]
    /\ mine = [r \in Runners |-> {}]
    /\ retry = [r \in Runners |-> FALSE]
    /\ task = [r \in Runners |-> [e \in Execs |-> "none"]]
    /\ calls = [e \in Execs |-> 0]
    /\ excused = {}
    /\ lapses = 0 /\ errors = 0 /\ crashes = 0

---------------------------------------------------------------------------
(* run(): one transaction after the other.                                 *)

\* No uuid is drawn twice.  Which one is drawn makes no difference.
Unused == {t \in Tokens : /\ \A s \in Runners : token[s] # t
                          /\ \A e \in Execs : t \notin {execs[e].token, execs[e].answer}}

\* Variant: every running execution is taken for abandoned.
RecoverableAny(e) == execs[e].status = "running"

\* Variant: none is, so a crash strands what it was at.
RecoverableNone(e) == FALSE

Recoverable(e) == execs[e].status = "running" /\ execs[e].claimed = "old"

\* A process starts, and recover_stale_running goes over the whole file,
\* whatever configuration the executions are of.
Start(r) ==
    /\ ~Live(r)
    /\ Unused # {}
    /\ token' = [token EXCEPT ![r] = CHOOSE t \in Unused : TRUE]
    /\ \E work \in Workloads : mine' = [mine EXCEPT ![r] = work]
    /\ \E again \in BOOLEAN : retry' = [retry EXCEPT ![r] = again]
    /\ execs' = [e \in Execs |-> IF Recoverable(e) THEN Pending ELSE execs[e]]
    /\ Excuse({e \in Execs : Recoverable(e)})
    /\ phase' = [phase EXCEPT ![r] = "list"]
    /\ UNCHANGED <<task, lapses, errors, crashes>>

Open(r, e) == execs[e].status = "pending" \/ (retry[r] /\ execs[e].status = "error")

\* ensure_executions (INSERT OR IGNORE), then get_executions: rows another
\* session changes between the two could as well have been changed before.
\* They may change again before the session's tasks get to them.
List(r) ==
    /\ phase[r] = "list"
    /\ execs' = [e \in Execs |-> IF e \in mine[r] /\ execs[e].status = "absent"
                                 THEN Pending ELSE execs[e]]
    /\ task' = [task EXCEPT ![r] =
          [e \in Execs |-> IF e \in mine[r] /\ (Open(r, e) \/ execs[e].status = "absent")
                           THEN "todo" ELSE "none"]]
    /\ phase' = [phase EXCEPT ![r] = "work"]
    /\ UNCHANGED <<token, mine, retry, counts>>

\* gather has every result and the process ends.
Finish(r) ==
    /\ phase[r] = "work"
    /\ \A e \in Execs : task[r][e] = "none"
    /\ End(r)
    /\ UNCHANGED <<execs, task, counts>>

---------------------------------------------------------------------------
(* _run_one(e).  Its summary line aside, a task that is over is gone.      *)

\* Variant: the row was open when it was listed, and is not looked at again.
ClaimListed(r, e) ==
    /\ task[r][e] = "todo"
    /\ execs' = [execs EXCEPT ![e] = Claimed(r)]
    /\ Set(r, e, "waiting")
    /\ UNCHANGED <<session, counts>>

\* claim_execution: the lease begins before the task has waited its turn.
Claim(r, e) ==
    /\ task[r][e] = "todo"
    /\ IF Open(r, e)
       THEN /\ execs' = [execs EXCEPT ![e] = Claimed(r)]
            /\ Set(r, e, "waiting")
       ELSE execs' = execs /\ Set(r, e, "none")
    /\ UNCHANGED <<session, counts>>

\* The semaphore is free (and the rate limiter lets it pass): the model is called.
Call(r, e) ==
    /\ task[r][e] = "waiting"
    /\ Cardinality(Calling(r)) < Concurrency
    /\ Set(r, e, "calling")
    /\ calls' = [calls EXCEPT ![e] = IF e \in excused THEN 0 ELSE @ + 1]
    /\ UNCHANGED <<execs, session, excused, lapses, errors, crashes>>

\* The prompt cannot be built, the call raises, or the answer cannot be stored.
Fail(r, e) ==
    /\ task[r][e] \in {"waiting", "calling"}
    /\ lapses + errors + crashes < MaxMishaps
    /\ errors' = errors + 1
    /\ Excuse({e})
    /\ Set(r, e, "failing")
    /\ UNCHANGED <<execs, session, lapses, crashes>>

\* Variant: the lease is not given up.
SavedLeased(e, status, answer) == [execs[e] EXCEPT !.status = status, !.answer = answer]

\* save_execution: the row and its answers, where the token is still ours.
Saved(e, status, answer) ==
    [status |-> status, token |-> NoToken, claimed |-> "null", answer |-> answer]

\* Variant: the token is not compared.
SaveAnswerUnleased(r, e) ==
    /\ task[r][e] = "calling"
    /\ execs' = [execs EXCEPT ![e] = Saved(e, "complete", token[r])]
    /\ Set(r, e, "none")
    /\ UNCHANGED <<session, counts>>

\* The call is answered and its result saved; where the lease is lost, the
\* RuntimeError leads to the handler that saves an error.
SaveAnswer(r, e) ==
    /\ task[r][e] = "calling"
    /\ IF Holds(r, e)
       THEN execs' = [execs EXCEPT ![e] = Saved(e, "complete", token[r])] /\ Set(r, e, "none")
       ELSE execs' = execs /\ Set(r, e, "failing")
    /\ UNCHANGED <<session, counts>>

\* The handler: without the lease, "skipped" is all that is left.
SaveError(r, e) ==
    /\ task[r][e] = "failing"
    /\ execs' = IF Holds(r, e) THEN [execs EXCEPT ![e] = Saved(e, "error", NoToken)] ELSE execs
    /\ Set(r, e, "none")
    /\ UNCHANGED <<session, counts>>

---------------------------------------------------------------------------
(* Time and crashes.                                                       *)

Owned(e) == \E r \in Runners : Live(r) /\ Holds(r, e)

\* claimed_at gets old: of a row whose process is dead, or of a task that is
\* alive and waits for its turn, or has waited too long for the model.
LapseAbandoned(e) ==
    /\ execs[e].status = "running" /\ execs[e].claimed = "fresh"
    /\ ~Owned(e)
    /\ execs' = [execs EXCEPT ![e].claimed = "old"]
    /\ UNCHANGED <<session, task, counts>>

LapseAlive(r, e) ==
    /\ Live(r) /\ Holds(r, e) /\ execs[e].claimed = "fresh"
    /\ \/ task[r][e] = "waiting" /\ Calling(r) # {}
       \/ LongCalls /\ task[r][e] \in Active
    /\ lapses + errors + crashes < MaxMishaps
    /\ lapses' = lapses + 1
    /\ execs' = [execs EXCEPT ![e].claimed = "old"]
    /\ UNCHANGED <<session, task, calls, excused, errors, crashes>>

\* The process is killed, or an exception outside the handler ends gather.
Crash(r) ==
    /\ Live(r)
    /\ lapses + errors + crashes < MaxMishaps
    /\ crashes' = crashes + 1
    /\ End(r)
    /\ task' = [task EXCEPT ![r] = [e \in Execs |-> "none"]]
    /\ UNCHANGED <<execs, calls, excused, lapses, errors>>

---------------------------------------------------------------------------

SessionStep(r) == List(r) \/ Finish(r)

TaskStep(r, e) ==
    \/ Claim(r, e) \/ Call(r, e) \/ Fail(r, e)
    \/ SaveAnswer(r, e) \/ SaveError(r, e)

Next ==
    \/ \E r \in Runners :
          \/ Start(r) \/ SessionStep(r) \/ Crash(r)
          \/ \E e \in Execs : TaskStep(r, e) \/ LapseAlive(r, e)
    \/ \E e \in Execs : LapseAbandoned(e)

Spec == Init /\ [][Next]_vars

\* An event loop runs its tasks to the end, and a call is answered or times
\* out; time passes; the benchmark is started again over every workload.
Fairness ==
    /\ \A r \in Runners : WF_vars(SessionStep(r) \/ \E e \in Execs : TaskStep(r, e))
    /\ \A work \in Workloads : SF_vars(\E r \in Runners : Start(r) /\ mine'[r] = work)
    /\ WF_vars(\E e \in Execs : LapseAbandoned(e))

FairSpec == Spec /\ Fairness

---------------------------------------------------------------------------

Leased(row) == /\ row.token # NoToken <=> row.status = "running"
               /\ row.claimed # "null" <=> row.status = "running"
               /\ row.answer # NoToken <=> row.status = "complete"

\* Type correctness of the table, the sessions and their tasks; a row has a
\* token and a claimed_at exactly while it is running, an answer once complete.
TypeOK ==
    /\ execs \in [Execs -> [status : {"absent", "pending", "running", "complete", "error"},
                            token : Tokens \union {NoToken}, claimed : {"null", "fresh", "old"},
                            answer : Tokens \union {NoToken}]]
    /\ phase \in [Runners -> {"off", "list", "work"}]
    /\ token \in [Runners -> Tokens \union {NoToken}]
    /\ mine \in [Runners -> SUBSET Execs]
    /\ retry \in [Runners -> BOOLEAN]
    /\ task \in [Runners -> [Execs -> {"none", "todo"} \union Active]]
    /\ calls \in [Execs -> Nat]
    /\ excused \subseteq Execs
    /\ lapses \in Nat /\ errors \in Nat /\ crashes \in Nat
    /\ \A e \in Execs : Leased(execs[e])

\* A stored answer is final: no session that lost its lease, claims late or
\* recovers what it takes for abandoned ever touches it again.
CompleteIsFinal ==
    [][\A e \in Execs : execs[e].status = "complete" => execs'[e] = execs[e]]_vars

\* A call is paid for again only if one failed or the execution was recovered.
CalledOnce == \A e \in Execs : calls[e] <= 1

\* "Two processes never contend for the same cell."
NeverContend ==
    \A e \in Execs, r, s \in Runners :
        task[r][e] \in Active /\ task[s][e] \in Active => r = s

\* That holds, whoever crashes, as long as no lease gets old under a live task.
NoLapseNoContention == lapses = 0 => NeverContend

\* Every execution begun is answered or has failed in the end, even when its
\* process died or its lease was lost.
EveryExecutionSettles ==
    \A e \in Execs :
        execs[e].status \in {"pending", "running"} ~> execs[e].status \in {"complete", "error"}
=============================================================================
