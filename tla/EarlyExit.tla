----------------------------- MODULE EarlyExit -----------------------------
(***************************************************************************)
(* A run with early_exit_on_ic_exclusion (orchestrator.                    *)
(* _run_rounds_with_early_exit): the groups of questions are asked in      *)
(* rounds, a paper whose answer fails an inclusion criterion drops out of  *)
(* the later ones, and its remaining questions are answered "skipped".     *)
(* What fails a criterion, and which questions of a group do not apply, is *)
(* recomputed from the formatted reply (annotate/scope.py), never taken    *)
(* from the model.                                                         *)
(*                                                                         *)
(* One invocation is one asyncio task; a step ends at each transaction and *)
(* each call of the provider.  The papers here have a source text, and one *)
(* chunk holds them all; texts, chunks, posting, batch ids and dumps are   *)
(* those of RunPipeline.                                                   *)
(***************************************************************************)
EXTENDS Naturals, FiniteSets

CONSTANTS NPapers,
          NQuestions,      \* questions are 1..NQuestions, in study order
          NRounds,
          RoundOf,         \* resolve_groups: the round each question is asked in
          Gates,           \* the questions that are inclusion criteria
          Needs,           \* conditions: the questions each one depends on, as
                           \* pairs of the question and the values that meet it
          Values,          \* extracted values, told apart by gates and conditions
          Failing,         \* the values that fail a gate; the others pass it or say nothing
          FailFast,        \* cfg.fail_fast
          BatchP1,         \* cfg.batch_p1: a provider batch, which may be waited for
          BatchP2,         \* cfg.batch_p2
          BrokenItems,     \* items of a reply may have to be thrown away
          MaxInvocations,  \* bounds: commands given, and calls that fail, waits for
          MaxMishaps       \* a batch and crashes together

Papers    == 1..NPapers
Questions == 1..NQuestions
Rounds    == 1..NRounds
Cells     == Papers \X Questions

ASSUME CountsAreNat == {NPapers, NQuestions, NRounds} \subseteq Nat \ {0}
ASSUME ManyRounds == NRounds > 1     \* a single group is asked as in RunPipeline
ASSUME RoundsAreKnown == RoundOf \in [Questions -> Rounds]
ASSUME GatesAreQuestions == Gates \subseteq Questions
ASSUME NeedsAreConditions == Needs \in [Questions -> SUBSET (Questions \X SUBSET Values)]
ASSUME FailingAreValues == Failing \subseteq Values
ASSUME FlagsAreBool == {FailFast, BatchP1, BatchP2, BrokenItems} \subseteq BOOLEAN
ASSUME BoundsAreNat == {MaxInvocations, MaxMishaps} \subseteq Nat

NoValue == "no value"
ASSUME NoValueIsNone == NoValue \notin Values

VARIABLES
    rows,          \* the answers table: status, what is answered, and the value
    \* The process.
    pc, round,
    excluded,      \* excluded_papers
    pending,       \* round_pending: one call for each of these papers
    replied,       \* papers whose text of this pass is there, and not yet used
    todo,          \* cells the loop at pc has still to write
    toMark,        \* the cell just saved that mark_failed has still to flip
    lost,          \* papers whose Pass-1 text is missing for no known reason
    results,       \* the current reply, after scope: what becomes of each question
    trouble,       \* an error that fail_fast is about
    \* Bookkeeping of the model.
    verdict, inv, mishaps

local  == <<excluded, pending, replied, todo, toMark, lost, results, trouble>>
bounds == <<inv, mishaps>>
vars   == <<rows, pc, round, local, verdict, bounds>>

Group(r)      == {q \in Questions : RoundOf[q] = r}
CellsOf(S)    == S \X Group(round)
NoRow         == [status |-> "absent", answer |-> "none", value |-> NoValue]
Done(a, v)    == [status |-> "done", answer |-> a, value |-> v]
NoResults     == [q \in Questions |-> NoRow]

Precedes(c, d) == c[1] < d[1] \/ (c[1] = d[1] /\ c[2] < d[2])
IsFirst(c)     == c \in todo /\ \A d \in todo : ~Precedes(d, c)

---------------------------------------------------------------------------
(* Scope: apply_scope_and_status over the items of one group's reply.      *)

\* An item of a reply.  A broken one has lost part of itself, and what it did
\* not get to has its default: it says "ok", and its value is read.
Items == [status : {"ok"}, value : Values, broken : {FALSE, BrokenItems}]
         \union [status : {"absent", "unmappable"}, value : {NoValue}, broken : {FALSE, BrokenItems}]

\* The questions of a group that do not apply: a question they depend on was
\* answered before them, applies itself, and has none of the values they need.
Inactive(items) ==
    LET out[q \in DOMAIN items] ==
            \E need \in Needs[q] :
                /\ need[1] \in DOMAIN items /\ need[1] < q
                /\ items[need[1]].status = "ok" /\ ~out[need[1]]
                /\ items[need[1]].value \notin need[2]
    IN  {q \in DOMAIN items : out[q]}

\* Gates with an answer that fails them; a question that does not apply has none.
FailedGates(items) ==
    {q \in (DOMAIN items \cap Gates) \ Inactive(items) :
        items[q].status = "ok" /\ items[q].value \in Failing}

\* Variant: the gate itself is, too.
OutOfScopeFrom(items) ==
    {q \in DOMAIN items : \E g \in FailedGates(items) : g <= q}

\* Everything after the first of them is out of scope.
OutOfScope(items) ==
    {q \in DOMAIN items : \E g \in FailedGates(items) : g < q}

\* Variant: a skipped question keeps the value the reply had for it.
ScopedKeepingValue(items) ==
    [q \in DOMAIN items |->
        IF q \in OutOfScope(items) \union Inactive(items)
        THEN Done("skipped", items[q].value)
        ELSE IF items[q].status # "ok" \/ items[q].broken
        THEN Done("error", NoValue)
        ELSE Done("ok", items[q].value)]

\* What is stored for each question.
Scoped(items) ==
    [q \in DOMAIN items |->
        IF q \in OutOfScope(items) \union Inactive(items)
        THEN Done("skipped", NoValue)
        ELSE IF items[q].status = "absent" \/ items[q].broken
        THEN Done("error", NoValue)
        ELSE IF items[q].status = "unmappable"
        THEN Done("invalid", NoValue)
        ELSE Done("ok", items[q].value)]

---------------------------------------------------------------------------

Mishap(b) ==
    /\ b => mishaps < MaxMishaps
    /\ mishaps' = IF b THEN mishaps + 1 ELSE mishaps

EndProcess(how) ==
    /\ pc' = "idle" /\ round' = 1
    /\ excluded' = {} /\ pending' = {} /\ replied' = {}
    /\ todo' = {} /\ toMark' = {} /\ lost' = {}
    /\ results' = NoResults
    /\ trouble' = FALSE
    /\ verdict' = how

Init ==
    /\ rows = [c \in Cells |-> NoRow]
    /\ pc = "idle" /\ round = 1
    /\ excluded = {} /\ pending = {} /\ replied = {}
    /\ todo = {} /\ toMark = {} /\ lost = {}
    /\ results = NoResults
    /\ trouble = FALSE
    /\ verdict = "none"
    /\ inv = 0 /\ mishaps = 0

\* excluded_papers begins empty, whatever the table says.
StartRun ==
    /\ pc = "idle"
    /\ inv < MaxInvocations
    /\ inv' = inv + 1
    /\ pc' = "skips"
    /\ verdict' = "none"
    /\ UNCHANGED <<rows, round, local, mishaps>>

\* Papers excluded by an earlier round: no call, the round's questions are skipped.
SaveSkip(c) ==
    /\ pc = "skips"
    /\ IsFirst(c)
    /\ rows' = [rows EXCEPT ![c] = Done("skipped", NoValue)]
    /\ todo' = todo \ {c}
    /\ UNCHANGED <<pc, round, excluded, pending, replied, toMark, lost, results, trouble,
                   verdict, bounds>>

\* Variant: a cell that failed is not asked again.
ListUnanswered ==
    /\ pc = "skips" /\ todo = {}
    /\ pending' = {p \in Papers \ excluded : \E c \in CellsOf({p}) : rows[c].status = "absent"}
    /\ pc' = IF pending' = {} THEN "tail" ELSE "pass1"
    /\ UNCHANGED <<rows, round, excluded, replied, todo, toMark, lost, results, trouble,
                   verdict, bounds>>

\* The others are asked, if a cell of theirs is not settled.
ListPending ==
    /\ pc = "skips" /\ todo = {}
    /\ pending' = {p \in Papers \ excluded : \E c \in CellsOf({p}) : rows[c].status # "done"}
    /\ pc' = IF pending' = {} THEN "tail" ELSE "pass1"
    /\ UNCHANGED <<rows, round, excluded, replied, todo, toMark, lost, results, trouble,
                   verdict, bounds>>

\* A call returns a text or an error; a batch may say nothing of one.
Pass1 ==
    /\ pc = "pass1"
    /\ \E ok \in SUBSET pending :
          /\ Mishap(ok # pending)
          /\ replied' = ok
          /\ todo' = CellsOf(pending \ ok)
          /\ lost' \in IF BatchP1 THEN SUBSET (pending \ ok) ELSE {{}}
    /\ pc' = "drop1"
    /\ UNCHANGED <<rows, round, excluded, pending, toMark, results, trouble, verdict, inv>>

\* The first call raised: no other is made, and the rounds end with this one.
Pass1Aborts ==
    /\ pc = "pass1" /\ ~BatchP1
    /\ Mishap(TRUE)
    /\ todo' = CellsOf(pending)
    /\ trouble' = TRUE
    /\ pc' = "abort"
    /\ UNCHANGED <<rows, round, excluded, pending, replied, toMark, lost, results, verdict, inv>>

\* The texts there are go to Pass 2 once the drops are written.
DropsDone == pc = "drop1" /\ todo = {} /\ toMark = {}

\* A batch is still running: the process ends until it is started again.
Park ==
    /\ \/ BatchP1 /\ pc = "pass1"
       \/ BatchP2 /\ DropsDone /\ replied # {}
    /\ Mishap(TRUE)
    /\ EndProcess("parked")
    /\ UNCHANGED <<rows, inv>>

\* save_answer, and mark_failed where an error is known.
Drop(c) ==
    /\ pc \in {"drop1", "abort", "drop2"} /\ toMark = {}
    /\ IsFirst(c)
    /\ rows' = [rows EXCEPT ![c] = Done("error", NoValue)]
    /\ todo' = todo \ {c}
    /\ toMark' = IF pc = "drop1" /\ c[1] \in lost THEN {} ELSE {c}
    /\ UNCHANGED <<pc, round, excluded, pending, replied, lost, results, trouble, verdict, bounds>>

MarkFailed(c) ==
    /\ c \in toMark
    /\ rows' = [rows EXCEPT ![c].status = "failed"]
    /\ toMark' = {}
    /\ UNCHANGED <<pc, round, excluded, pending, replied, todo, lost, results, trouble, verdict,
                   bounds>>

Pass2 ==
    /\ DropsDone
    /\ \E ok \in SUBSET replied : \E errors \in SUBSET (replied \ ok) :
          /\ ~BatchP2 => errors = replied \ ok
          /\ Mishap(ok # replied)
          /\ replied' = ok
          /\ todo' = CellsOf(errors)
    /\ lost' = {}
    /\ pc' = "drop2"
    /\ UNCHANGED <<rows, round, excluded, pending, toMark, results, trouble, verdict, inv>>

BeginTail ==
    /\ pc = "drop2" /\ todo = {} /\ toMark = {}
    /\ pc' = "tail"
    /\ UNCHANGED <<rows, round, local, verdict, bounds>>

\* _parse_save_post_tail: a reply that is cut off or cannot be parsed fails the
\* group; any other is put in scope, and excludes its paper if a gate failed.
TakeReply(p) ==
    /\ pc = "tail" /\ todo = {}
    /\ p \in replied
    /\ BatchP2 \/ \A x \in replied : p <= x
    /\ \/ \E items \in [Group(round) -> Items] :
             /\ results' = [q \in Questions |-> IF q \in Group(round) THEN Scoped(items)[q] ELSE NoRow]
             /\ excluded' = IF FailedGates(items) # {} THEN excluded \union {p} ELSE excluded
       \/ /\ results' = [q \in Questions |-> IF q \in Group(round) THEN Done("error", NoValue) ELSE NoRow]
          /\ UNCHANGED excluded
    /\ trouble' = (trouble \/ (FailFast /\ \E q \in Questions : results'[q].answer = "error"))
    /\ replied' = replied \ {p}
    /\ todo' = CellsOf({p})
    /\ UNCHANGED <<rows, pc, round, pending, toMark, lost, verdict, bounds>>

SaveReply(c) ==
    /\ pc = "tail"
    /\ IsFirst(c)
    /\ rows' = [rows EXCEPT ![c] = results[c[2]]]
    /\ todo' = todo \ {c}
    /\ results' = [results EXCEPT ![c[2]] = NoRow]
    /\ UNCHANGED <<pc, round, excluded, pending, replied, toMark, lost, trouble, verdict, bounds>>

\* Variant: the paper is forgotten once its round is over.
NextRoundForgetting ==
    /\ pc = "tail" /\ replied = {} /\ todo = {}
    /\ round < NRounds
    /\ round' = round + 1
    /\ pc' = "skips"
    /\ excluded' = {} /\ todo' = {}
    /\ pending' = {}
    /\ UNCHANGED <<rows, replied, toMark, lost, results, trouble, verdict, bounds>>

NextRound ==
    /\ pc = "tail" /\ replied = {} /\ todo = {}
    /\ round < NRounds
    /\ round' = round + 1
    /\ pc' = "skips"
    /\ todo' = excluded \X Group(round + 1)
    /\ pending' = {}
    /\ UNCHANGED <<rows, excluded, replied, toMark, lost, results, trouble, verdict, bounds>>

\* After the last round, or the one that was aborted, the run posts and ends.
Finish ==
    /\ \/ pc = "tail" /\ replied = {} /\ round = NRounds
       \/ pc = "abort" /\ toMark = {}
    /\ todo = {}
    /\ EndProcess(IF trouble /\ FailFast THEN "failed" ELSE "succeeded")
    /\ UNCHANGED <<rows, bounds>>

\* The process dies, or a batch that failed ends it.
Crash ==
    /\ pc # "idle"
    /\ Mishap(TRUE)
    /\ EndProcess("crashed")
    /\ UNCHANGED <<rows, inv>>

---------------------------------------------------------------------------

WriteStep ==
    \E c \in Cells : SaveSkip(c) \/ Drop(c) \/ MarkFailed(c) \/ SaveReply(c)

ProgramStep ==
    \/ ListPending \/ Pass1 \/ Pass1Aborts \/ Park \/ Pass2 \/ BeginTail
    \/ \E p \in Papers : TakeReply(p)
    \/ WriteStep \/ NextRound \/ Finish

Next == StartRun \/ ProgramStep \/ Crash

Spec == Init /\ [][Next]_vars

\* The event loop runs the task to its end, and the command is given again.
FairSpec == Spec /\ WF_vars(ProgramStep) /\ WF_vars(StartRun)

---------------------------------------------------------------------------

Row == [status : {"absent", "done", "failed"},
        answer : {"none", "ok", "invalid", "error", "skipped"},
        value : Values \union {NoValue}]

\* Type correctness of the table and the process; only an answer that is "ok"
\* has a value.
TypeOK ==
    /\ rows \in [Cells -> Row]
    /\ \A c \in Cells : rows[c].value # NoValue => rows[c].answer = "ok"
    /\ pc \in {"idle", "skips", "pass1", "drop1", "abort", "drop2", "tail"}
    /\ round \in Rounds
    /\ excluded \subseteq Papers /\ pending \subseteq Papers
    /\ replied \subseteq Papers /\ lost \subseteq Papers
    /\ todo \subseteq Cells /\ toMark \subseteq Cells
    /\ results \in [Questions -> Row]
    /\ trouble \in BOOLEAN
    /\ verdict \in {"none", "succeeded", "failed", "parked", "crashed"}
    /\ inv \in Nat /\ mishaps \in Nat

\* Why a question of a paper may be skipped, read off the stored answers: one
\* before it fails a criterion, or one it depends on has none of its values.
FailsAGateBefore(p, q) ==
    \E g \in Gates : g < q /\ rows[<<p, g>>].value \in Failing

LacksACondition(p, q) ==
    \E need \in Needs[q] :
        /\ need[1] < q /\ RoundOf[need[1]] = RoundOf[q]
        /\ rows[<<p, need[1]>>].value \notin need[2] \union {NoValue}

Reason(p, q) == FailsAGateBefore(p, q) \/ LacksACondition(p, q)

\* When a run has succeeded, whatever cut earlier ones short, no question is
\* skipped that the stored answers do not put out of scope.
SkippedForReason ==
    verdict = "succeeded" =>
        \A c \in Cells : rows[c].answer = "skipped" => Reason(c[1], c[2])

\* Where nothing failed, every question they put out of scope is skipped.
OutOfScopeIsSkipped ==
    (verdict = "succeeded" /\ mishaps = 0) =>
        \A c \in Cells : Reason(c[1], c[2]) => rows[c].answer = "skipped"

\* Every question of every paper is settled in the end, and stays so: those of
\* rounds an abort left out or a crash cut off are taken up by the next run.
EventuallySettled == \A c \in Cells : <>[](rows[c].status = "done")
=============================================================================
