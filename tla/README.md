# Verification of seer-annotator

TLA+ models of `seer_annotator`, the program that answers the extraction questions
of a systematic review with language models and delivers the answers to SEER, a
review server. The models are translated from the Python source and checked with
TLC; the theorems are proved with TLAPS. All paths below are relative to the
repository; `orchestrator.py` etc. are in `seer_annotator/`.

## 1. The system

A *run* has papers and questions; a *cell* is one (paper, question) pair. Questions
are asked in groups, one LLM call per (paper, group). Each call has two passes:
Pass 1 extracts a text from the paper, Pass 2 formats that text into structured
answers. The answers are parsed, verified against the paper and stored locally in
SQLite; then they are posted to SEER, paper by paper.

| Component | Source | State it keeps | Operations |
|---|---|---|---|
| Answer store | `store.py` | `answers` rows (status, payload, `posted_at`), `kv` (batch ids), `ocr_cache`, arbitration twins | save, mark failed / posted, reset, the queries behind skip, post, repost, reformat |
| Run pipeline | `orchestrator.py` | counters, chunk, error flags (in memory only) | `run_pipeline`, rounds with early exit, `pass1_pipeline`, `pass2_pipeline`, `reformat_pipeline` |
| Pass executors, batch providers | `batch_runner.py` | Pass-1 dump files, batch ids in `kv` | online probe and fan-out; submit, save id, poll, collect, dump |
| Delivery | `seer_client.py` | none | bulk post with retries, heartbeats, fetching source texts |
| Command line | `cli.py`, `config.py` | none | `run` (`--dry-run`, `--reset-runs`, `--papers`), `pass1`, `pass2`, `repost`, `reformat`, `arbitrate`, `bench` |
| Source text cache | `source_text.py` | `ocr_cache` | cached text, else SEER |
| Rate limiter | `rate_limiter.py` | a lock and a deque of call times per provider | acquire |
| Scope | `annotate/scope.py` | none | inclusion criteria, exclusion, applicability |
| Parsing, verification | `annotate/parse.py`, `verify.py`, `citation.py`, `reply_quality.py` | none | reply to answers, quote matching |
| Arbitration | `arbitrate_orchestrator.py` | the `resolutions` table | `arbitrate`, `arbitrate-pass1`, `arbitrate-pass2`, repost, reformat over disputed items |
| Benchmark | `benchmarking/runner.py`, `store.py` | `executions` rows with a lease (`run_token`, `claimed_at`) | recover, list, claim, call, save |
| UI, progress, pricing, prompts | `ui/`, `progress.py`, `pricing.py`, `annotate/prompt.py` | none that matters | display, text |

How they interact. One `run` is one process with one asyncio task; provider calls of
a pass run concurrently but nothing is written until they have all returned. What
makes it hard is what lies between two transactions: the process may die or be
parked (a batch is still running: the process ends and a scheduler starts it
again), a post may reach SEER without its reply coming back, and every later command
(`run`, `repost`, `reformat`, a dry run, a reset) works on the table the earlier ones
left. `pass1` and `pass2` are commands of their own with nothing but that table between
them. Only the benchmark has several processes on one file at the same time, and only
the rate limiter has tasks that wait for one another.

What makes each component correct:

* store and delivery: an answer is considered delivered only if SEER has *that* answer;
  nothing stored stays undelivered for ever;
* pipeline: a run that says it succeeded has answered everything in its scope; a
  provider's failure is tried again; counters agree with the table;
* split passes: what waits for `pass2` can be formatted, and is formatted from its own
  text, however often `pass1` was repeated;
* arbitration: the resolutions of a paper keep to the path of the study;
* rate limiter: never more than the rate, and nobody forgotten;
* rounds: a question is skipped exactly when the stored answers put it out of scope;
* batches: an id is held exactly for the batches in flight; texts are paid for once;
  an answer carries the text it was made from;
* benchmark: a stored answer is final; a call is paid once; abandoned work is taken up.

## 2. Modules

| Module | What it is |
|---|---|
| `AnswerDelivery` | the abstract promise of delivery: answers are built, received, settled; a debt is written off only when SEER has the answer |
| `AnswerStore` | what each method of `Store` does to one row of `answers`, as operators |
| `RunPipeline` | `run`, `run --dry-run`, `run --reset-runs`, `repost` and `reformat` on one run id, with both pass executors, batches, dumps, posting, crashes |
| `MCRunPipeline` | groupings and `--papers` filters for TLC |
| `SplitPasses` | `pass1`, `pass2` (with and without posting) and `repost` as separate commands over one table, with both executors |
| `MCSplitPasses` | the sequences of commands for TLC |
| `SplitPassesProofs` | theorems about `SplitPasses` |
| `Arbitration` | `arbitrate` (with `--reset-runs` and `--disputes`), `arbitrate-pass1`, `arbitrate-pass2`, `arbitrate-repost` over the resolutions |
| `MCArbitration` | dispute sets and sequences of commands for TLC |
| `ArbitrationProofs` | theorems about `Arbitration` |
| `RateLimiter` | the sliding window of `rate_limiter.py`, its lock, and the semaphore before or behind it |
| `RateLimiterProofs` | theorems about `RateLimiter` |
| `RunPipelineProofs` | types of `RunPipeline`, and the lemmas on its phases and rows that the next two rest on |
| `DeliveryProofs`, `PassProofs` | theorems about `RunPipeline`: what reaches SEER and what a run reports; batches and texts |
| `EarlyExit` | a run that asks its groups of questions in rounds and stops asking about a paper that failed an inclusion criterion; what `annotate/scope.py` computes from a reply |
| `MCEarlyExit` | a division into rounds and a condition for TLC |
| `EarlyExitProofs` | theorems about `EarlyExit` |
| `BenchmarkLease` | several benchmark runners over the executions table |
| `MCBenchmarkLease` | its workloads for TLC |
| `BenchmarkLeaseProofs` | theorems about `BenchmarkLease` |

### RunPipeline and the code

`rows` is the answers table, `kv1`/`kv2` the batch ids of the two passes (as the content
of the batch they name), `dump` the `p1_<run>_<chunk>.json` files, `ocr` the text cache,
`sent` what SEER last received. The other variables are the locals of `run_pipeline`
(`pending`, `p1`, `p1err`, `p2`, `hadFatal`, `quota`, `firstErr`, `todo` for the loop at
`pc`); a crash or an end of the process clears them (`EndProcess`) and leaves the first
group as it is. `inv` numbers the invocations, and a text or payload is identified by
the invocation that obtained it: this is all of its content that the properties tell
apart. `verdict`, `refused`, `postFailed`, `live1`, `live2` (batches in flight), `paid` (texts
batches have delivered) and `freshFrom` (the reset after which a call's texts are new) are
read by properties only.

`pc` moves where the code commits a transaction, calls the provider or calls SEER:

    boundary -> noocr -> pass1 [-> p1save -> p1poll -> p1dump] -> p1drop
             -> pass2 [-> p2save -> p2poll] -> p2drop -> tail -> post <-> send -> ack
             -> boundary (next chunk) | idle

`save_answer` followed by `mark_failed` are two steps (`DropP1`/`DropP2`, then
`MarkDropped`), as they are two transactions; so are submitting a batch and saving its
id, deleting the id and writing the dump, posting and `mark_posted`. A provider call
is a choice among an answer, an error, and (in a batch) nothing; `Mishap` bounds how
often the bad choices are made. A reply is parsed to an answer or an extraction error.

Simplifications: one run id; a provider's batch keeps its requests and comes back
whole; a text of a paper never changes; SEER takes all items of a request or none; a run
with `early_exit_on_ic_exclusion` is left to `EarlyExit`. Two
processes on one run id are not modelled: nothing in the code allows for it and the
README of the repository has one scheduler per run.

### EarlyExit and the code

`rows` holds what the answers say rather than where they came from: the extraction
status of each (`ok`, `invalid`, `error`, `skipped`) and its value, which is one of a set
that gates and conditions tell apart. `Items` is what the parser can hand on for a
question; `Inactive`, `FailedGates`, `OutOfScope` and `Scoped` are the four things
`apply_scope_and_status` does with the items of one reply. `excluded` is
`excluded_papers`, which lives in memory only.

    idle -> skips -> pass1 -> drop1 -> drop2 -> tail -> skips (next round) | idle
                           -> abort -> idle

A pass is one step here with any outcome the two executors can have; how a batch is
submitted, kept and collected, what a text is, posting and the counters are the subject
of `RunPipeline`, and nothing of them reads or writes an exclusion. Each saved answer
and each `mark_failed` is a step, since the process can die between them. One chunk, and
papers that all have a text: papers without one take no part in the rounds. Running out
of quota is left out (it ends the run like `fail_fast`).

### SplitPasses and the code

The store is that of `RunPipeline` with one dump and one batch id for each pass, since
neither command has chunks. `Script` says which commands may be given at each turn.

    idle -> texts -> pass1 [-> p1poll] -> store -> idle                    (pass1)
    idle -> paper -> pass2 [-> p2poll] -> tail -> send -> ack -> paper ... (pass2)
    idle -> paper -> send -> ack -> paper ...                              (repost)

`pass1` writes a row for each question of a group, the text in the first one only;
`pass2` joins the rows that still wait by their group and looks for the text in the
first of them. So a group of which some rows were overwritten or answered is where
this can go wrong, and `SaveText` and `SaveReply` write one row a step. Submitting and
saving the id are one step here, and so are collecting and writing the dump:
`RunPipeline` has those windows. Left out: dry runs, `--papers`, and the cells a host
application may hand to `pass2_pipeline`.

### Arbitration and the code

`Items` are the disputed items in study order, each of a paper; `rows` is the
`resolutions` table, whose methods do to a row what their twins on `answers` do, so
that `Arbitration` uses the operators of `AnswerStore`. A resolution has a verdict, a
value, the invocation that made it and the text it was made from, itself the invocation
and the items that were asked: what the properties compare. `Replies` are the replies a
parser can hand on for a group; `Path` is `_apply_adjudication_scope`, `Arbitrated` and
`Formatted` are what the tails of `arbitrate` and `arbitrate-pass2` make of one.

    idle -> chunk -> fetch -> drop1 -> drop2 -> tail -> post <-> send -> ack ... -> chunk | idle
    idle -> chunk -> fetch -> store -> idle                       (arbitrate-pass1)
    idle -> paper -> drop1 -> drop2 -> tail -> post ... -> paper  (arbitrate-pass2)

Each row that is written, each `mark_resolution_failed`, each post is a step. Passes are
asked online. A reply that is no document counts as a mishap: if a model returned one
for ever, `fail_fast` would stop `arbitrate` at it for ever. Left out: see section 5.

### RateLimiter and the code

`acquire` is `Arrive` (queue for the lock), then `Admit` or `Sleep` when the lock is
ours; `Wake` follows a `Sleep`, and the lock stays taken in between. `stamps` is the
deque with tasks for entries, and `age[c]` is how long ago task `c` read the clock. Time
passes in `Tick`s, at any moment, also between the end of a sleep and the wake-up.
The passes of a run take a slot of the semaphore *after* `acquire`
(`batch_runner.py:1228-1231`), a benchmark *before* it (`benchmarking/runner.py:173`):
`order` has both. Not considered: that a timer may fire early by the clock's resolution;
that a fractional rpm acts as the next whole number; the requests the provider's SDK
repeats by itself.

### BenchmarkLease and the code

`execs` is the `executions` table. A claim time is not a clock value: `claimed` is
"fresh" until a step of the clock makes it "old" (older than `stale_after_seconds`).
`LapseAbandoned` ages rows whose process is gone, at any time; `LapseAlive` ages one
whose task is alive, but only where the code can really be that slow: while its task
waits behind another call of its session, or, with `LongCalls`, at any point after the
claim. A session is one `BenchmarkRunner.run` with its uuid token; a task is
`_run_one`, with a step per transaction and one where the semaphore lets it call.

## 3. Runs

Bounds: `MaxInvocations` commands are given (or as many as `Script` has), of which the
last may be the one that recovers; `MaxSetbacks` or `MaxMishaps` provider or SEER
failures, missing texts, parks and cancels; `MaxCrashes`; in `SplitPasses` and
`Arbitration` only the first `Troubled` invocations meet any.

| Run | Instance | Shows |
|---|---|---|
| `online` | run, reset, repost; 2 papers in 2 chunks, 2 questions in one call; 3 commands, 2 setbacks, 1 crash | types; a clean successful run leaves nothing unsent and nothing unanswered; counters match the table; the pipeline implements `AnswerDelivery`, so that `posted_at` is true of the payload stored |
| `commands` | all five commands, both passes batched, 2 chunks, whole pipeline or last paper, `fail_fast`, 3 commands, 1 setback, 1 crash | repost sends everything; fail_fast runs raise; after a reset neither an answer's text nor the text it was formatted from is older than the reset, except for a call of which a dump or a parked Pass-2 batch kept a text; good answers survive a missing text |
| `batches` | run; both passes batched, 2 chunks, 4 commands, 1 setback, 1 crash | ids and batches in flight agree and failures stay retryable, but for one of each per killed process; texts are bought once, but for those a killed process had in hand, and no cell is given an error for want of a text that a batch delivered; answers carry their text; texts are lost only after a failure; answers are eventually sent, open and failed cells eventually answered, batches eventually taken |
| `split` | 2 papers, 2 questions in one call; pass1, pass2 and pass2 `--no-post` in any order three times, then each once more and repost; each pass batched or not; 1 setback, 1 crash | types; an answer carries the text it was formatted from and a waiting group has its text, unless the process died within a group; all is answered and sent; `AnswerDelivery` is implemented |
| `arbitration` | paper 1: a gate and an item that depends on it; paper 2: one item; a stage in part or whole, then any command, then `arbitrate`; `fail_fast`; 1 mishap, 1 crash | types; a gate that fails has no answers after it and what is not applicable has its reason, whichever commands wrote the rows and whichever died half-way; failures stay retryable, but for one per killed process; all is settled and sent; `AnswerDelivery` is implemented |
| `rate` | 4 tasks, 2 calls in 3 ticks, 2 slots | at most rpm tasks are let through in a window, and where the slot comes first at most rpm requests are made; every task is served |
| `early_exit` | 2 papers, 2 rounds: a gate, a gate that depends on it, then a third question; 2 runs, 1 failure, wait or crash | skipped questions have a reason and those with a reason are skipped; every question is settled in the end |
| `lease` | 2 executions, 2 sessions at a time, concurrency 1, one mishap, long calls | answers final; paid once; contention only after a lapse; everything settles |

Why these are enough: two papers with a chunk size of 1 give a first and a last chunk
and a paper with and without work; two questions in a call give groups of which one
cell is done and one is not; three invocations give one that is cut short, one that
resumes and one that finds the result; four where a batch is parked twice. In `split` a
group can be cut in two by a crash of either command and then met by the other, and a
batch of each pass can be left for a later command. In `arbitration` the two items of
paper 1 are one group of which the gate alone may be disputed, stored by one command and
read by another. In `rate` four tasks for a rate of two make one sleep while another
queues behind it, and let the second window fill before the first is over. In
`early_exit` the first paper can be excluded while the second is not, within a round by
the first gate or at its end by the second, so that skipping happens both inside a reply
and in the round after it; a second run finds a table the first left at any point. With two
executions and concurrency 1 one waits while the other is called; four tokens let two
sessions die with rows still theirs. Every behaviour of `RunPipeline`, `SplitPasses`,
`Arbitration` and `EarlyExit` ends when the bounds are used up, and of `RateLimiter` when
every call is over, so their runs do not check deadlock. `lease` does: a session can
always be started again as long as tokens last, and they do.

Runs that end in a violation, each of a statement made by the repository:

| Run | Statement | What the code does |
|---|---|---|
| `broken_gate` | `mapping.py:255-257`: skipped because "an earlier inclusion-criteria answer ... already excluded the paper" | the exclusion is computed before damaged items are thrown away: the gate is stored as an error, its paper is excluded all the same, and the skipped rows are final |
| `lease_in_queue` | `benchmarking/README.md:136-138`: "two processes never contend for the same cell" | the lease starts before the task waits for its turn; it gets old in the queue, another session takes the row, and both call the model |
| `split_other_paper` | `batch_runner.py:1006-1008`: for callers that do not chunk "there's only ever one "chunk" so no collision is possible either way" | `pass2` asks for every paper under the key `<run>:p2:0`; a batch parked for paper 2 is collected while paper 1 is formatted, and its replies are thrown away |
| `arbitrate_split` | `cli.py:1120-1122`: store results with `arbitrate-pass1`, then "run 'seer-annotate arbitrate-pass2' afterwards to format and post results" | two `--disputes` of one paper get the same group id; `arbitrate-pass2` joins them and formats the second item from the text of the first |

Other disagreements the same models show, when the property named is put in a
configuration of the kind described, or which reading the code for them showed (they
are not kept as runs).

About `run` and `reformat`:

* `reformat` replaces the payload of a posted row and keeps `posted_at`, so that no `run`
  sends the new one, against `store.py:309` "Payloads saved for this paper that SEER has
  not been sent yet": `PostedMeansSent` with `reformat` among the commands. Its docstring
  sends the user to `repost`, which delivers it (`RepostSendsEverything`);
* a crash between `save_answer` and `mark_failed` leaves the error answer as `done`, against
  `orchestrator.py:893-897` "retryable on the next run, instead of permanently poisoning
  it": `RetryableAtRest` with 0 in place of `crashes`: the one
  answer it allows for each kill is this one;
* the dump is keyed by run and chunk number, and a run with another `--papers` filter takes
  the wrong one and saves "no Pass-1 text" as final, against `batch_runner.py:1000-1006`
  "two chunks of the same run never collide": `LostOnlyAfterFailure` with batches and two
  filters. `TextsBoughtOnce` fails there too: the dump that has the text is under the number
  the other filter gave the paper, and the text is bought again. So does `PaidTextsAreUsed`: the
  cell is told that there is no text when a batch has delivered it;
* a dump that is resumed has no errors in it, so a cell that had failed is settled by a
  final error (`batch_runner.py:1081` against 119-121). An action property that forbids a step
  from a `failed` row to a `done` one of kind `p1_lost` fails with Pass 1 batched and two runs.
  It is no property of a run: online it could not fail, because every call has its text or its
  own error there;
* `--reset-runs` leaves dumps and batch ids in place, so the next run uses old texts, against
  README.md:650 "it clears cached answers" (`store.py:386-388` deletes rows only): `ResetMeansFresh`
  without the exception `KeptText` in `StartAfresh`;
* a crash between submit and saving the id orphans a batch, against README.md:438:
  `EveryBatchHasItsId` with 0 in place of `crashes`;
* a crash between deleting the id and writing the dump loses paid texts, against
  `batch_runner.py:1081` "crash-safe resume without re-billing": `TextsBoughtOnce` fails if
  `Crash` leaves `paid` as it is, instead of taking out of it the texts in hand at `p1dump`;
* a Pass-2 batch line that cannot be read leaves its cells without any row while the run
  succeeds: `SucceededMeansComplete` with batches (`batch_runner.py:675`, 1398-1399);
* with Pass 1 online and Pass 2 batched, a run parked on its Pass-2 batch asks Pass 1
  again when it is re-entered and pairs the new texts with replies about the old ones,
  against `batch_runner.py:155-156` "simply polls once more": `FormattedFromItsText` with
  `BatchP1 = FALSE`;
* the rounds begin with no paper excluded, whatever the table says. A run that was parked,
  aborted or killed after the answer that excluded a paper asks that paper's later
  questions after all, against `orchestrator.py:412-417` "no further LLM calls are issued
  for it": `OutOfScopeIsSkipped` without its condition on mishaps;
* a Pass 1 that aborts ends the rounds, and without `fail_fast` the run succeeds with the
  questions of the later rounds unanswered: a `SucceededMeansComplete` for `EarlyExit`;
* two crashes can leave a group of three or more questions half rewritten, so that a skipped
  one has lost the answer that put it out of scope; the next reply mends it, but a Pass-2
  batch that says nothing of the paper, or a Pass 1 that aborts without `fail_fast`, lets the
  run succeed without one: `SkippedForReason` with three invocations, groups of three and
  `BatchP2`, or `FailFast` and `BatchP1` both `FALSE` (`mapping.py:255-257`);
* an explicit `batching` list may ask questions out of study order, so that an exclusion
  skips questions that come before the gate: `SkippedForReason` with `RoundOf` not
  monotone (`batching.py:27-45` against `mapping.py:255-257`).

About `pass1` and `pass2`:

* `pass1` asks the groups that are `pass1_done` again and throws the texts away, and after a
  crash writes over the `done` and `posted` rows of a group that has an open one, against
  README.md:483 "`posted`, `done`, and `pass1_done` cells are never recomputed by `pass1` on
  resume" (`orchestrator.py:1123-1162`);
* an answer whose post failed is not posted by a later `pass2`, which passes over papers
  with nothing waiting, against README.md:57 "automatically posted": it takes a `run` or a
  `repost`. Therefore `EventuallyPosted` needs the last command of its script;
* a `pass2` that dies within a group leaves the rest of its rows without a text: `pass2`
  skips them for ever, only `pass1` recovers them (`AwaitingHasText` without its condition);
* with `batch_p1` a dump without a call leaves its group out of every later `pass1`: hence
  the exception in `EventuallyPosted`.

About arbitration:

* README.md:540 says that every arbitration command mirrors its annotation counterpart, and
  556 that Pass 2 is "the exact same code paths". `arbitrate-pass2` walks no path, has no
  check that the reply is complete, does not look at `item_error`, and fails the whole group
  for one omitted key: `ExclusionIsFollowed` is about `arbitrate` only;
* a value that is no option of the question is an `ok` resolution without a value for
  `arbitrate`, which hands its own verdict to `build_resolution` (`mapping.py:183`,
  `arbitrate_orchestrator.py:171-179`), and `invalid` for `arbitrate-pass2`; README.md:636
  counts `invalid` as an error. Such values are not in the model;
* `arbitrate-pass2 --disputes` formats the whole group but saves the items asked for, so
  that the others wait without a text until `arbitrate` asks them again;
* a `--disputes` filter that leaves the continuation items out splits a paper into several
  groups, and a gate is then not followed by the items of the others;
* `arbitrate-pass2` formats the rows that wait and leaves the others as they are, whatever
  they rest on. With three items in one group and two crashes: `arbitrate-pass1` stores
  all three; `arbitrate` dies after it wrote "no" for the gate and "not applicable" for the
  second; `arbitrate-pass1` dies after it rewrote the gate; `arbitrate-pass2` then answers
  the gate and the third, and the second stays not applicable with no reason left. It is
  `PathIsKept` with three items, two crashes and `arbitrate-pass2`: the run has one crash,
  the theorem no `arbitrate-pass2`;
* a gate that is damaged still makes later items not applicable, as in `broken_gate`:
  hence the exception in `NotApplicableForReason`;
* the comment at `arbitrate_orchestrator.py:656-658` has a totally broken run "reported as
  failed instead of silently completing"; lines 812 and 838 do so only with `fail_fast`.

About the limiter: `--rpm` is "max requests per minute" (README.md:124). The passes take
their stamp before they wait for the semaphore, so that requests which waited may start
together: `RequestsWithinRate` without its condition on `order`.

Fairness. `WF(ProgramStep)`: asyncio runs the one task, and provider and SEER calls
return or time out (all have timeouts). `WF(StartRun("run", Papers))`: whoever owns the
run gives the command again, which README.md asks of the user for failed cells and which
SEER's scheduler does for a parked run; it is bounded by `MaxInvocations`, chosen above
the number of mishaps, so that the last invocation meets none. `EarlyExit` assumes the
same two, with its own `StartRun`; `SplitPasses` and `Arbitration` assume `WF(UserStep)`,
that the user gives the next command of the script. `RateLimiter` assumes weak fairness
of each task, which the event loop gives it (the lock and the semaphore of asyncio are
first come first served, and so are they in the model), and that the clock goes on. In `BenchmarkLease`
fairness of each session is that of its event loop; `WF(LapseAbandoned)` is that time
passes; `SF(Start)` per workload is that the benchmark is started again. Strong fairness
is needed there because the process slot is taken again and again by other sessions.

## 4. Proofs

All hold for every number of papers, questions, executions and sessions, every grouping,
chunk size, flag and bound, from the assumptions on constants named in each module.

`RunPipeline`. Three groups of lemmas are shared: what each phase of a run has in hand
(`PhaseInv`: a loop's cells are of the chunk, nothing is to be marked outside the drop loops,
a verdict stands only when the process is gone), that a row is absent exactly when it has
no payload (`RowsSound`), and what each action may do to a row (`RowsWritten`).

* `RunPipelineProofs!TypeCorrect`: `Spec => []TypeOK`. It is inductive as it stands, but
  for one fact: the chunk number stays within `1..NPapers`, because a run that is not in
  its last chunk has a paper in a later one.
* `DeliveryProofs!PostedIsSent`: `Spec => []PostedMeansSent`, assuming that `reformat` is
  not among the commands, which is necessary (section 3). The
  property says nothing of the steps between reading a payload and marking it: the
  strengthening adds that between the post and `mark_posted` SEER was sent what is in
  the outbox, and that the outbox is what the rows hold.
* `DeliveryProofs!DeliveryIsImplemented`: `Spec => ImplementsDelivery` under the same
  assumption. A row write is `Build`, a post `Receive`, `mark_posted` `Settle` (of cells
  for which the invariant has shown that SEER has the answer), a reset `Discard`, and
  every other step a stutter.
* `DeliveryProofs!RepostReachesSeer`: `RepostSendsEverything`, from no assumption: a repost
  reads every finished answer whatever `posted_at` says. The invariant splits the papers of
  the scope into those visited, whose finished answers SEER has as they are stored, the one
  being visited, and those left (`papersLeft`).
* `DeliveryProofs!CleanRunDelivers`: `CleanRunLeavesNothingUnsent`, without `reformat`. The
  same split, but across chunks: a chunk that is over has nothing owed, and nothing of it
  is written again. That posting finds all that is owed needs `PostedIsSent`'s invariant.
* `DeliveryProofs!FailuresStayRetryable`: `Spec => []RetryableAtRest`, from no assumption. A
  provider error that is not `failed` is in `toMark`, which holds at most one cell, or was left
  behind by a kill: the invariant counts the latter (`LeftBehind`) against `crashes`. The process
  cannot end by itself while `toMark` holds anything, and a crash adds at most that one cell.
* `DeliveryProofs!FailFastIsHeard`: `FailFastRunsRaise`, from no assumption. An extraction error
  of this invocation is in the table only if `firstErr` is set, or its cell was of a chunk
  whose end has already asked.
* `DeliveryProofs!SuccessIsComplete`: `SucceededMeansComplete`, assuming that Pass 2 is not
  batched, which is necessary (section 3). Each cell of the scope is answered, or in a later
  chunk, or in the hands of the phase at `pc`: it is pending, has a text, has an error, or
  is in the loop's `todo`.
* `DeliveryProofs!CountersAreTrue`: `CountersMatchStore`, from no assumption, cardinalities
  included: a counter moves with the one cell that is written.
* `PassProofs!BatchesAreRecorded`: `EveryBatchHasItsId`, from no assumption. In between a batch
  is submitted and its id not yet saved, or taken and its id not yet deleted: the invariant
  names the phase in which each may be so, and a crash in it is the one that is counted.
* `PassProofs!AnswersFormatTheirText`: `FormattedFromItsText`, assuming that nobody
  reformats and that Pass 2 is batched only if Pass 1 is: otherwise a Pass-2 batch that
  was parked is paired with new texts (section 3). A parked Pass-2 batch is about the texts
  in the dump, and the dump is what Pass 1 brings back when the run is entered again.
* `PassProofs!ResetForgetsTexts`: `ResetMeansFresh`, from no assumption, whichever pass is
  batched. Texts are obtained by the invocation that runs and otherwise only move (`TextsMove`):
  from a batch to the hands of a run, to a dump, to a Pass-2 batch, to a row. The invariant says of
  each of these places that what it has of a call is no older than `freshFrom`, and a reset
  raises `freshFrom` only for calls of which no dump and no Pass-2 batch has a text.
* `PassProofs!TextsStayKnown`: `AnswersSurviveNoOcr`, from no assumption. Wherever a text is
  (a call, a dump, a batch, a row), its paper's source text is in the cache, which only
  grows, so that the loop of the missing texts never meets it.
* `PassProofs!BatchTextsAreBoughtOnce`: `Spec => TextsBoughtOnce`, assuming that all commands
  have the same `--papers` filter (`OneScope`), so that a chunk number always means the same
  papers (`ChunkIsFixed`, `ChunksAreApart`). What a batch has delivered is in a dump of its
  chunk or on its way there (`TextsHeld`), and a batch is only taken where there is no dump.
* `PassProofs!BatchTextsAreUsed`: `Spec => PaidTextsAreUsed`, assuming `OneScope`. What Pass 1
  hands over as without a text has none in the chunk's dump either (`DropsAreEmpty`), and what
  was paid for and survived is in the dump of the one chunk that has its paper.
* `PassProofs!LossNeedsFailure`: `LostOnlyAfterFailure`, assuming `OneScope` or that Pass 1 is
  online. While nothing has failed, a chunk is answered as a whole or not at all
  (`ChunksEven`), its batches and its dump are of all its calls (`KeptWhole`), and an
  invocation asks for all of it or nothing (`WorkWhole`), whatever mixture of dry runs, resets,
  reposts and reformats came before. Online, every call without a text has an error. With
  batches and two filters this property and the two before it are false (section 3).

`EarlyExit`: `EarlyExitTypeCorrect` from no assumption, `OutOfScopeSkips` and
`SkippedHasReason`, both assuming that rounds follow study order (`RoundsInOrder`), which is
necessary (section 3). What scope stores of a reply is related to the stored answers first:
the recursive function of `Inactive` is what its definition says (`InactiveIsWalk`: there
is no first question at which it is not), what is skipped has its reason among the answers
stored with it (`SkippedIsStored`), and a gate that fails is stored with the failing value
(`FailureIsStored`) unless its item was thrown away.

* `OutOfScopeSkips`: `Spec => []OutOfScopeIsSkipped`. While nothing has failed, the table is
  that of a first run: every group of a round that is over is written whole from one reply,
  or skipped whole because `excluded` holds the paper, and later rounds are empty
  (`FirstRun`); a run after one that succeeded finds nothing to do (`Settled`).
* `SkippedHasReason`: `Spec => []SkippedForReason`, assuming `~BrokenItems` (the run
  `broken_gate`) and that groups are of at most two, as in the run `early_exit`, or no run
  passes a paper over (`PairsAtMost`, `NobodyIsPassedOver`; section 3 says why). Any number
  of crashes, waits, aborts and failed calls may come in between. At rest, a group is
  *excluded* by a gate of an earlier group that is whole, or it is whole and *sound* (every
  skip has its reason within the group), or *loose*: each cell that says anything has an
  open cell after it, so that the group is asked again and rewritten in study order. A write
  never takes away a gate that excludes others: it would be in a whole group, which is
  not asked, or its own paper is excluded by another (`StillFails`). While a reply is being
  saved, what the table is going to be (`Ahead`) is sound, what is written agrees with it,
  and the rest is loose. Without an invocation to mend it, a loose group may keep a skip
  without a reason when a run succeeds; with two questions it cannot (`PairIsClosed`).

`SplitPasses`, all from no assumption: `SplitTypeCorrect`, `SplitFormatsItsText`,
`SplitLeavesTexts`, `SplitDelivers`. `pass1` writes a group row by row and `pass2` joins the
rows that wait: the invariant says that until a crash a group is whole outside the loop that
writes it (all its rows wait with one text, or none does) and how far it is written inside
(`TextInv`). A group is read by its first row, which exists because there is no infinite
descent among numbers (`FirstOfGroup`). The refinement is that of `DeliveryProofs`.

`Arbitration`: `ArbitrationTypeCorrect`, `ArbitrationDelivers`, `ArbitrationStaysRetryable`
from no assumption, and `ArbitrationKeepsPath`.

* Types: that the walk of a reply ends in a verdict for each item needs that the recursive
  function `Path` is what its definition says (`PathIsWalk`). It is proved for every
  number of items: a smallest item up to which there is no such function does not exist.
  That a group has an id needs papers numbered from 1, as the database does.
* `ArbitrationKeepsPath`: `Spec => []PathIsKept`, assuming `ScriptKeepsOrder`: the script has
  no `arbitrate-pass2`, and `--disputes` lets through the items of a paper from the first
  one on, with a continuation item among them if the paper has one. Without either half the
  property is false (section 3). Any number of crashes, failures and partial commands
  may come in between. A paper asked in one group is *firm* (no item open, all
  verdicts agree with those before) or *loose* (each item of which something is said has
  an open item after it); it stays so because a group with an open item is asked whole and
  rows are written in study order. While a reply is saved (`TailInv`) what is written is
  the reply, which agrees with itself (`ArbitratedAgrees`), and what is not is loose; when
  the last item is written nothing is open, or something beyond `--disputes` still is. A
  settled paper cannot be loose unless nothing is said of it.

`RateLimiter` and `BenchmarkLease`:

* `RateLimiterProofs`: `LimiterTypeCorrect`, `RateIsKept`. A cardinality is awkward to
  carry through steps; the invariant says instead that the deque has at most rpm entries
  (`RoomOK`) and holds every task whose stamp is in the window (`RecentOK`), from which the
  bound follows. A sleeper stamps without looking whether there is room: there is, because
  while it sleeps with the lock nobody touches the deque, so that the stamp it waits for
  is still at the head and gone when it wakes (`SleeperOK`). Where the slot comes first, a
  task's call is as old as its stamp (`SameAge`), which gives the bound on the requests.
* `BenchmarkLeaseProofs`: `LeaseTypeCorrect`, `NoContention`, `PaidOnce`,
  `AnswersAreFinal`. One inductive invariant, `LeaseInv`: tokens of live sessions are
  distinct (`TokensDistinct`) and only live sessions have one or have tasks
  (`LiveHasToken`); while nothing has lapsed, old leases belong to nobody alive
  (`OldIsAbandoned`); a task past its claim holds its lease unless the row was
  recovered (`ActiveHolds`); what was called is running or complete and nobody is about
  to call it (`CalledCounts`); only excused executions are in error
  (`ErrorsExcused`). The last is what keeps `--retry-errors` from breaking `PaidOnce`.

Only model-checked: liveness (TLAPS has no rules for fairness here), and what the assumptions
above leave out, on the instances of section 3. Every invariant and every action property of
a passing run has its theorem.

## 5. Not modelled, and the plan

What could still be added, in this order:

1. Proofs: `PathIsKept` with `arbitrate-pass2` and one crash.
2. `arbitrate-reformat` (`arbitrate_orchestrator.py:1278-1503`), which does to resolutions what
   `reformat` in `RunPipeline` does to answers; provider batches in `Arbitration`.
3. Progress heartbeats: tasks whose order does not matter, but for the terminal one, which
   the code awaits after all others. Nothing the program reads again.

Not modelled in the parts that are: several runs in one pipeline file, which share nothing
but the process; items that SEER rejects inside an accepted request, which the program
only logs; two processes on one run; dry runs of the split and arbitration commands; the
abstract as a source text; disputes out of study order.

Never modelled: prompts, the LLM transport, pricing, string matching of quotes, import
of datasets and the metrics of the benchmark, the web UI and the progress display: text
or display, without state that outlives a call. TLC could only restate them.
