---------------------------- MODULE RunPipeline ----------------------------
(***************************************************************************)
(* `seer-annotate run` on one run id (orchestrator.run_pipeline with the   *)
(* two pass executors of batch_runner.py), the commands that share its     *)
(* store (`--dry-run`, `--reset-runs`, `repost`, `reformat`), the store,   *)
(* the provider's batches and SEER, across invocations and crashes.        *)
(*                                                                         *)
(* One invocation is a single asyncio task, so its steps are sequential;   *)
(* a step here ends wherever the code commits a transaction, calls the     *)
(* provider or calls SEER, because that is where the process may die and   *)
(* where an answer may or may not come back.  Provider calls that run      *)
(* concurrently are one step: nothing is written until gather returns.     *)
(***************************************************************************)
EXTENDS AnswerStore, Integers, FiniteSets

CONSTANTS NPapers,         \* papers of the pipeline are 1..NPapers, in its order
          NQuestions,      \* questions are 1..NQuestions, in its order
          GroupOf,         \* resolve_groups: the group each question is asked in
          ChunkPapers,     \* cfg.chunk_papers; 0 is one chunk
          FailFast,        \* cfg.fail_fast
          BatchP1,         \* cfg.batch_p1
          BatchP2,         \* cfg.batch_p2
          Commands,        \* the commands the user gives
          Scopes,          \* the --papers filters the user gives
          MaxInvocations,  \* bound: how many commands are given
          MaxSetbacks,     \* bound: provider and SEER failures, parks, cancels
          MaxCrashes       \* bound: times the process dies between two steps

Papers    == 1..NPapers
Questions == 1..NQuestions
Groups    == {GroupOf[q] : q \in Questions}
Cells     == Papers \X Questions
Cids      == Papers \X Groups       \* "<run>-<paper>-<group>": one LLM call
Chunks    == 1..NPapers

ASSUME SizesAreNat ==
    /\ NPapers \in Nat \ {0}
    /\ NQuestions \in Nat \ {0}
    /\ ChunkPapers \in Nat
ASSUME GroupsAreNat == GroupOf \in [Questions -> Nat]
ASSUME FlagsAreBool == {FailFast, BatchP1, BatchP2} \subseteq BOOLEAN
ASSUME KnownCommands == Commands \subseteq {"run", "dry", "reset", "repost", "reformat"}
ASSUME ScopesArePapers == Scopes \subseteq SUBSET Papers
ASSUME BoundsAreNat == {MaxInvocations, MaxSetbacks, MaxCrashes} \subseteq Nat

CidOf(c)     == <<c[1], GroupOf[c[2]]>>
CellsOf(cid) == {c \in Cells : CidOf(c) = cid}
CellsIn(S)   == {c \in Cells : CidOf(c) \in S}
NoTexts      == [cid \in Cids |-> 0]
EmptyOutbox  == [c \in Cells |-> NoPayload]

VARIABLES
    \* The store file, the kv table in it, and the Pass-1 dump files.
    rows,          \* [Cells -> Row]: the answers table
    kv1,           \* [Chunks -> SUBSET Cids]: the saved Pass-1 batch id, as the
                   \* requests that batch holds; {} is no id
    kv2,           \* the same for Pass 2, as the text each request formats
    dump,          \* p1_<run>_<chunk>.json: the texts in it; NoTexts is no file
    \* Exchanged with SEER.
    sent,          \* the last payload SEER was sent for each cell
    ocr,           \* ocr_cache: the papers whose full text SEER has given
    \* The process.
    pc, mode, scope, chunk,
    todo,          \* cells the loop at pc has still to write
    toMark,        \* the cell just saved that mark_failed has still to flip
    papersLeft,    \* papers the posting loop has still to visit
    texts,         \* source_texts: papers of the chunk with a text
    pending,       \* pending_cells, as cids
    p1,            \* p1_texts: the invocation that obtained each text, 0 for none
    p1err,         \* the cids a Pass-1 error is attributed to
    p2,            \* p2_texts: the Pass-1 text each reply was asked to format
    hadFatal, quota, firstErr,
    outbox,        \* payloads read for the post in flight
    seen, cellsDone, cellsError,
    \* Bookkeeping of the model: the invocation number, the bounds, and what
    \* the properties need to remember.
    inv, setbacks, crashes,
    verdict,       \* how the last invocation ended
    postFailed,    \* some post of this invocation failed
    refused,       \* cells whose answer the store would not take
    live1, live2,  \* batches created under a chunk's key and neither collected nor failed
    paid,          \* cids whose Pass-1 text a batch has delivered
    freshFrom      \* per call, the invocation of the last --reset-runs that
                   \* left no text of it behind

durable == <<rows, kv1, kv2, dump>>
seer    == <<sent, ocr>>
control == <<pc, mode, scope, chunk, todo, toMark, papersLeft>>
passes  == <<texts, pending, p1, p1err, p2>>
flags   == <<hadFatal, quota, firstErr>>
counts  == <<seen, cellsDone, cellsError>>
ghosts  == <<verdict, postFailed, refused, live1, live2, paid, freshFrom>>
bounds  == <<inv, setbacks, crashes>>
vars    == <<durable, seer, control, passes, flags, outbox, counts, ghosts, bounds>>

---------------------------------------------------------------------------
(* The loops of the code run over papers, then groups, then questions.     *)

Before(c, d) ==
    \/ c[1] < d[1]
    \/ c[1] = d[1] /\ GroupOf[c[2]] < GroupOf[d[2]]
    \/ CidOf(c) = CidOf(d) /\ c[2] < d[2]

FirstOf(c, S) == c \in S /\ \A d \in S : ~Before(d, c)

\* Pass-2 replies of a batch come back in the provider's order: the next group
\* is any of those left, but a group once begun is finished first.
Begun(cid) == CellsOf(cid) \cap todo \notin {{}, CellsOf(cid)}
NextReply(c) ==
    /\ FirstOf(c, todo \cap CellsOf(CidOf(c)))
    /\ \A d \in todo : Begun(CidOf(d)) => CidOf(d) = CidOf(c)
    /\ (mode = "dry" \/ ~BatchP2) => FirstOf(c, todo)

FirstPaper(p) == p \in papersLeft /\ \A x \in papersLeft : p <= x

ChunkOf(p) ==
    IF ChunkPapers = 0
    THEN 1
    ELSE (Cardinality({x \in scope : x < p}) \div ChunkPapers) + 1
ChunkPaperSet == {p \in scope : ChunkOf(p) = chunk}

\* Variant: off by one.
IsLastChunkLate == \A p \in scope : ChunkOf(p) < chunk

IsLastChunk == \A p \in scope : ChunkOf(p) <= chunk

NewPayload(kind, text, formatted) ==
    [kind |-> kind, inv |-> inv, p1 |-> text, fmt |-> formatted]

---------------------------------------------------------------------------
(* The progress counters: counted_cells, cells_done and cells_error.       *)

Verdict(payload) == IF IsError(payload) THEN "error" ELSE "ok"

SeedCounters(table, papers) ==
    LET counted == [c \in Cells |-> IF c[1] \in papers /\ Finished(table[c])
                                    THEN Verdict(table[c].payload)
                                    ELSE "new"]
    IN  /\ seen' = counted
        /\ cellsDone' = Cardinality({c \in Cells : counted[c] # "new"})
        /\ cellsError' = Cardinality({c \in Cells : counted[c] = "error"})

\* Variant: a cell processed again is counted again.
CountAgain(c, payload) ==
    /\ seen' = [seen EXCEPT ![c] = Verdict(payload)]
    /\ cellsDone' = cellsDone + 1
    /\ cellsError' = cellsError + (IF IsError(payload) THEN 1 ELSE 0)

CountPayload(c, payload) ==
    /\ seen' = [seen EXCEPT ![c] = Verdict(payload)]
    /\ cellsDone' = IF seen[c] = "new" THEN cellsDone + 1 ELSE cellsDone
    /\ cellsError' = cellsError - (IF seen[c] = "error" THEN 1 ELSE 0)
                                + (IF IsError(payload) THEN 1 ELSE 0)

\* Variant: the row is updated in place and keeps its posted_at.
SaveKeepingPosted(c, payload) ==
    /\ rows' = [rows EXCEPT ![c] = [SaveAnswer(payload) EXCEPT !.posted = rows[c].posted]]
    /\ CountPayload(c, payload)

Save(c, payload) ==
    /\ rows' = [rows EXCEPT ![c] = SaveAnswer(payload)]
    /\ CountPayload(c, payload)

---------------------------------------------------------------------------
(* Bounds and ends.                                                        *)

Mishap(b) ==
    /\ b => setbacks < MaxSetbacks
    /\ setbacks' = IF b THEN setbacks + 1 ELSE setbacks

\* is_quota_exhausted over the errors of a pass: any of them may say so, and
\* the run then stops after this chunk whatever fail_fast is.
NoteQuota(errors) ==
    \E q \in BOOLEAN :
        /\ q => errors # {}
        /\ quota' = (quota \/ q)
        /\ hadFatal' = (hadFatal \/ q)

\* The process is gone; only the store, the dumps and SEER remain.
EndProcess(how) ==
    /\ pc' = "idle"
    /\ verdict' = how
    /\ todo' = {} /\ toMark' = {} /\ papersLeft' = {}
    /\ texts' = {} /\ pending' = {} /\ p1err' = {}
    /\ p1' = NoTexts /\ p2' = NoTexts
    /\ hadFatal' = FALSE /\ quota' = FALSE /\ firstErr' = FALSE
    /\ outbox' = EmptyOutbox
    /\ UNCHANGED <<mode, scope, chunk, counts, inv>>

Init ==
    /\ rows = [c \in Cells |-> NoRow]
    /\ kv1 = [k \in Chunks |-> {}]
    /\ kv2 = [k \in Chunks |-> NoTexts]
    /\ dump = [k \in Chunks |-> NoTexts]
    /\ sent = [c \in Cells |-> NoPayload]
    /\ ocr = {}
    /\ pc = "idle" /\ mode = "run" /\ scope = {} /\ chunk = 1
    /\ todo = {} /\ toMark = {} /\ papersLeft = {}
    /\ texts = {} /\ pending = {} /\ p1err = {}
    /\ p1 = NoTexts /\ p2 = NoTexts
    /\ hadFatal = FALSE /\ quota = FALSE /\ firstErr = FALSE
    /\ outbox = EmptyOutbox
    /\ seen = [c \in Cells |-> "new"] /\ cellsDone = 0 /\ cellsError = 0
    /\ inv = 0 /\ setbacks = 0 /\ crashes = 0
    /\ verdict = "none" /\ postFailed = FALSE /\ refused = {}
    /\ live1 = [k \in Chunks |-> 0] /\ live2 = [k \in Chunks |-> 0]
    /\ paid = {} /\ freshFrom = [cid \in Cids |-> 0]

---------------------------------------------------------------------------
(* `run`, `run --dry-run` and `run --reset-runs`.                          *)

\* --reset-runs deletes answers only: a text of a call is also in a dump, or with
\* a Pass-2 batch that is not collected yet.
KeptText(cid) == \E k \in Chunks : dump[k][cid] # 0 \/ kv2[k][cid] # 0
StartAfresh   == [cid \in Cids |-> IF KeptText(cid) THEN freshFrom[cid] ELSE inv + 1]

\* Variant: --reset-runs keeps what was delivered.
StartRunKeepingPosted(command, papers) ==
    LET kept(c) == command # "reset" \/ rows[c].posted
        table   == [c \in Cells |-> IF kept(c) THEN rows[c] ELSE NoRow]
    IN  /\ pc = "idle"
        /\ command \in Commands \cap {"run", "dry", "reset"}
        /\ papers # {}
        /\ inv < MaxInvocations
        /\ inv' = inv + 1
        /\ rows' = table
        /\ SeedCounters(table, papers)
        /\ mode' = IF command = "dry" THEN "dry" ELSE "run"
        /\ scope' = papers
        /\ chunk' = 1
        /\ pc' = "boundary"
        /\ verdict' = "none" /\ postFailed' = FALSE /\ refused' = {}
        /\ freshFrom' = IF command = "reset" THEN StartAfresh ELSE freshFrom
        /\ paid' = IF command = "reset" THEN {} ELSE paid
        /\ UNCHANGED <<kv1, kv2, dump, seer, todo, toMark, papersLeft, passes, flags,
                       outbox, live1, live2, setbacks, crashes>>

StartRun(command, papers) ==
    LET table == IF command = "reset" THEN [c \in Cells |-> NoRow] ELSE rows
    IN  /\ pc = "idle"
        /\ command \in Commands \cap {"run", "dry", "reset"}
        /\ papers # {}
        /\ inv < MaxInvocations
        /\ inv' = inv + 1
        /\ rows' = table
        /\ SeedCounters(table, papers)
        /\ mode' = IF command = "dry" THEN "dry" ELSE "run"
        /\ scope' = papers
        /\ chunk' = 1
        /\ pc' = "boundary"
        /\ verdict' = "none" /\ postFailed' = FALSE /\ refused' = {}
        /\ freshFrom' = IF command = "reset" THEN StartAfresh ELSE freshFrom
        /\ paid' = IF command = "reset" THEN {} ELSE paid
        /\ UNCHANGED <<kv1, kv2, dump, seer, todo, toMark, papersLeft, passes, flags,
                       outbox, live1, live2, setbacks, crashes>>

\* should_cancel is asked between chunks only.
Cancel ==
    /\ pc = "boundary"
    /\ Mishap(TRUE)
    /\ EndProcess("canceled")
    /\ UNCHANGED <<durable, seer, postFailed, refused, live1, live2, paid, freshFrom, crashes>>

\* Variant: the cache is not asked, so a text had before may be missing now.
ResolveTextsUncached ==
    /\ pc = "boundary"
    /\ \E fetched \in SUBSET ChunkPaperSet : ocr' = fetched
    /\ Mishap(~(ChunkPaperSet \subseteq ocr'))
    /\ texts' = ChunkPaperSet \cap ocr'
    /\ todo' = {c \in Cells : c[1] \in ChunkPaperSet \ ocr'}
    /\ pc' = "noocr"
    /\ UNCHANGED <<durable, sent, mode, scope, chunk, toMark, papersLeft, pending, p1, p1err,
                   p2, flags, outbox, counts, ghosts, inv, crashes>>

\* Source texts of the chunk: a text fetched once is served from the cache, for
\* the others SEER gives one or not (a 404, or no connection).  Every question
\* of a paper without a text gets a "no_ocr" error answer.
ResolveTexts ==
    /\ pc = "boundary"
    /\ \E fetched \in SUBSET (ChunkPaperSet \ ocr) : ocr' = ocr \union fetched
    /\ Mishap(~(ChunkPaperSet \subseteq ocr'))
    /\ texts' = ChunkPaperSet \cap ocr'
    /\ todo' = {c \in Cells : c[1] \in ChunkPaperSet \ ocr'}
    /\ pc' = "noocr"
    /\ UNCHANGED <<durable, sent, mode, scope, chunk, toMark, papersLeft, pending, p1, p1err,
                   p2, flags, outbox, counts, ghosts, inv, crashes>>

SaveNoOcr(c) ==
    /\ pc = "noocr"
    /\ FirstOf(c, todo)
    /\ Save(c, NewPayload("no_ocr", 0, 0))
    /\ todo' = todo \ {c}
    /\ UNCHANGED <<kv1, kv2, dump, seer, pc, mode, scope, chunk, toMark, papersLeft, passes,
                   flags, outbox, ghosts, bounds>>

\* A group is left out only if every one of its cells is done or posted.
BeginPass1 ==
    /\ pc = "noocr" /\ todo = {}
    /\ pending' = {cid \in Cids : /\ cid[1] \in texts
                                  /\ \E c \in CellsOf(cid) : ~ShouldSkip(rows[c])}
    /\ pc' = "pass1"
    /\ UNCHANGED <<durable, seer, mode, scope, chunk, todo, toMark, papersLeft, texts, p1,
                   p1err, p2, flags, outbox, counts, ghosts, bounds>>

---------------------------------------------------------------------------
(* Pass 1.                                                                 *)

UsesBatchP1 == BatchP1 /\ mode = "run"
UsesBatchP2 == BatchP2 /\ mode = "run"

\* Pass 1 hands over p1_texts and p1_errors: every pending call without a text
\* is to be dropped.
EndPass1(got, errors) ==
    /\ p1' = got
    /\ p1err' = errors
    /\ todo' = CellsIn({cid \in pending : got[cid] = 0})
    /\ pc' = "p1drop"
    /\ UNCHANGED <<mode, scope, chunk, toMark, papersLeft, texts, pending, p2, firstErr>>

\* Online: the first call alone, then the others together.  A call may raise,
\* or be cut off and demoted (_demote_truncated_p1).
Pass1Online ==
    /\ pc = "pass1" /\ ~UsesBatchP1
    /\ \E ok \in SUBSET pending :
          /\ mode = "dry" => ok = pending
          /\ Mishap(ok # pending)
          /\ EndPass1([cid \in Cids |-> IF cid \in ok THEN inv ELSE 0], pending \ ok)
          /\ NoteQuota(pending \ ok)
    /\ UNCHANGED <<durable, seer, outbox, counts, ghosts, inv, crashes>>

\* The first call raised: the others are not made, and every cell fails with it.
Pass1Aborts ==
    /\ pc = "pass1" /\ ~UsesBatchP1
    /\ mode = "run" /\ pending # {}
    /\ Mishap(TRUE)
    /\ EndPass1(NoTexts, pending)
    /\ hadFatal' = TRUE
    /\ quota' \in {quota, TRUE}
    /\ UNCHANGED <<durable, seer, outbox, counts, ghosts, inv, crashes>>

\* Variant: the dump is not kept per chunk.
Pass1FromAnyDump ==
    /\ pc = "pass1" /\ UsesBatchP1
    /\ dump[1] # NoTexts
    /\ EndPass1(dump[1], {})
    /\ UNCHANGED <<durable, seer, hadFatal, quota, outbox, counts, ghosts, bounds>>

\* A dump of this chunk index exists: its texts are the result, with no errors.
Pass1FromDump ==
    /\ pc = "pass1" /\ UsesBatchP1
    /\ dump[chunk] # NoTexts
    /\ EndPass1(dump[chunk], {})
    /\ UNCHANGED <<durable, seer, hadFatal, quota, outbox, counts, ghosts, bounds>>

Pass1Nothing ==
    /\ pc = "pass1" /\ UsesBatchP1
    /\ dump[chunk] = NoTexts /\ pending = {}
    /\ EndPass1(NoTexts, {})
    /\ UNCHANGED <<durable, seer, hadFatal, quota, outbox, counts, ghosts, bounds>>

\* submit_and_poll: submit, then save the id, then poll once.
SubmitP1 ==
    /\ pc = "pass1" /\ UsesBatchP1
    /\ dump[chunk] = NoTexts /\ pending # {} /\ kv1[chunk] = {}
    /\ live1' = [live1 EXCEPT ![chunk] = @ + 1]
    /\ pc' = "p1save"
    /\ UNCHANGED <<durable, seer, mode, scope, chunk, todo, toMark, papersLeft, passes, flags,
                   outbox, counts, verdict, postFailed, refused, live2, paid, freshFrom, bounds>>

SaveP1Id ==
    /\ pc = "p1save"
    /\ kv1' = [kv1 EXCEPT ![chunk] = pending]
    /\ pc' = "p1poll"
    /\ UNCHANGED <<rows, kv2, dump, seer, mode, scope, chunk, todo, toMark, papersLeft, passes,
                   flags, outbox, counts, ghosts, bounds>>

ResumeP1 ==
    /\ pc = "pass1" /\ UsesBatchP1
    /\ dump[chunk] = NoTexts /\ pending # {} /\ kv1[chunk] # {}
    /\ pc' = "p1poll"
    /\ UNCHANGED <<durable, seer, mode, scope, chunk, todo, toMark, papersLeft, passes, flags,
                   outbox, counts, ghosts, bounds>>

\* Variant: the id outlives its batch.
KeepBatchP1 == kv1' = kv1

\* delete_batch_id.
ForgetBatchP1 == kv1' = [kv1 EXCEPT ![chunk] = {}]
ForgetBatchP2 == kv2' = [kv2 EXCEPT ![chunk] = NoTexts]

\* Still running, or the provider could not be reached: BatchPendingError.
Park ==
    /\ pc \in {"p1poll", "p2poll"}
    /\ Mishap(TRUE)
    /\ EndProcess("parked")
    /\ UNCHANGED <<durable, seer, postFailed, refused, live1, live2, paid, freshFrom, crashes>>

\* The batch failed, expired or was cancelled: its id is deleted and the run ends.
BatchP1Fails ==
    /\ pc = "p1poll"
    /\ Mishap(TRUE)
    /\ ForgetBatchP1
    /\ live1' = [live1 EXCEPT ![chunk] = @ - 1]
    /\ EndProcess("failed")
    /\ UNCHANGED <<rows, kv2, dump, seer, postFailed, refused, live2, paid, freshFrom, crashes>>

\* collect() and delete_batch_id: a request has a text, an error, or (its
\* line could not be read) neither.
CollectP1 ==
    /\ pc = "p1poll"
    /\ \E ok \in SUBSET kv1[chunk] : \E errors \in SUBSET (kv1[chunk] \ ok) :
          /\ Mishap(ok # kv1[chunk])
          /\ p1' = [cid \in Cids |-> IF cid \in ok THEN inv ELSE 0]
          /\ p1err' = errors
          /\ NoteQuota(errors)
          /\ paid' = paid \union ok
    /\ ForgetBatchP1
    /\ live1' = [live1 EXCEPT ![chunk] = @ - 1]
    /\ pc' = "p1dump"
    /\ UNCHANGED <<rows, kv2, dump, seer, mode, scope, chunk, todo, toMark, papersLeft, texts,
                   pending, p2, firstErr, outbox, counts, verdict, postFailed, refused, live2,
                   freshFrom, inv, crashes>>

\* Variant: the texts are not written down.
DumpNothing ==
    /\ pc = "p1dump"
    /\ EndPass1(p1, p1err)
    /\ UNCHANGED <<durable, seer, hadFatal, quota, outbox, counts, ghosts, bounds>>

\* Variant: the chunk number is not handed to the dump's file name.
DumpUnderFirst ==
    /\ pc = "p1dump"
    /\ dump' = [dump EXCEPT ![1] = p1]
    /\ EndPass1(p1, p1err)
    /\ UNCHANGED <<rows, kv1, kv2, seer, hadFatal, quota, outbox, counts, ghosts, bounds>>

\* The texts that are whole are written to the dump, and Pass 1 is over.
DumpP1 ==
    /\ pc = "p1dump"
    /\ dump' = [dump EXCEPT ![chunk] = p1]
    /\ EndPass1(p1, p1err)
    /\ UNCHANGED <<rows, kv1, kv2, seer, hadFatal, quota, outbox, counts, ghosts, bounds>>

---------------------------------------------------------------------------
(* Calls without a Pass-1 text: an error answer for each question, flipped *)
(* to 'failed' by a second transaction if an error is known.               *)

DropP1(c) ==
    LET known == CidOf(c) \in p1err
    IN  /\ pc = "p1drop" /\ toMark = {}
        /\ FirstOf(c, todo)
        /\ Save(c, NewPayload(IF known THEN "p1_error" ELSE "p1_lost", 0, 0))
        /\ todo' = todo \ {c}
        /\ toMark' = IF known THEN {c} ELSE {}
        /\ UNCHANGED <<kv1, kv2, dump, seer, pc, mode, scope, chunk, papersLeft, passes, flags,
                       outbox, ghosts, bounds>>

MarkDropped(c) ==
    /\ c \in toMark
    /\ rows' = [rows EXCEPT ![c] = MarkFailed(@)]
    /\ toMark' = {}
    /\ UNCHANGED <<kv1, kv2, dump, seer, pc, mode, scope, chunk, todo, papersLeft, passes, flags,
                   outbox, counts, ghosts, bounds>>

---------------------------------------------------------------------------
(* Pass 2.                                                                 *)

ToFormat == {cid \in pending : p1[cid] # 0}      \* pending_p1

BeginPass2 ==
    /\ pc = "p1drop" /\ todo = {} /\ toMark = {}
    /\ pc' = "pass2"
    /\ UNCHANGED <<durable, seer, mode, scope, chunk, todo, toMark, papersLeft, passes, flags,
                   outbox, counts, ghosts, bounds>>

\* Variant: a call that failed appears nowhere.
EndPass2Silent(got, errors) ==
    /\ p2' = got
    /\ todo' = {}
    /\ pc' = "p2drop"
    /\ UNCHANGED <<mode, scope, chunk, toMark, papersLeft, texts, pending, p1, p1err, firstErr>>

EndPass2(got, errors) ==
    /\ p2' = got
    /\ todo' = CellsIn(errors \cap pending)
    /\ pc' = "p2drop"
    /\ UNCHANGED <<mode, scope, chunk, toMark, papersLeft, texts, pending, p1, p1err, firstErr>>

\* The first call alone; if it raises, the phase is abandoned for every cell.
Pass2Online ==
    /\ pc = "pass2" /\ ~UsesBatchP2
    /\ \E ok \in SUBSET ToFormat :
          /\ mode = "dry" => ok = ToFormat
          /\ \/ ok = {}
             \/ \E c \in CellsIn(ok) : FirstOf(c, CellsIn(ToFormat))
          /\ Mishap(ok # ToFormat)
          /\ EndPass2([cid \in Cids |-> IF cid \in ok THEN p1[cid] ELSE 0], ToFormat \ ok)
          /\ NoteQuota(ToFormat \ ok)
    /\ UNCHANGED <<durable, seer, outbox, counts, ghosts, inv, crashes>>

Pass2Nothing ==
    /\ pc = "pass2" /\ UsesBatchP2
    /\ ToFormat = {}
    /\ EndPass2(NoTexts, {})
    /\ UNCHANGED <<durable, seer, hadFatal, quota, outbox, counts, ghosts, bounds>>

SubmitP2 ==
    /\ pc = "pass2" /\ UsesBatchP2
    /\ ToFormat # {} /\ kv2[chunk] = NoTexts
    /\ live2' = [live2 EXCEPT ![chunk] = @ + 1]
    /\ pc' = "p2save"
    /\ UNCHANGED <<durable, seer, mode, scope, chunk, todo, toMark, papersLeft, passes, flags,
                   outbox, counts, verdict, postFailed, refused, live1, paid, freshFrom, bounds>>

SaveP2Id ==
    /\ pc = "p2save"
    /\ kv2' = [kv2 EXCEPT ![chunk] =
                  [cid \in Cids |-> IF cid \in ToFormat THEN p1[cid] ELSE 0]]
    /\ pc' = "p2poll"
    /\ UNCHANGED <<rows, kv1, dump, seer, mode, scope, chunk, todo, toMark, papersLeft, passes,
                   flags, outbox, counts, ghosts, bounds>>

\* A batch saved under this chunk's key is resumed, whatever this invocation
\* would have asked for.
ResumeP2 ==
    /\ pc = "pass2" /\ UsesBatchP2
    /\ ToFormat # {} /\ kv2[chunk] # NoTexts
    /\ pc' = "p2poll"
    /\ UNCHANGED <<durable, seer, mode, scope, chunk, todo, toMark, papersLeft, passes, flags,
                   outbox, counts, ghosts, bounds>>

BatchP2Fails ==
    /\ pc = "p2poll"
    /\ Mishap(TRUE)
    /\ ForgetBatchP2
    /\ live2' = [live2 EXCEPT ![chunk] = @ - 1]
    /\ EndProcess("failed")
    /\ UNCHANGED <<rows, kv1, dump, seer, postFailed, refused, live1, paid, freshFrom, crashes>>

CollectP2 ==
    LET requests == {cid \in Cids : kv2[chunk][cid] # 0}
    IN  /\ pc = "p2poll"
        /\ \E ok \in SUBSET requests : \E errors \in SUBSET (requests \ ok) :
              /\ Mishap(ok # requests)
              /\ EndPass2([cid \in Cids |-> IF cid \in ok THEN kv2[chunk][cid] ELSE 0], errors)
              /\ NoteQuota(errors)
        /\ ForgetBatchP2
        /\ live2' = [live2 EXCEPT ![chunk] = @ - 1]
        /\ UNCHANGED <<rows, kv1, dump, seer, outbox, counts, verdict, postFailed, refused, live1,
                       paid, freshFrom, inv, crashes>>

\* Calls a Pass-2 error is attributed to: an error answer, then 'failed'.
DropP2(c) ==
    /\ pc = "p2drop" /\ toMark = {}
    /\ c \in todo /\ NextReply(c)
    /\ Save(c, NewPayload("p2_error", p1[CidOf(c)], 0))
    /\ todo' = todo \ {c}
    /\ toMark' = {c}
    /\ UNCHANGED <<kv1, kv2, dump, seer, pc, mode, scope, chunk, papersLeft, passes, flags,
                   outbox, ghosts, bounds>>

---------------------------------------------------------------------------
(* _parse_save_post_tail over the replies of pending calls.                *)

BeginTail ==
    /\ pc = "p2drop" /\ todo = {} /\ toMark = {}
    /\ todo' = CellsIn({cid \in pending : p2[cid] # 0})
    /\ pc' = "tail"
    /\ UNCHANGED <<durable, seer, mode, scope, chunk, toMark, papersLeft, passes, flags, outbox,
                   counts, ghosts, bounds>>

\* What one question's reply comes to.  "answer" stands for every verdict but
\* an extraction error; fail_fast remembers the first of those.
SaveReply(c) ==
    /\ pc = "tail"
    /\ c \in todo /\ NextReply(c)
    /\ \E kind \in IF mode = "dry" THEN {"dummy"} ELSE {"answer", "parse_error"} :
          /\ Save(c, NewPayload(kind, p1[CidOf(c)], p2[CidOf(c)]))
          /\ firstErr' = (firstErr \/ (FailFast /\ kind = "parse_error"))
    /\ todo' = todo \ {c}
    /\ UNCHANGED <<kv1, kv2, dump, seer, pc, mode, scope, chunk, toMark, papersLeft, passes,
                   hadFatal, quota, outbox, ghosts, bounds>>

\* The store raised, and raised again for the error answer: the exception is
\* contained and the cell keeps the row it had.
ReplyRefused(c) ==
    /\ pc = "tail"
    /\ c \in todo /\ NextReply(c)
    /\ Mishap(TRUE)
    /\ firstErr' = (firstErr \/ FailFast)
    /\ refused' = refused \union {c}
    /\ todo' = todo \ {c}
    /\ UNCHANGED <<durable, seer, pc, mode, scope, chunk, toMark, papersLeft, passes, hadFatal,
                   quota, outbox, counts, verdict, postFailed, live1, live2, paid, freshFrom,
                   inv, crashes>>

---------------------------------------------------------------------------
(* Posting, one paper at a time: read the payloads, send them, mark them.  *)

\* Variant: only papers with new answers are visited.
BeginPostOfPending ==
    /\ pc = "tail" /\ todo = {}
    /\ papersLeft' = {p \in ChunkPaperSet : \E cid \in pending : cid[1] = p}
    /\ pc' = "post"
    /\ UNCHANGED <<durable, seer, mode, scope, chunk, todo, toMark, passes, flags, outbox, counts,
                   ghosts, bounds>>

BeginPost ==
    /\ pc = "tail" /\ todo = {}
    /\ papersLeft' = ChunkPaperSet
    /\ pc' = "post"
    /\ UNCHANGED <<durable, seer, mode, scope, chunk, todo, toMark, passes, flags, outbox, counts,
                   ghosts, bounds>>

\* get_unposted; `repost` reads get_postable instead.
ReadPaper(p) ==
    LET picked == {c \in Cells : /\ c[1] = p
                                 /\ IF mode = "repost" THEN Postable(rows[c])
                                                       ELSE Unposted(rows[c])}
    IN  /\ pc = "post"
        /\ FirstPaper(p)
        /\ outbox' = [c \in Cells |-> IF c \in picked THEN rows[c].payload ELSE NoPayload]
        /\ IF picked = {} THEN papersLeft' = papersLeft \ {p} /\ pc' = pc
                          ELSE papersLeft' = papersLeft /\ pc' = "send"
        /\ UNCHANGED <<durable, seer, mode, scope, chunk, todo, toMark, passes, flags, counts,
                       ghosts, bounds>>

InOutbox == {c \in Cells : outbox[c] # NoPayload}
Deliver  == sent' = [c \in Cells |-> IF c \in InOutbox THEN outbox[c] ELSE sent[c]]

\* A dry run prints the payloads and marks nothing.
PrintPaper(p) ==
    /\ pc = "send" /\ mode = "dry"
    /\ FirstPaper(p)
    /\ papersLeft' = papersLeft \ {p}
    /\ outbox' = EmptyOutbox
    /\ pc' = "post"
    /\ UNCHANGED <<durable, seer, mode, scope, chunk, todo, toMark, passes, flags, counts, ghosts,
                   bounds>>

SendPaper ==
    /\ pc = "send" /\ mode # "dry"
    /\ Deliver
    /\ pc' = "ack"
    /\ UNCHANGED <<durable, ocr, mode, scope, chunk, todo, toMark, papersLeft, passes, flags,
                   outbox, counts, ghosts, bounds>>

\* Every retry of the post failed; an attempt may still have reached SEER.
\* `run` goes on to the next paper, `repost` gives up.
SendFails(p) ==
    /\ pc = "send" /\ mode # "dry"
    /\ FirstPaper(p)
    /\ Mishap(TRUE)
    /\ Deliver \/ UNCHANGED sent
    /\ postFailed' = TRUE
    /\ IF mode = "repost"
       THEN EndProcess("failed")
       ELSE /\ papersLeft' = papersLeft \ {p}
            /\ outbox' = EmptyOutbox
            /\ pc' = "post"
            /\ UNCHANGED <<mode, scope, chunk, todo, toMark, passes, flags, counts, verdict, inv>>
    /\ UNCHANGED <<durable, ocr, refused, live1, live2, paid, freshFrom, crashes>>

MarkPaper(p) ==
    /\ pc = "ack"
    /\ FirstPaper(p)
    /\ rows' = [c \in Cells |-> IF c \in InOutbox THEN MarkPosted(rows[c]) ELSE rows[c]]
    /\ papersLeft' = papersLeft \ {p}
    /\ outbox' = EmptyOutbox
    /\ pc' = "post"
    /\ UNCHANGED <<kv1, kv2, dump, seer, mode, scope, chunk, todo, toMark, passes, flags, counts,
                   ghosts, bounds>>

\* Variant: fail_fast is not looked at.
MustStopForQuota == (firstErr \/ hadFatal) /\ quota

MustStop == (firstErr \/ hadFatal) /\ (FailFast \/ quota)

NextChunk ==
    /\ pc = "post" /\ papersLeft = {} /\ mode # "repost"
    /\ ~MustStop /\ ~IsLastChunk
    /\ chunk' = chunk + 1
    /\ pc' = "boundary"
    /\ texts' = {} /\ pending' = {} /\ p1err' = {} /\ p1' = NoTexts /\ p2' = NoTexts
    /\ UNCHANGED <<durable, seer, mode, scope, todo, toMark, papersLeft, flags, outbox, counts,
                   ghosts, bounds>>

FinishRun ==
    /\ pc = "post" /\ papersLeft = {} /\ mode # "repost"
    /\ MustStop \/ IsLastChunk
    /\ EndProcess(IF MustStop THEN "failed" ELSE "succeeded")
    /\ UNCHANGED <<durable, seer, postFailed, refused, live1, live2, paid, freshFrom, setbacks,
                   crashes>>

---------------------------------------------------------------------------
(* `repost` and `reformat`.                                                *)

StartRepost(papers) ==
    /\ pc = "idle" /\ "repost" \in Commands
    /\ inv < MaxInvocations
    /\ inv' = inv + 1
    /\ mode' = "repost" /\ scope' = papers /\ papersLeft' = papers
    /\ pc' = "post"
    /\ verdict' = "none" /\ postFailed' = FALSE
    /\ UNCHANGED <<durable, seer, chunk, todo, toMark, passes, flags, outbox, counts, refused,
                   live1, live2, paid, freshFrom, setbacks, crashes>>

FinishRepost ==
    /\ pc = "post" /\ papersLeft = {} /\ mode = "repost"
    /\ EndProcess("reposted")
    /\ UNCHANGED <<durable, seer, postFailed, refused, live1, live2, paid, freshFrom, setbacks,
                   crashes>>

StartReformat(papers) ==
    /\ pc = "idle" /\ "reformat" \in Commands
    /\ inv < MaxInvocations
    /\ inv' = inv + 1
    /\ mode' = "reformat" /\ scope' = papers
    /\ todo' = {c \in Cells : /\ c[1] \in papers
                              /\ Reformattable(rows[c])
                              /\ rows[c].payload.kind # "no_ocr"}
    /\ pc' = "reformat"
    /\ verdict' = "none" /\ postFailed' = FALSE
    /\ UNCHANGED <<durable, seer, chunk, toMark, papersLeft, passes, flags, outbox, counts,
                   refused, live1, live2, paid, freshFrom, setbacks, crashes>>

\* The groups of a paper are formatted concurrently: any of the first paper's
\* is answered next.  The text is that of the group's first row, and the query
\* names no order.
GroupTexts(cid) == {rows[c].payload.p1 : c \in todo \cap CellsOf(cid)}

IsReformatting(cid) ==
    /\ pc = "reformat"
    /\ todo \cap CellsOf(cid) # {}
    /\ \A c \in todo : cid[1] <= c[1]

\* No text, or the formatting call failed: the rows stay as they are.
ReformatFails(cid) ==
    /\ IsReformatting(cid)
    /\ Mishap(0 \notin GroupTexts(cid))
    /\ todo' = todo \ CellsOf(cid)
    /\ UNCHANGED <<durable, seer, pc, mode, scope, chunk, toMark, papersLeft, passes, flags,
                   outbox, counts, ghosts, inv, crashes>>

ReformatGroup(cid) ==
    /\ IsReformatting(cid)
    /\ \E text \in GroupTexts(cid) \ {0} : p1' = [NoTexts EXCEPT ![cid] = text]
    /\ pending' = {cid}
    /\ pc' = "rewrite"
    /\ UNCHANGED <<durable, seer, mode, scope, chunk, todo, toMark, papersLeft, texts, p1err, p2,
                   flags, outbox, counts, ghosts, bounds>>

RewriteRow(c) ==
    LET left == (todo \ {c}) \cap CellsOf(CidOf(c))
    IN  /\ pc = "rewrite"
        /\ CidOf(c) \in pending
        /\ FirstOf(c, todo \cap CellsOf(CidOf(c)))
        /\ rows' = [rows EXCEPT ![c] =
                       UpdateReformatted(@, NewPayload("answer", @.payload.p1, p1[CidOf(c)]))]
        /\ todo' = todo \ {c}
        /\ pc' = IF left = {} THEN "reformat" ELSE "rewrite"
        /\ pending' = IF left = {} THEN {} ELSE pending
        /\ p1' = IF left = {} THEN NoTexts ELSE p1
        /\ UNCHANGED <<kv1, kv2, dump, seer, mode, scope, chunk, toMark, papersLeft, texts, p1err,
                       p2, flags, outbox, counts, ghosts, bounds>>

FinishReformat ==
    /\ pc = "reformat" /\ todo = {}
    /\ EndProcess("reformatted")
    /\ UNCHANGED <<durable, seer, postFailed, refused, live1, live2, paid, freshFrom, setbacks,
                   crashes>>

---------------------------------------------------------------------------
(* The environment.                                                        *)

\* The process is killed, or an exception nobody contains ends it.  The texts it
\* had collected and not yet dumped are gone with it, and so is their claim to be
\* bought only once.
Crash ==
    /\ pc # "idle"
    /\ crashes < MaxCrashes
    /\ crashes' = crashes + 1
    /\ EndProcess("crashed")
    /\ paid' = IF pc = "p1dump" THEN {cid \in paid : p1[cid] = 0} ELSE paid
    /\ UNCHANGED <<durable, seer, postFailed, refused, live1, live2, freshFrom, setbacks>>

---------------------------------------------------------------------------

Pass1Step ==
    \/ Pass1Online \/ Pass1Aborts \/ Pass1FromDump \/ Pass1Nothing
    \/ SubmitP1 \/ SaveP1Id \/ ResumeP1 \/ BatchP1Fails \/ CollectP1 \/ DumpP1

Pass2Step ==
    \/ BeginPass2 \/ Pass2Online \/ Pass2Nothing
    \/ SubmitP2 \/ SaveP2Id \/ ResumeP2 \/ BatchP2Fails \/ CollectP2

WriteStep ==
    \E c \in Cells : \/ SaveNoOcr(c) \/ DropP1(c) \/ DropP2(c) \/ MarkDropped(c)
                     \/ SaveReply(c) \/ ReplyRefused(c) \/ RewriteRow(c)

PostStep ==
    \/ BeginPost \/ SendPaper
    \/ \E p \in Papers : ReadPaper(p) \/ PrintPaper(p) \/ SendFails(p) \/ MarkPaper(p)
    \/ NextChunk \/ FinishRun \/ FinishRepost

ReformatStep ==
    \/ \E cid \in Cids : ReformatFails(cid) \/ ReformatGroup(cid)
    \/ FinishReformat

\* Everything the program does of itself once started.
ProgramStep ==
    \/ Cancel \/ ResolveTexts \/ BeginPass1 \/ Park \/ BeginTail
    \/ Pass1Step \/ Pass2Step \/ WriteStep \/ PostStep \/ ReformatStep

UserStep ==
    \E papers \in Scopes :
        \/ \E command \in Commands : StartRun(command, papers)
        \/ StartRepost(papers)
        \/ StartReformat(papers)

Next ==
    \/ ProgramStep
    \/ UserStep
    \/ Crash

Spec == Init /\ [][Next]_vars

\* The event loop runs the task to its end, and whoever owns the run gives the
\* command again (SEER's scheduler does so for a parked one) while it may.
Fairness ==
    /\ WF_vars(ProgramStep)
    /\ WF_vars(StartRun("run", Papers))

FairSpec == Spec /\ Fairness

---------------------------------------------------------------------------
(* Types.                                                                  *)

Locations ==
    {"idle", "boundary", "noocr", "pass1", "p1save", "p1poll", "p1dump", "p1drop",
     "pass2", "p2save", "p2poll", "p2drop", "tail", "post", "send", "ack",
     "reformat", "rewrite"}

Endings ==
    {"none", "succeeded", "failed", "canceled", "parked", "crashed", "reposted", "reformatted"}

StoreOK ==
    /\ rows \in [Cells -> Row]
    /\ kv1 \in [Chunks -> SUBSET Cids]
    /\ kv2 \in [Chunks -> [Cids -> Nat]]
    /\ dump \in [Chunks -> [Cids -> Nat]]
    /\ sent \in [Cells -> Payload \union {NoPayload}]
    /\ ocr \subseteq Papers

ControlOK ==
    /\ pc \in Locations
    /\ mode \in {"run", "dry", "repost", "reformat"}
    /\ scope \subseteq Papers
    /\ chunk \in Chunks
    /\ todo \subseteq Cells
    /\ toMark \subseteq Cells
    /\ papersLeft \subseteq Papers

LocalsOK ==
    /\ texts \subseteq Papers
    /\ pending \subseteq Cids
    /\ p1 \in [Cids -> Nat]
    /\ p1err \subseteq Cids
    /\ p2 \in [Cids -> Nat]
    /\ hadFatal \in BOOLEAN
    /\ quota \in BOOLEAN
    /\ firstErr \in BOOLEAN
    /\ outbox \in [Cells -> Payload \union {NoPayload}]
    /\ seen \in [Cells -> {"new", "ok", "error"}]
    /\ cellsDone \in Int
    /\ cellsError \in Int

GhostsOK ==
    /\ inv \in Nat
    /\ setbacks \in Nat
    /\ crashes \in Nat
    /\ freshFrom \in [Cids -> Nat]
    /\ verdict \in Endings
    /\ postFailed \in BOOLEAN
    /\ refused \subseteq Cells
    /\ live1 \in [Chunks -> Int]
    /\ live2 \in [Chunks -> Int]
    /\ paid \subseteq Cids

\* Type correctness: every variable of the run, the store, SEER and the model
\* keeps its type through every command, failure and crash.
TypeOK == StoreOK /\ ControlOK /\ LocalsOK /\ GhostsOK

---------------------------------------------------------------------------
(* Delivery.                                                               *)

\* posted_at is what get_unposted and mark_posted trust: a row that carries it
\* holds the very payload SEER was last sent for that cell.
PostedMeansSent == \A c \in Cells : rows[c].posted => sent[c] = rows[c].payload

\* A run that says it succeeded, and had no post fail, leaves no answer of its
\* papers unsent, whatever earlier invocations left behind: errors included.
CleanRunLeavesNothingUnsent ==
    (verdict = "succeeded" /\ mode = "run" /\ ~postFailed) =>
        \A c \in Cells : (c[1] \in scope /\ Finished(rows[c])) =>
            /\ rows[c].posted
            /\ sent[c] = rows[c].payload

\* After a `repost` that went through, SEER has every answer of its papers,
\* however often they were posted or reformatted before.
RepostSendsEverything ==
    verdict = "reposted" =>
        \A c \in Cells : (c[1] \in scope /\ Finished(rows[c])) => sent[c] = rows[c].payload

\* The delivery promise, free of passes, batches and crashes.
Delivery == INSTANCE AnswerDelivery WITH
    Answers  <- Payload,
    NoAnswer <- NoPayload,
    current  <- [c \in Cells |-> rows[c].payload],
    received <- sent,
    owed     <- {c \in Cells : Unposted(rows[c])}

\* Every step of the run builds, sends, settles or drops answers as the
\* delivery promise allows, or leaves them alone.
ImplementsDelivery == Delivery!Spec

---------------------------------------------------------------------------
(* Progress, completeness and retries.                                     *)

\* While a run is in progress its counters are those of the table: a resumed
\* run starts from what earlier ones finished, and a cell processed again is
\* not counted again but has its verdict corrected.
CountersMatchStore ==
    (pc # "idle" /\ mode \in {"run", "dry"}) =>
        LET finished == {c \in Cells : c[1] \in scope /\ Finished(rows[c])}
        IN  /\ cellsDone = Cardinality(finished)
            /\ cellsError = Cardinality({c \in finished : IsError(rows[c].payload)})

\* A run that says it succeeded has an answer for every cell in its scope,
\* except where the store would take none.
SucceededMeansComplete ==
    (verdict = "succeeded" /\ mode = "run") =>
        \A c \in Cells : c[1] \in scope => Finished(rows[c]) \/ c \in refused

\* Between invocations, an answer that only reports a provider's failure is
\* marked for another try.  The two transactions that write it are not one: each
\* time a process is killed, one such answer at most is left as if it were final.
Stranded == {c \in Cells : /\ rows[c].payload.kind \in ProviderErrors
                           /\ rows[c].status # "failed"}
RetryableAtRest == pc = "idle" => Cardinality(Stranded) <= crashes

\* Answers built from a paper's text are never replaced by "no text".
AnswersSurviveNoOcr ==
    [][\A c \in Cells : rows[c].payload.p1 # 0 => rows'[c].payload.kind # "no_ocr"]_vars

\* With fail_fast, a run that met an extraction error does not say it succeeded.
FailFastRunsRaise ==
    (FailFast /\ verdict = "succeeded" /\ mode = "run") =>
        \A c \in Cells : (c[1] \in scope /\ rows[c].payload.inv = inv) =>
            rows[c].payload.kind # "parse_error"

\* Every answer stored is delivered, however often the run is cut short.
EventuallySent == \A c \in Cells : Unposted(rows[c]) ~> rows[c].posted

\* Every cell that has no answer yet, whatever took it away or kept it from
\* having one, and every cell a provider failed, is answered and sent in the end.
EventuallyAnswered ==
    \A c \in Cells : rows[c].status \in {"absent", "failed"} ~> rows[c].status = "posted"

---------------------------------------------------------------------------
(* Batches, dumps and the texts they carry.                                *)

Recorded(b) == IF b THEN 1 ELSE 0

\* Between invocations, the batches in flight are those whose id the store holds.
\* None is polled after its end, and under no key are more batches in flight that
\* nobody has the id of than processes were killed.
EveryBatchHasItsId ==
    pc = "idle" =>
        \A k \in Chunks : /\ live1[k] - Recorded(kv1[k] # {}) \in 0..crashes
                          /\ live2[k] - Recorded(kv2[k] # NoTexts) \in 0..crashes

\* Every batch whose id is saved is collected, or seen to have failed.
BatchesEventuallyTaken ==
    \A k \in Chunks : /\ kv1[k] # {} ~> kv1[k] = {}
                      /\ kv2[k] # NoTexts ~> kv2[k] = NoTexts

\* No text is lost where nothing failed.
LostOnlyAfterFailure ==
    setbacks + crashes = 0 => \A c \in Cells : rows[c].payload.kind # "p1_lost"

\* A text a batch has delivered is not bought from another batch, whatever is
\* parked, failed or killed in between, but for what a process killed between
\* collecting a batch and dumping its texts had in hand.
TextsBoughtOnce ==
    [][(pc = "p1poll" /\ pc' = "p1dump") =>
          \A cid \in Cids : p1'[cid] # 0 => cid \notin paid]_vars

\* Nor is it missed: no cell is given an error answer for want of a text that a
\* batch has delivered, whichever invocation collected it.
PaidTextsAreUsed ==
    [][\A c \in Cells :
          (rows'[c].payload # rows[c].payload /\ rows'[c].payload.kind \in {"p1_error", "p1_lost"})
             => CidOf(c) \notin paid]_vars

\* An answer carries the Pass-1 text its Pass-2 reply was asked to format.
FormattedFromItsText ==
    \A c \in Cells : rows[c].payload.fmt # 0 => rows[c].payload.fmt = rows[c].payload.p1

\* After --reset-runs, neither the text an answer carries nor the text it was
\* formatted from was obtained before it, except where a dump or a Pass-2 batch
\* kept a text of the very call.
ResetMeansFresh ==
    \A c \in Cells :
        /\ rows[c].payload.p1 # 0 => rows[c].payload.p1 >= freshFrom[CidOf(c)]
        /\ rows[c].payload.fmt # 0 => rows[c].payload.fmt >= freshFrom[CidOf(c)]
=============================================================================
