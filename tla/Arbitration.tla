---------------------------- MODULE Arbitration ----------------------------
(***************************************************************************)
(* Arbitration (arbitrate_orchestrator.py): an arbiter run over the        *)
(* disputed items of a dispute set, by `arbitrate` in one command or by    *)
(* `arbitrate-pass1` and `arbitrate-pass2`, with `arbitrate-repost` and    *)
(* --reset-runs, over the resolutions table.                               *)
(*                                                                         *)
(* It has what a run over questions has not: papers with continuation      *)
(* items are asked in one group, in study order, and the reply is walked   *)
(* again to tell what does not apply; and --disputes filters the items of  *)
(* a command, hence the groups it asks.                                    *)
(*                                                                         *)
(* The twins of the answers table's methods are the operators of           *)
(* AnswerStore.  Passes are asked online; provider batches, their ids and  *)
(* dumps are those of RunPipeline.  A step ends at each transaction and at *)
(* each call of a provider or of SEER.                                     *)
(***************************************************************************)
EXTENDS AnswerStore, Sequences, FiniteSets

CONSTANTS NItems,        \* disputed items are 1..NItems, by paper and in study order
          PaperOf,
          Continuation,  \* items of type "continuation"
          PerQuestion,   \* cfg.batching: "per_question"; otherwise "all"
          Gates,         \* items whose question is an inclusion criterion
          Needs,         \* conditions: per item, pairs of an item and the values that meet it
          Readings,      \* the values a reply may have for each item
          Failing,       \* the values that fail a gate
          Damage,        \* what may befall each item of a reply: "cited", "cut"
          ChunkPapers,   \* cfg.chunk_papers; 0 is one chunk
          FailFast,      \* cfg.fail_fast
          Script,        \* what the user may give: for each time, commands with the
                         \* items that --disputes lets through
          Troubled,      \* bound: mishaps befall the first so many invocations
          MaxMishaps,    \* bound: failed calls and posts, missing texts, cancels
          MaxCrashes     \* bound: times the process dies between two steps

Items    == 1..NItems
Papers   == {PaperOf[i] : i \in Items}
Commands == {"arbitrate", "reset", "pass1", "pass2", "pass2nopost", "repost"}

ASSUME ItemsHavePapers == NItems \in Nat \ {0} /\ PaperOf \in [Items -> Nat \ {0}]
ASSUME PapersInOrder == \A i, j \in Items : i < j => PaperOf[i] <= PaperOf[j]
ASSUME KindsAreItems == Continuation \subseteq Items /\ Gates \subseteq Items
ASSUME NeedsAreConditions ==
    \A i \in Items : \A need \in Needs[i] : need[1] \in Items /\ PaperOf[need[1]] = PaperOf[i]
ASSUME DamageIsKnown == Damage \in [Items -> SUBSET {"cited", "cut"}]
ASSUME FlagsAreBool == {PerQuestion, FailFast} \subseteq BOOLEAN
ASSUME ScriptIsCommands == Script \in Seq(SUBSET (Commands \X SUBSET Items))
ASSUME BoundsAreNat == {ChunkPapers, Troubled, MaxMishaps, MaxCrashes} \subseteq Nat

NoValue == "no value"
NoText  == [inv |-> 0, on |-> {}]

\* What a resolution says; the errors are told apart by their detail.
Verdicts == {"ok", "invalid", "not_applicable", "omitted", "damaged", "unreadable",
             "no_ocr", "p1_error", "p2_error", "awaiting"}

NoGroup == <<0, 0>>

VARIABLES
    rows,         \* the resolutions table
    ocr,          \* the papers whose full text SEER has given
    sent,         \* the last resolution SEER was sent for each item
    pc, mode,
    scope,        \* disputes: the items of this command
    papersLeft,   \* papers whose chunk (or turn) has not come
    chunk,        \* papers being processed
    visit,        \* papers the loop at pc has still to visit
    calls,        \* pending_cells: groups, with the Pass-1 text each one formats
    heard,        \* those of calls with a text, then with a reply
    todo,         \* items the loop at pc has still to write
    toMark,       \* the item just saved that mark_resolution_failed has still to flip
    reading,      \* what the current reply makes of each item
    outbox,       \* resolutions read for the post in flight
    trouble,      \* run_had_fatal_error or first_error
    inv, mishaps, crashes

durable == <<rows, ocr>>
passes  == <<calls, heard, todo, toMark, reading>>
local   == <<scope, papersLeft, chunk, visit, passes, outbox, trouble>>
bounds  == <<inv, mishaps, crashes>>
vars    == <<durable, sent, pc, mode, local, bounds>>

---------------------------------------------------------------------------
(* Groups.                                                                 *)

ItemsOf(P, S) == {i \in S : PaperOf[i] \in P}

\* groups_def: a paper with a continuation item is one group.
GroupsOf(p) ==
    LET asked == ItemsOf({p}, scope)
    IN  IF PerQuestion /\ asked \cap Continuation = {}
        THEN {{i} : i \in asked}
        ELSE {asked} \ {{}}

\* The cid "<run>-<paper>-<index of the group among those asked of the paper>".
CidOf(group) ==
    LET p == PaperOf[CHOOSE i \in group : TRUE]
    IN  <<p, Cardinality({j \in ItemsOf({p}, scope) : \A i \in group : j < i})>>

IsFirst(n, S) == n \in S /\ \A m \in S : n <= m

ItemsIn(cs) == UNION {call.on : call \in cs}

FirstCall(call, cs) == call \in cs /\ IsFirst(CHOOSE i \in call.on : IsFirst(i, call.on), ItemsIn(cs))

Resolution(verdict, value, text, group) ==
    [verdict |-> verdict, value |-> value, inv |-> inv, text |-> text, group |-> group]

Failure(verdict, text) == Resolution(verdict, NoValue, text, NoGroup)

NoReading   == [i \in Items |-> NoPayload]
Spread(f)   == [i \in Items |-> IF i \in DOMAIN f THEN f[i] ELSE NoPayload]
EmptyOutbox == [i \in Items |-> NoPayload]

---------------------------------------------------------------------------
(* Replies.                                                                *)

\* An item of a parsed reply: a value or none (an abstention), no usable answer, or
\* nothing at all.
ParsedItem(i) ==
    [status : {"ok"}, value : Readings[i], damage : {"none"} \union Damage[i]]
    \union [status : {"unmappable", "absent"}, value : {NoValue}, damage : {"none"}]

Replies(group) ==
    {reply \in [group -> UNION {ParsedItem(i) : i \in group}] :
        \A i \in group : reply[i] \in ParsedItem(i)}

\* What an item says that does apply.
Said(item) ==
    CASE item.status = "ok"         -> "ok"
      [] item.status = "unmappable" -> "invalid"
      [] item.status = "absent"     -> "omitted"

\* _apply_adjudication_scope: after a gate that fails nothing applies, nor does an
\* item with a condition that the answer to an earlier one does not meet.
Path(reply) ==
    LET at[i \in DOMAIN reply] ==
            IF \/ \E g \in DOMAIN reply \cap Gates :
                     g < i /\ at[g] = "ok" /\ reply[g].value \in Failing
               \/ \E need \in Needs[i] :
                     /\ need[1] \in DOMAIN reply /\ need[1] < i /\ at[need[1]] = "ok"
                     /\ reply[need[1]].value \notin need[2]
            THEN "not_applicable"
            ELSE Said(reply[i])
    IN  at

\* Variant: what does not apply keeps the value the reply had for it.
ArbitratedKeepingValue(reply, text) ==
    [i \in DOMAIN reply |->
        IF reply[i].damage # "none"
        THEN Failure("damaged", NoText)
        ELSE Resolution(Path(reply)[i], reply[i].value, text, NoGroup)]

\* The tail of `arbitrate`: a damaged item is an error whatever the path says of it.
Arbitrated(reply, text) ==
    [i \in DOMAIN reply |->
        IF reply[i].damage # "none"
        THEN Failure("damaged", NoText)
        ELSE Resolution(Path(reply)[i],
                        IF Path(reply)[i] = "ok" THEN reply[i].value ELSE NoValue,
                        text, NoGroup)]

Unreadable(group) == [i \in group |-> Failure("unreadable", NoText)]

\* `arbitrate-pass2` does not walk the path, wants every key, does not look at
\* item_error, and takes the value as it is.
Formatted(reply, text) ==
    IF \E i \in DOMAIN reply : reply[i].status = "absent"
    THEN Unreadable(DOMAIN reply)
    ELSE [i \in DOMAIN reply |->
            IF reply[i].damage = "cited"
            THEN Failure("damaged", NoText)
            ELSE Resolution("ok", reply[i].value, text, NoGroup)]

---------------------------------------------------------------------------

Mishap(b) ==
    /\ b => mishaps < MaxMishaps /\ inv <= Troubled
    /\ mishaps' = IF b THEN mishaps + 1 ELSE mishaps

\* The process is gone; only the store and SEER remain.
EndProcess ==
    /\ pc' = "idle"
    /\ scope' = {} /\ papersLeft' = {} /\ chunk' = {} /\ visit' = {}
    /\ calls' = {} /\ heard' = {} /\ todo' = {} /\ toMark' = {}
    /\ reading' = NoReading /\ outbox' = EmptyOutbox
    /\ trouble' = FALSE

Init ==
    /\ rows = [i \in Items |-> NoRow]
    /\ ocr = {}
    /\ sent = [i \in Items |-> NoPayload]
    /\ pc = "idle" /\ mode = "arbitrate"
    /\ scope = {} /\ papersLeft = {} /\ chunk = {} /\ visit = {}
    /\ calls = {} /\ heard = {} /\ todo = {} /\ toMark = {}
    /\ reading = NoReading /\ outbox = EmptyOutbox
    /\ trouble = FALSE
    /\ inv = 0 /\ mishaps = 0 /\ crashes = 0

\* --reset-runs deletes the run's rows before anything else.
StartCommand(command, S) ==
    /\ pc = "idle"
    /\ inv < Len(Script) /\ <<command, S>> \in Script[inv + 1]
    /\ inv' = inv + 1
    /\ mode' = IF command = "reset" THEN "arbitrate" ELSE command
    /\ scope' = S
    /\ papersLeft' = {PaperOf[i] : i \in S}
    /\ rows' = IF command = "reset" THEN [i \in Items |-> NoRow] ELSE rows
    /\ pc' = IF mode' \in {"arbitrate", "pass1"} THEN "chunk" ELSE "paper"
    /\ UNCHANGED <<ocr, sent, chunk, visit, passes, outbox, trouble, mishaps, crashes>>

---------------------------------------------------------------------------
(* Chunks and source texts.                                                *)

\* `arbitrate-pass1` has no chunks.
ChunkOf(P) ==
    IF ChunkPapers = 0 \/ mode = "pass1"
    THEN P
    ELSE {p \in P : Cardinality({x \in P : x < p}) < ChunkPapers}

BeginChunk ==
    /\ pc = "chunk" /\ papersLeft # {}
    /\ chunk' = ChunkOf(papersLeft)
    /\ visit' = chunk'
    /\ papersLeft' = papersLeft \ chunk'
    /\ pc' = "fetch"
    /\ UNCHANGED <<durable, sent, mode, scope, passes, outbox, trouble, bounds>>

\* should_cancel.
Cancel ==
    /\ pc = "chunk" /\ mode = "arbitrate" /\ papersLeft # {}
    /\ Mishap(TRUE)
    /\ EndProcess
    /\ UNCHANGED <<durable, sent, mode, inv, crashes>>

FinishRun ==
    /\ pc = "chunk" /\ papersLeft = {}
    /\ EndProcess
    /\ UNCHANGED <<durable, sent, mode, bounds>>

\* The stored text, or else SEER's, which may have none.  Without one `arbitrate`
\* saves an error for each disputed item of the paper; `arbitrate-pass1` passes on.
FetchText(p) ==
    /\ pc = "fetch" /\ todo = {}
    /\ IsFirst(p, visit)
    /\ visit' = visit \ {p}
    /\ \/ /\ ocr' = ocr \union {p}
          /\ todo' = {}
          /\ Mishap(FALSE)
       \/ /\ p \notin ocr
          /\ Mishap(TRUE)
          /\ todo' = IF mode = "arbitrate" THEN ItemsOf({p}, scope) ELSE {}
          /\ UNCHANGED ocr
    /\ UNCHANGED <<rows, sent, pc, mode, scope, papersLeft, chunk, calls, heard, toMark, reading,
                   outbox, trouble, inv, crashes>>

\* Variant: only the payload is replaced.
SaveKeepingPosted(i, resolution) ==
    rows' = [rows EXCEPT ![i] = [SaveAnswer(resolution) EXCEPT !.posted = rows[i].posted]]

Save(i, resolution) == rows' = [rows EXCEPT ![i] = SaveAnswer(resolution)]

SaveNoOcr(i) ==
    /\ pc = "fetch"
    /\ IsFirst(i, todo)
    /\ Save(i, Failure("no_ocr", NoText))
    /\ todo' = todo \ {i}
    /\ UNCHANGED <<ocr, sent, pc, mode, scope, papersLeft, chunk, visit, calls, heard, toMark,
                   reading, outbox, trouble, bounds>>

---------------------------------------------------------------------------
(* Pass 1.                                                                 *)

\* Variant: only the items that are still open are asked.
AskOpen(p) ==
    {{i \in group : ~ShouldSkip(rows[i])} : group \in GroupsOf(p)} \ {{}}

\* The groups of a paper with an item that is not done or posted.
Ask(p) == {group \in GroupsOf(p) : \E i \in group : ~ShouldSkip(rows[i])}

Pending == [on : UNION {Ask(p) : p \in chunk \cap ocr}, text : {NoText}]

\* The items of the calls that failed, which the error loops write.
Drops(failed) == IF mode = "arbitrate" THEN ItemsIn(failed) ELSE {}

\* "Remove cells already pass1_done".
ToStore(got) ==
    {call \in got : \E i \in call.on : rows[i].status # "pass1_done"}

\* The first call alone, then the others: any may fail, or run out of budget; the
\* run is in trouble when it was the first that failed.
Pass1 ==
    /\ pc = "fetch" /\ visit = {} /\ todo = {}
    /\ calls' = {[call EXCEPT !.text = [inv |-> inv, on |-> call.on]] : call \in Pending}
    /\ \E ok \in SUBSET calls' :
          /\ Mishap(ok # calls')
          /\ heard' = ok
          /\ todo' = IF mode = "pass1" THEN ItemsIn(ToStore(ok)) ELSE Drops(calls' \ ok)
          /\ trouble' \in {trouble} \union (IF ok = {} /\ calls' # {} THEN {TRUE} ELSE {})
    /\ pc' = IF mode = "pass1" THEN "store" ELSE "drop1"
    /\ UNCHANGED <<durable, sent, mode, scope, papersLeft, chunk, visit, toMark, reading, outbox,
                   inv, crashes>>

\* `arbitrate-pass1`: a row without an answer for each item; the text stands in
\* the group's first row only.
StoreText(i) ==
    LET call == CHOOSE c \in heard : i \in c.on
    IN  /\ pc = "store"
        /\ IsFirst(i, todo)
        /\ rows' = [rows EXCEPT ![i] = SavePass1(
              Resolution("awaiting", NoValue,
                         IF IsFirst(i, call.on) THEN call.text ELSE NoText, CidOf(call.on)))]
        /\ todo' = todo \ {i}
        /\ UNCHANGED <<ocr, sent, pc, mode, scope, papersLeft, chunk, visit, calls, heard, toMark,
                       reading, outbox, trouble, bounds>>

FinishPass1 ==
    /\ pc = "store" /\ todo = {}
    /\ EndProcess
    /\ UNCHANGED <<durable, sent, mode, bounds>>

\* The error loops of `arbitrate`: save the error, then mark the row retryable.
Drop(i) ==
    /\ pc \in {"drop1", "drop2"} /\ toMark = {}
    /\ IsFirst(i, todo)
    /\ Save(i, Failure(IF pc = "drop1" THEN "p1_error" ELSE "p2_error", NoText))
    /\ todo' = todo \ {i}
    /\ toMark' = {i}
    /\ UNCHANGED <<ocr, sent, pc, mode, scope, papersLeft, chunk, visit, calls, heard, reading,
                   outbox, trouble, bounds>>

Mark(i) ==
    /\ i \in toMark
    /\ rows' = [rows EXCEPT ![i] = MarkFailed(@)]
    /\ toMark' = {}
    /\ UNCHANGED <<ocr, sent, pc, mode, scope, papersLeft, chunk, visit, calls, heard, todo,
                   reading, outbox, trouble, bounds>>

Written == todo = {} /\ toMark = {}

---------------------------------------------------------------------------
(* Pass 2.                                                                 *)

\* The rows of a paper that await Pass 2, whether disputed in this command or not,
\* by the group they were stored with.
Awaiting(p)      == {i \in ItemsOf({p}, Items) : rows[i].status = "pass1_done"}
StoredGroups(p)  == {{i \in Awaiting(p) : rows[i].payload.group = rows[j].payload.group} :
                        j \in Awaiting(p)}
StoredText(S)    == rows[CHOOSE i \in S : IsFirst(i, S)].payload.text
StoredCalls(p)   == {[on |-> S, text |-> StoredText(S)] :
                        S \in {G \in StoredGroups(p) : StoredText(G) # NoText}}

\* `arbitrate-pass2`, paper by paper.  A group whose first row has no text is
\* skipped; a paper without groups is too, and nothing of it is posted.
ReadTexts(p) ==
    /\ pc = "paper" /\ mode \in {"pass2", "pass2nopost"}
    /\ IsFirst(p, papersLeft)
    /\ papersLeft' = papersLeft \ {p}
    /\ heard' = StoredCalls(p)
    /\ calls' = heard'
    /\ IF heard' = {}
       THEN UNCHANGED <<pc, chunk>>
       ELSE pc' = "drop1" /\ chunk' = {p}
    /\ UNCHANGED <<durable, sent, mode, scope, visit, todo, toMark, reading, outbox, trouble,
                   bounds>>

\* The first call alone; if it fails the others are not made.
Pass2 ==
    /\ pc = "drop1" /\ Written
    /\ \E ok \in SUBSET heard :
          /\ ok = {} \/ \E call \in ok : FirstCall(call, heard)
          /\ Mishap(ok # heard)
          /\ heard' = ok
          /\ todo' = Drops(heard \ ok)
    /\ pc' = "drop2"
    /\ UNCHANGED <<durable, sent, mode, scope, papersLeft, chunk, visit, calls, toMark, reading,
                   outbox, trouble, inv, crashes>>

\* A reply that looped, was cut short or is no document fails its whole group.
TakeReply(call) ==
    /\ pc \in {"drop2", "tail"} /\ Written
    /\ FirstCall(call, heard)
    /\ heard' = heard \ {call}
    /\ \/ \E reply \in Replies(call.on) :
              /\ reading' = Spread(IF mode = "arbitrate" THEN Arbitrated(reply, call.text)
                                                         ELSE Formatted(reply, call.text))
              /\ Mishap(FALSE)
              /\ UNCHANGED trouble
       \/ /\ reading' = Spread(Unreadable(call.on))
          /\ Mishap(TRUE)
          /\ trouble' = (trouble \/ mode = "arbitrate")
    /\ todo' = call.on \cap scope
    /\ pc' = "tail"
    /\ UNCHANGED <<durable, sent, mode, scope, papersLeft, chunk, visit, calls, toMark, outbox, inv,
                   crashes>>

SaveReading(i) ==
    /\ pc = "tail"
    /\ IsFirst(i, todo)
    /\ Save(i, reading[i])
    /\ todo' = todo \ {i}
    /\ UNCHANGED <<ocr, sent, pc, mode, scope, papersLeft, chunk, visit, calls, heard, toMark,
                   reading, outbox, trouble, bounds>>

---------------------------------------------------------------------------
(* Posting: after each chunk, after each paper of Pass 2, and `repost`.    *)

\* Variant: only the papers that were asked are visited.
BeginPostOfAsked ==
    /\ pc \in {"drop2", "tail"} /\ Written /\ heard = {}
    /\ visit' = {p \in chunk : \E call \in calls : ItemsOf({p}, call.on) # {}}
    /\ calls' = {} /\ reading' = NoReading
    /\ pc' = "post"
    /\ UNCHANGED <<durable, sent, mode, scope, papersLeft, chunk, heard, todo, toMark, outbox,
                   trouble, bounds>>

BeginPost ==
    /\ pc \in {"drop2", "tail"} /\ Written /\ heard = {}
    /\ visit' = chunk
    /\ calls' = {} /\ reading' = NoReading
    /\ pc' = "post"
    /\ UNCHANGED <<durable, sent, mode, scope, papersLeft, chunk, heard, todo, toMark, outbox,
                   trouble, bounds>>

\* `arbitrate-repost` takes no --disputes: it visits every paper.
BeginRepost ==
    /\ pc = "paper" /\ mode = "repost"
    /\ visit' = Papers
    /\ papersLeft' = {}
    /\ pc' = "post"
    /\ UNCHANGED <<durable, sent, mode, scope, chunk, passes, outbox, trouble, bounds>>

ToSend(p) ==
    CASE mode = "repost"      -> {i \in ItemsOf({p}, Items) : Postable(rows[i])}
      [] mode = "pass2nopost" -> {}
      [] OTHER                -> {i \in ItemsOf({p}, Items) : Unposted(rows[i])}

Read(p) ==
    /\ pc = "post"
    /\ IsFirst(p, visit)
    /\ IF ToSend(p) = {}
       THEN visit' = visit \ {p} /\ UNCHANGED <<pc, outbox>>
       ELSE /\ outbox' = [i \in Items |-> IF i \in ToSend(p) THEN rows[i].payload ELSE NoPayload]
            /\ pc' = "send"
            /\ UNCHANGED visit
    /\ UNCHANGED <<durable, sent, mode, scope, papersLeft, chunk, passes, trouble, bounds>>

Deliver ==
    sent' = [i \in Items |-> IF outbox[i] # NoPayload THEN outbox[i] ELSE sent[i]]

Send ==
    /\ pc = "send"
    /\ Deliver
    /\ pc' = "ack"
    /\ UNCHANGED <<durable, mode, local, bounds>>

\* Every retry of the post failed, though one may have reached SEER: a run goes on
\* to the next paper, `repost` gives up.
SendFails(p) ==
    /\ pc = "send"
    /\ IsFirst(p, visit)
    /\ Mishap(TRUE)
    /\ Deliver \/ UNCHANGED sent
    /\ IF mode = "repost"
       THEN EndProcess
       ELSE /\ visit' = visit \ {p} /\ outbox' = EmptyOutbox /\ pc' = "post"
            /\ UNCHANGED <<scope, papersLeft, chunk, passes, trouble>>
    /\ UNCHANGED <<durable, mode, inv, crashes>>

MarkSent(p) ==
    /\ pc = "ack"
    /\ IsFirst(p, visit)
    /\ rows' = [i \in Items |-> IF outbox[i] # NoPayload THEN MarkPosted(rows[i]) ELSE rows[i]]
    /\ visit' = visit \ {p} /\ outbox' = EmptyOutbox /\ pc' = "post"
    /\ UNCHANGED <<ocr, sent, mode, scope, papersLeft, chunk, passes, trouble, bounds>>

\* After the chunk: fail_fast stops the run.
EndPosts ==
    /\ pc = "post" /\ visit = {}
    /\ IF mode = "repost" \/ (mode = "arbitrate" /\ FailFast /\ trouble)
       THEN EndProcess
       ELSE /\ pc' = IF mode = "arbitrate" THEN "chunk" ELSE "paper"
            /\ chunk' = {}
            /\ UNCHANGED <<scope, papersLeft, visit, passes, outbox, trouble>>
    /\ UNCHANGED <<durable, sent, mode, bounds>>

FinishPass2 ==
    /\ pc = "paper" /\ papersLeft = {}
    /\ EndProcess
    /\ UNCHANGED <<durable, sent, mode, bounds>>

\* The process is killed, or an exception nobody contains ends it.
Crash ==
    /\ pc # "idle"
    /\ crashes < MaxCrashes /\ inv <= Troubled
    /\ crashes' = crashes + 1
    /\ EndProcess
    /\ UNCHANGED <<durable, sent, mode, inv, mishaps>>

---------------------------------------------------------------------------

ProgramStep ==
    \/ BeginChunk \/ Cancel \/ FinishRun \/ Pass1 \/ FinishPass1 \/ Pass2
    \/ BeginPost \/ BeginRepost \/ Send \/ EndPosts \/ FinishPass2
    \/ \E p \in Papers : FetchText(p) \/ ReadTexts(p) \/ Read(p) \/ SendFails(p) \/ MarkSent(p)
    \/ \E i \in Items : SaveNoOcr(i) \/ StoreText(i) \/ Drop(i) \/ Mark(i) \/ SaveReading(i)
    \/ \E call \in heard : TakeReply(call)

UserStep ==
    \E given \in UNION {Script[n] : n \in DOMAIN Script} : StartCommand(given[1], given[2])

Next == ProgramStep \/ UserStep \/ Crash

Spec == Init /\ [][Next]_vars

\* The event loop runs the command to its end, and the user gives the next one.
FairSpec == Spec /\ WF_vars(ProgramStep) /\ WF_vars(UserStep)

---------------------------------------------------------------------------
(* Correctness.                                                            *)

ResolutionType ==
    [verdict : Verdicts, value : (UNION {Readings[i] : i \in Items}) \union {NoValue}, inv : Nat,
     text : [inv : Nat, on : SUBSET Items], group : Nat \X Nat]

\* Type correctness: the store, SEER and the command keep their types; only what
\* is answered has a value, and only what awaits Pass 2 has the group it was asked in.
TypeOK ==
    /\ \A i \in Items :
          /\ rows[i].status \in Statuses /\ rows[i].posted \in BOOLEAN
          /\ {rows[i].payload, sent[i], reading[i], outbox[i]}
                \subseteq ResolutionType \union {NoPayload}
          /\ rows[i].payload # NoPayload =>
                /\ rows[i].payload.verdict # "ok" => rows[i].payload.value = NoValue
                /\ rows[i].status = "pass1_done" <=> rows[i].payload.group # NoGroup
    /\ ocr \subseteq Papers
    /\ pc \in {"idle", "chunk", "fetch", "store", "drop1", "drop2", "tail", "paper", "post",
               "send", "ack"}
    /\ mode \in Commands \ {"reset"}
    /\ scope \union todo \union toMark \subseteq Items
    /\ papersLeft \union chunk \union visit \subseteq Papers
    /\ calls \union heard \subseteq [on : SUBSET Items, text : [inv : Nat, on : SUBSET Items]]
    /\ trouble \in BOOLEAN
    /\ {inv, mishaps, crashes} \subseteq Nat

\* The delivery promise, with the resolutions for answers.
Delivery == INSTANCE AnswerDelivery WITH
    Cells    <- Items,
    Answers  <- ResolutionType,
    NoAnswer <- NoPayload,
    current  <- [i \in Items |-> rows[i].payload],
    received <- sent,
    owed     <- {i \in Items : rows[i].payload # NoPayload /\ ~rows[i].posted}

\* Arbitration keeps the promise `run` keeps: no debt is written off before SEER
\* has the resolution, whatever commands, failures and crashes come between.
ImplementsDelivery == Delivery!Spec

Settled(i) == rows[i].status \in {"done", "posted"}

\* Papers that are asked in one group, and have nothing left to ask.
SettledPapers ==
    {p \in Papers : /\ ~PerQuestion \/ ItemsOf({p}, Continuation) # {}
                    /\ \A i \in ItemsOf({p}, Items) : Settled(i)}

\* A resolution that `arbitrate` saved: Pass 1 and Pass 2 in one invocation.
ByArbitrate(i) == rows[i].payload # NoPayload /\ rows[i].payload.text.inv = rows[i].payload.inv

Answered(i) == ByArbitrate(i) /\ rows[i].payload.verdict = "ok"

\* Once a paper is settled, a gate that fails has no answer after it, although the
\* rows may have been written by several invocations that died half-way.
ExclusionIsFollowed ==
    \A p \in SettledPapers : \A g, i \in ItemsOf({p}, Items) :
        (g \in Gates /\ g < i /\ Answered(g) /\ rows[g].payload.value \in Failing)
            => ~Answered(i)

\* Once a paper is settled, what does not apply has its reason in the table: a
\* gate that fails or a condition that is not met, unless that item was damaged.
NotApplicableForReason ==
    \A p \in SettledPapers : \A i \in ItemsOf({p}, Items) :
        rows[i].payload.verdict = "not_applicable" =>
            \E j \in ItemsOf({p}, Items) :
                /\ j < i
                /\ j \in Gates \/ \E need \in Needs[i] : need[1] = j
                /\ \/ rows[j].payload.verdict = "damaged"
                   \/ /\ Answered(j)
                      /\ \/ j \in Gates /\ rows[j].payload.value \in Failing
                         \/ \E need \in Needs[i] :
                               need[1] = j /\ rows[j].payload.value \notin need[2]

\* The table keeps to the path of the study, both ways: nothing is answered beyond
\* a gate that fails, and nothing is passed over without its reason.
PathIsKept == ExclusionIsFollowed /\ NotApplicableForReason

\* A provider's error is computed again by the next run, but for one item at most
\* for each time the process died between saving such an error and marking it.
Stranded == {i \in Items : /\ rows[i].payload # NoPayload
                           /\ rows[i].payload.verdict \in {"p1_error", "p2_error"}
                           /\ rows[i].status # "failed"}
RetryableAtRest == pc = "idle" => Cardinality(Stranded) <= crashes

\* Repeating `arbitrate` settles every item and sends it, what a crash, a failed call,
\* a failed post or a half done `arbitrate-pass2` left behind included.
EventuallyPosted == <>[](\A i \in Items : rows[i].status = "posted")

\* A resolution is made of a text that was asked about its item.
FormattedFromItsText ==
    \A i \in Items :
        (rows[i].payload # NoPayload /\ rows[i].payload.text # NoText) => i \in rows[i].payload.text.on
=============================================================================
