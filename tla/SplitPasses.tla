---------------------------- MODULE SplitPasses ----------------------------
(***************************************************************************)
(* The two passes as commands of their own: `pass1` stores the texts as    *)
(* pass1_done rows (orchestrator.pass1_pipeline), `pass2` formats and      *)
(* posts them, paper by paper, at any later time (pass2_pipeline), and     *)
(* `repost` sends what is stored.  Between the two there is only the       *)
(* table, and each is run as often as the user likes.                      *)
(*                                                                         *)
(* The pass executors are those of RunPipeline, which has their windows    *)
(* between a provider's call and the transaction that records it; here     *)
(* submitting and saving the id are one step, and so are collecting,       *)
(* deleting the id and writing the dump.  Neither command has chunks: all  *)
(* batches of a pass go by one key.                                        *)
(***************************************************************************)
EXTENDS AnswerStore, Sequences, FiniteSets

CONSTANTS NPapers,      \* papers of the pipeline are 1..NPapers, in its order
          NQuestions,   \* questions are 1..NQuestions, in its order
          GroupOf,      \* resolve_groups: the group each question is asked in
          Script,       \* what commands the user may give, one set for each
          Troubled,     \* bound: mishaps befall the first so many invocations
          MaxSetbacks,  \* bound: provider and SEER failures, missing texts, parks
          MaxCrashes    \* bound: times the process dies between two steps

Papers    == 1..NPapers
Questions == 1..NQuestions
Cells     == Papers \X Questions
Cids      == Papers \X {GroupOf[q] : q \in Questions}

ASSUME SizesAreNat == {NPapers, NQuestions} \subseteq Nat \ {0}
ASSUME GroupsAreNat == GroupOf \in [Questions -> Nat]
ASSUME ScriptIsCommands == Script \in Seq(SUBSET {"pass1", "pass2", "pass2nopost", "repost"})
ASSUME BoundsAreNat == {Troubled, MaxSetbacks, MaxCrashes} \subseteq Nat

CidOf(c)     == <<c[1], GroupOf[c[2]]>>
CellsOf(cid) == {c \in Cells : CidOf(c) = cid}
CellsIn(S)   == {c \in Cells : CidOf(c) \in S}
NoTexts      == [cid \in Cids |-> 0]
EmptyOutbox  == [c \in Cells |-> NoPayload]

VARIABLES
    rows,        \* [Cells -> Row]: the answers table
    kv1,         \* the saved Pass-1 batch, as its requests; {} is no id
    kv2,         \* the saved Pass-2 batch, as the text each request formats
    dump,        \* the Pass-1 dump: its texts; NoTexts is no file
    ocr,         \* the papers whose full text SEER has given
    sent,        \* the last payload SEER was sent for each cell
    batched,     \* cfg.batch_p1 and cfg.batch_p2, as the set of batched passes
    pc, mode, papersLeft,
    todo,        \* cells the loop at pc has still to write
    pending,     \* pending_cells
    p1, p2,      \* the texts and the replies in hand; a reply is what it formats
    outbox,      \* payloads read for the post in flight
    inv, setbacks, crashes

durable == <<rows, kv1, kv2, dump, ocr>>
locals  == <<todo, pending, p1, p2, outbox>>
bounds  == <<inv, setbacks, crashes>>
vars    == <<durable, sent, batched, pc, mode, papersLeft, locals, bounds>>

---------------------------------------------------------------------------
(* The loops of the code run over papers, then groups, then questions.     *)

Before(c, d) ==
    \/ c[1] < d[1]
    \/ c[1] = d[1] /\ GroupOf[c[2]] < GroupOf[d[2]]
    \/ CidOf(c) = CidOf(d) /\ c[2] < d[2]

FirstOf(c, S) == c \in S /\ \A d \in S : ~Before(d, c)

FirstPaper(p) == p \in papersLeft /\ \A x \in papersLeft : p <= x

Mishap(b) ==
    /\ b => setbacks < MaxSetbacks /\ inv <= Troubled
    /\ setbacks' = IF b THEN setbacks + 1 ELSE setbacks

\* The process is gone; only the store, the dump and SEER remain.
EndProcess ==
    /\ pc' = "idle"
    /\ papersLeft' = {} /\ todo' = {} /\ pending' = {}
    /\ p1' = NoTexts /\ p2' = NoTexts /\ outbox' = EmptyOutbox

Init ==
    /\ rows = [c \in Cells |-> NoRow]
    /\ kv1 = {} /\ kv2 = NoTexts /\ dump = NoTexts /\ ocr = {}
    /\ sent = [c \in Cells |-> NoPayload]
    /\ batched \in SUBSET {"p1", "p2"}
    /\ pc = "idle" /\ mode = "pass1" /\ papersLeft = {}
    /\ todo = {} /\ pending = {} /\ p1 = NoTexts /\ p2 = NoTexts
    /\ outbox = EmptyOutbox
    /\ inv = 0 /\ setbacks = 0 /\ crashes = 0

StartCommand(command) ==
    /\ pc = "idle"
    /\ inv < Len(Script) /\ command \in Script[inv + 1]
    /\ inv' = inv + 1
    /\ mode' = command
    /\ papersLeft' = Papers
    /\ pc' = IF command = "pass1" THEN "texts" ELSE "paper"
    /\ UNCHANGED <<durable, sent, batched, locals, setbacks, crashes>>

---------------------------------------------------------------------------
(* `pass1`.                                                                *)

\* Papers without a text are passed over.  Pending are the groups of the others
\* with a cell that is not done or posted: those that are pass1_done too.
ResolveTexts ==
    /\ pc = "texts"
    /\ \E fetched \in SUBSET (Papers \ ocr) : ocr' = ocr \union fetched
    /\ Mishap(ocr' # Papers)
    /\ pending' = {cid \in Cids : /\ cid[1] \in ocr'
                                  /\ \E c \in CellsOf(cid) : ~ShouldSkip(rows[c])}
    /\ papersLeft' = {}
    /\ pc' = "pass1"
    /\ UNCHANGED <<rows, kv1, kv2, dump, sent, batched, mode, todo, p1, p2, outbox, inv, crashes>>

\* Variant: what has a text already is not taken out.
ToStoreAll(got) == {cid \in pending : got[cid] # 0}

\* Variant: a group is taken out as soon as one of its rows is waiting.
ToStoreUntouched(got) ==
    {cid \in pending : /\ got[cid] # 0
                       /\ \A c \in CellsOf(cid) : rows[c].status # "pass1_done"}

\* "Remove cells that are already pass1_done": after the calls, before saving.
ToStore(got) ==
    {cid \in pending : /\ got[cid] # 0
                       /\ \E c \in CellsOf(cid) : rows[c].status # "pass1_done"}

EndPass1(got) ==
    /\ p1' = got
    /\ todo' = CellsIn(ToStore(got))
    /\ pc' = "store"

\* Any of the calls may fail; the first one that does stops the others.
Pass1Online ==
    /\ pc = "pass1" /\ "p1" \notin batched
    /\ \E ok \in SUBSET pending :
          /\ Mishap(ok # pending)
          /\ EndPass1([cid \in Cids |-> IF cid \in ok THEN inv ELSE 0])
    /\ UNCHANGED <<durable, sent, batched, mode, papersLeft, pending, p2, outbox, inv, crashes>>

\* A dump is all there is, and with nothing pending there is nothing.
Pass1NoCall ==
    /\ pc = "pass1" /\ "p1" \in batched
    /\ dump # NoTexts \/ pending = {}
    /\ EndPass1(dump)
    /\ UNCHANGED <<durable, sent, batched, mode, papersLeft, pending, p2, outbox, bounds>>

\* Submitted, or the one whose id was saved is taken up again.
Pass1Batch ==
    /\ pc = "pass1" /\ "p1" \in batched
    /\ dump = NoTexts /\ pending # {}
    /\ kv1' = IF kv1 = {} THEN pending ELSE kv1
    /\ pc' = "p1poll"
    /\ UNCHANGED <<rows, kv2, dump, ocr, sent, batched, mode, papersLeft, locals, bounds>>

CollectP1 ==
    /\ pc = "p1poll"
    /\ \E ok \in SUBSET kv1 :
          /\ Mishap(ok # kv1)
          /\ dump' = [cid \in Cids |-> IF cid \in ok THEN inv ELSE 0]
    /\ EndPass1(dump')
    /\ kv1' = {}
    /\ UNCHANGED <<rows, kv2, ocr, sent, batched, mode, papersLeft, pending, p2, outbox, inv,
                   crashes>>

\* Variant: an UPDATE that keeps posted_at.
StoreTextKeepingPosted(c, payload) ==
    rows' = [rows EXCEPT ![c] = [SavePass1(payload) EXCEPT !.posted = rows[c].posted]]

\* Variant: a status that no query asks for.
StoreTextUnknown(c, payload) ==
    rows' = [rows EXCEPT ![c] = [SavePass1(payload) EXCEPT !.status = "pass1"]]

StoreText(c, payload) == rows' = [rows EXCEPT ![c] = SavePass1(payload)]

\* A row with no value yet for each question of the group; the text stands in
\* the first one only.
SaveText(c) ==
    LET isFirst == FirstOf(c, CellsOf(CidOf(c)))
    IN  /\ pc = "store"
        /\ FirstOf(c, todo)
        /\ StoreText(c, [kind |-> "answer", inv |-> inv,
                         p1 |-> IF isFirst THEN p1[CidOf(c)] ELSE 0, fmt |-> 0])
        /\ todo' = todo \ {c}
        /\ UNCHANGED <<kv1, kv2, dump, ocr, sent, batched, pc, mode, papersLeft, pending, p1, p2,
                       outbox, bounds>>

FinishPass1 ==
    /\ pc = "store" /\ todo = {}
    /\ EndProcess
    /\ UNCHANGED <<durable, sent, batched, mode, bounds>>

---------------------------------------------------------------------------
(* `pass2`, paper by paper.                                                *)

InPass2 == mode \in {"pass2", "pass2nopost"}

Waiting(cid) == {c \in CellsOf(cid) : rows[c].status = "pass1_done"}

\* Variant: the rows are not sorted by question.
GroupTextUnsorted(cid) ==
    IF Waiting(cid) = {}
    THEN 0
    ELSE rows[CHOOSE c \in Waiting(cid) : \A d \in Waiting(cid) : ~Before(c, d)].payload.p1

\* _pass1_cells_from_store: the text is that of the group's first waiting row.
GroupText(cid) ==
    IF Waiting(cid) = {}
    THEN 0
    ELSE rows[CHOOSE c \in Waiting(cid) : FirstOf(c, Waiting(cid))].payload.p1

\* A group without a text is dropped; a paper without groups is passed over,
\* its answers not posted.
ReadTexts(p) ==
    LET found == {cid \in Cids : cid[1] = p /\ GroupText(cid) # 0}
    IN  /\ pc = "paper" /\ InPass2
        /\ FirstPaper(p)
        /\ IF found = {}
           THEN /\ papersLeft' = papersLeft \ {p}
                /\ UNCHANGED <<pc, pending, p1>>
           ELSE /\ pending' = found
                /\ p1' = [cid \in Cids |-> IF cid \in found THEN GroupText(cid) ELSE 0]
                /\ pc' = "pass2"
                /\ UNCHANGED papersLeft
        /\ UNCHANGED <<durable, sent, batched, mode, todo, p2, outbox, bounds>>

EndPass2(got) ==
    /\ p2' = got
    /\ pc' = "tail"

\* The first call alone; if it fails the others are not made.
Pass2Online ==
    /\ pc = "pass2" /\ "p2" \notin batched
    /\ \E ok \in SUBSET pending :
          /\ ok = {} \/ \E c \in CellsIn(ok) : FirstOf(c, CellsIn(pending))
          /\ Mishap(ok # pending)
          /\ EndPass2([cid \in Cids |-> IF cid \in ok THEN p1[cid] ELSE 0])
    /\ UNCHANGED <<durable, sent, batched, mode, papersLeft, todo, pending, p1, outbox, inv, crashes>>

\* Every paper asks under the same key: a batch that is saved there is polled,
\* whatever it was submitted for.
Pass2Batch ==
    /\ pc = "pass2" /\ "p2" \in batched
    /\ kv2' = IF kv2 = NoTexts THEN p1 ELSE kv2
    /\ pc' = "p2poll"
    /\ UNCHANGED <<rows, kv1, dump, ocr, sent, batched, mode, papersLeft, locals, bounds>>

CollectP2 ==
    LET requests == {cid \in Cids : kv2[cid] # 0}
    IN  /\ pc = "p2poll"
        /\ \E ok \in SUBSET requests :
              /\ Mishap(ok # requests)
              /\ EndPass2([cid \in Cids |-> IF cid \in ok THEN kv2[cid] ELSE 0])
        /\ kv2' = NoTexts
        /\ UNCHANGED <<rows, kv1, dump, ocr, sent, batched, mode, papersLeft, todo, pending, p1,
                       outbox, inv, crashes>>

\* The reply to the next group, in the provider's order; a reply for a group
\* that is not pending is not looked at.
TakeReply(cid) ==
    /\ pc = "tail" /\ todo = {}
    /\ cid \in pending /\ p2[cid] # 0
    /\ pending' = pending \ {cid}
    /\ todo' = Waiting(cid)
    /\ UNCHANGED <<durable, sent, batched, pc, mode, papersLeft, p1, p2, outbox, bounds>>

\* An answer of any status, or an extraction error: final either way.
SaveReply(c) ==
    /\ pc = "tail"
    /\ FirstOf(c, todo)
    /\ \E kind \in {"answer", "parse_error"} :
          rows' = [rows EXCEPT ![c] = SaveAnswer([kind |-> kind, inv |-> inv,
                                                  p1 |-> p1[CidOf(c)], fmt |-> p2[CidOf(c)]])]
    /\ todo' = todo \ {c}
    /\ UNCHANGED <<kv1, kv2, dump, ocr, sent, batched, pc, mode, papersLeft, pending, p1, p2,
                   outbox, bounds>>

---------------------------------------------------------------------------
(* Posting: at the end of each paper of `pass2`, and `repost`.             *)

NextPaper(p) ==
    /\ papersLeft' = papersLeft \ {p}
    /\ pc' = "paper"
    /\ todo' = {} /\ pending' = {}
    /\ p1' = NoTexts /\ p2' = NoTexts /\ outbox' = EmptyOutbox

Read(p, picked) ==
    IF picked = {}
    THEN NextPaper(p)
    ELSE /\ outbox' = [c \in Cells |-> IF c \in picked THEN rows[c].payload ELSE NoPayload]
         /\ pc' = "send"
         /\ UNCHANGED <<papersLeft, todo, pending, p1, p2>>

ReadUnposted(p) ==
    /\ pc = "tail" /\ todo = {}
    /\ \A cid \in pending : p2[cid] = 0
    /\ FirstPaper(p)
    /\ Read(p, {c \in Cells : c[1] = p /\ mode = "pass2" /\ Unposted(rows[c])})
    /\ UNCHANGED <<durable, sent, batched, mode, bounds>>

ReadPostable(p) ==
    /\ pc = "paper" /\ mode = "repost"
    /\ FirstPaper(p)
    /\ Read(p, {c \in Cells : c[1] = p /\ Postable(rows[c])})
    /\ UNCHANGED <<durable, sent, batched, mode, bounds>>

InOutbox == {c \in Cells : outbox[c] # NoPayload}
Deliver  == sent' = [c \in Cells |-> IF c \in InOutbox THEN outbox[c] ELSE sent[c]]

Send ==
    /\ pc = "send"
    /\ Deliver
    /\ pc' = "ack"
    /\ UNCHANGED <<durable, batched, mode, papersLeft, locals, bounds>>

\* Every retry of the post failed; an attempt may still have reached SEER.
\* `pass2` goes on to the next paper, `repost` gives up.
SendFails(p) ==
    /\ pc = "send"
    /\ FirstPaper(p)
    /\ Mishap(TRUE)
    /\ Deliver \/ UNCHANGED sent
    /\ IF mode = "repost" THEN EndProcess ELSE NextPaper(p)
    /\ UNCHANGED <<durable, batched, mode, inv, crashes>>

Mark(p) ==
    /\ pc = "ack"
    /\ FirstPaper(p)
    /\ rows' = [c \in Cells |-> IF c \in InOutbox THEN MarkPosted(rows[c]) ELSE rows[c]]
    /\ NextPaper(p)
    /\ UNCHANGED <<kv1, kv2, dump, ocr, sent, batched, mode, bounds>>

FinishPapers ==
    /\ pc = "paper" /\ papersLeft = {}
    /\ EndProcess
    /\ UNCHANGED <<durable, sent, batched, mode, bounds>>

---------------------------------------------------------------------------
(* Ends nobody wants.                                                      *)

\* The batch is still running: BatchPendingError ends the command.
Park ==
    /\ pc \in {"p1poll", "p2poll"}
    /\ Mishap(TRUE)
    /\ EndProcess
    /\ UNCHANGED <<durable, sent, batched, mode, inv, crashes>>

\* The batch failed, expired or was cancelled: its id is deleted.
BatchFails ==
    /\ pc \in {"p1poll", "p2poll"}
    /\ Mishap(TRUE)
    /\ kv1' = IF pc = "p1poll" THEN {} ELSE kv1
    /\ kv2' = IF pc = "p2poll" THEN NoTexts ELSE kv2
    /\ EndProcess
    /\ UNCHANGED <<rows, dump, ocr, sent, batched, mode, inv, crashes>>

\* The process is killed, or an exception nobody contains ends it.
Crash ==
    /\ pc # "idle"
    /\ crashes < MaxCrashes /\ inv <= Troubled
    /\ crashes' = crashes + 1
    /\ EndProcess
    /\ UNCHANGED <<durable, sent, batched, mode, inv, setbacks>>

---------------------------------------------------------------------------

Pass1Step ==
    \/ ResolveTexts \/ Pass1Online \/ Pass1NoCall \/ Pass1Batch \/ CollectP1 \/ FinishPass1
    \/ \E c \in Cells : SaveText(c)

Pass2Step ==
    \/ Pass2Online \/ Pass2Batch \/ CollectP2
    \/ \E p \in Papers : ReadTexts(p)
    \/ \E cid \in Cids : TakeReply(cid)
    \/ \E c \in Cells : SaveReply(c)

PostStep ==
    \/ Send \/ FinishPapers
    \/ \E p \in Papers : ReadUnposted(p) \/ ReadPostable(p) \/ SendFails(p) \/ Mark(p)

ProgramStep == Pass1Step \/ Pass2Step \/ PostStep \/ Park \/ BatchFails

UserStep == \E command \in {"pass1", "pass2", "pass2nopost", "repost"} : StartCommand(command)

Next == ProgramStep \/ UserStep \/ Crash

Spec == Init /\ [][Next]_vars

\* The event loop runs the command to its end, and the user gives the next one.
FairSpec == Spec /\ WF_vars(ProgramStep) /\ WF_vars(UserStep)

---------------------------------------------------------------------------
(* Correctness.                                                            *)

\* Type correctness: the store, SEER and the command keep their types.
TypeOK ==
    /\ rows \in [Cells -> Row]
    /\ kv1 \subseteq Cids
    /\ {kv2, dump, p1, p2} \subseteq [Cids -> Nat]
    /\ ocr \subseteq Papers
    /\ {sent, outbox} \subseteq [Cells -> Payload \union {NoPayload}]
    /\ batched \subseteq {"p1", "p2"}
    /\ pc \in {"idle", "texts", "pass1", "p1poll", "store", "paper", "pass2", "p2poll", "tail",
               "send", "ack"}
    /\ mode \in {"pass1", "pass2", "pass2nopost", "repost"}
    /\ papersLeft \subseteq Papers
    /\ todo \subseteq Cells
    /\ pending \subseteq Cids
    /\ {inv, setbacks, crashes} \subseteq Nat

\* The delivery promise.  A text that is stored puts its cells in debt too:
\* what SEER has of them is no longer what the store holds.
Delivery == INSTANCE AnswerDelivery WITH
    Answers  <- Payload,
    NoAnswer <- NoPayload,
    current  <- [c \in Cells |-> rows[c].payload],
    received <- sent,
    owed     <- {c \in Cells : rows[c].payload # NoPayload /\ ~rows[c].posted}

\* The commands keep the promise `run` keeps: no debt is written off before
\* SEER has the answer, through any sequence of pass1, pass2 and repost.
ImplementsDelivery == Delivery!Spec

\* Unless the process died half-way through a group, an answer carries the text
\* its reply was asked to format, however often pass1 is repeated meanwhile.
FormattedFromItsText ==
    crashes = 0 =>
        \A c \in Cells : rows[c].payload.fmt # 0 => rows[c].payload.fmt = rows[c].payload.p1

\* Unless the process died half-way through a group, one that waits for pass2 has
\* the text pass2 looks for.
AwaitingHasText ==
    (pc = "idle" /\ crashes = 0) =>
        \A cid \in Cids : Waiting(cid) # {} => GroupText(cid) # 0

\* Repeating the commands answers every question and sends the answer in the end,
\* those included whose group was cut in two by a crash or whose post failed,
\* unless a dump of earlier texts leaves the group out.
EventuallyPosted ==
    \A c \in Cells :
        <>[](\/ rows[c].status = "posted"
             \/ dump # NoTexts /\ dump[CidOf(c)] = 0)

\* What the provider was paid to format is used: the replies collected are to
\* groups that are being formatted.
RepliesAreAskedFor ==
    [][(pc = "p2poll" /\ pc' = "tail") => \A cid \in Cids : p2'[cid] # 0 => cid \in pending]_vars
=============================================================================
