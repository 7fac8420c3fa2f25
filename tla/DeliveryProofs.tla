------------------------- MODULE DeliveryProofs -------------------------
(***************************************************************************)
(* What reaches SEER, and what a run reports.                              *)
(*                                                                         *)
(* Delivery: posted_at and the outbox are only as good as what they were   *)
(* read from: the invariant says so at every point between reading the     *)
(* payloads, sending them and marking them.  What a repost and a clean run *)
(* leave behind follows from the papers that posting has still to visit.   *)
(*                                                                         *)
(* Reports: until a process is killed, an answer that reports a provider's *)
(* failure is marked 'failed' before anything else happens; a run that     *)
(* says it succeeded has answered its cells and met no error it should     *)
(* have raised; its counters are the table's.                              *)
(***************************************************************************)
EXTENDS RunPipelineProofs

\* Nothing is rewritten between reading a paper's payloads and marking them.
OutboxCurrent ==
    pc \in {"send", "ack"} => \A c \in InOutbox : outbox[c] = rows[c].payload

\* Between the answer of SEER and mark_posted, SEER holds what was sent.
AckMeansSent ==
    pc = "ack" => \A c \in InOutbox : sent[c] = outbox[c]

\* reformat is left out: it rewrites payloads and keeps posted_at.
DeliveryInv ==
    /\ TypeOK
    /\ RowsSound
    /\ PostedMeansSent
    /\ OutboxCurrent
    /\ AckMeansSent
    /\ pc \notin {"reformat", "rewrite"}

\* A step that leaves the rows and SEER alone, away from posting.
LEMMA QuietStep ==
    ASSUME DeliveryInv, TypeOK', rows' = rows, sent' = sent,
           pc' \notin {"send", "ack", "reformat", "rewrite"}
    PROVE  DeliveryInv' /\ UNCHANGED Delivery!vars
<1>1. DeliveryInv'
  BY DEF DeliveryInv, RowsSound, PostedMeansSent, OutboxCurrent, AckMeansSent
<1>2. UNCHANGED Delivery!vars
  BY DEF Delivery!vars, Unposted
<1>3. QED
  BY <1>1, <1>2

\* A step that stores a new answer for one cell.
LEMMA BuildStep ==
    ASSUME DeliveryInv, TypeOK', NEW c \in Cells, NEW payload \in Payload,
           Save(c, payload), sent' = sent, pc' = pc, pc \notin {"send", "ack"}
    PROVE  DeliveryInv' /\ Delivery!Build(c)
<1>1. /\ rows \in [Cells -> Row]
      /\ rows' = [rows EXCEPT ![c] = [status |-> "done", payload |-> payload, posted |-> FALSE]]
  BY DEF Save, SaveAnswer, DeliveryInv, TypeOK, StoreOK
<1>2. payload # NoPayload
  BY NoPayloadIsNone
<1>3. RowsSound' /\ PostedMeansSent'
  BY <1>1, <1>2 DEF DeliveryInv, RowsSound, PostedMeansSent
<1>4. DeliveryInv'
  BY <1>3 DEF DeliveryInv, OutboxCurrent, AckMeansSent
<1>5. [d \in Cells |-> rows'[d].payload]
         = [[d \in Cells |-> rows[d].payload] EXCEPT ![c] = payload]
  BY <1>1
<1>6. {d \in Cells : Unposted(rows'[d])} = {d \in Cells : Unposted(rows[d])} \union {c}
  BY <1>1, <1>2 DEF Unposted
<1>7. Delivery!Build(c)
  BY <1>5, <1>6 DEF Delivery!Build
<1>8. QED
  BY <1>4, <1>7

\* What each step does to the invariant and to the promise.
DeliveryStep == DeliveryInv' /\ [Delivery!Next]_Delivery!vars

LEMMA CrashDelivers == ASSUME DeliveryInv, Crash PROVE DeliveryStep
BY CrashType, QuietStep
DEF Crash, EndProcess, durable, seer, control, DeliveryInv, DeliveryStep

LEMMA ReplyRefusedDelivers ==
    ASSUME DeliveryInv, NEW c \in Cells, ReplyRefused(c)
    PROVE  DeliveryStep
BY ReplyRefusedType, QuietStep
DEF ReplyRefused, durable, seer, control, DeliveryInv, DeliveryStep

LEMMA PrintPaperDelivers ==
    ASSUME DeliveryInv, NEW p \in Papers, PrintPaper(p)
    PROVE  DeliveryStep
BY PrintPaperType, QuietStep
DEF PrintPaper, durable, seer, control, DeliveryInv, DeliveryStep

LEMMA StartRepostDelivers ==
    ASSUME DeliveryInv, NEW papers \in Scopes, StartRepost(papers)
    PROVE  DeliveryStep
BY StartRepostType, QuietStep
DEF StartRepost, durable, seer, DeliveryInv, DeliveryStep

LEMMA SaveNoOcrDelivers ==
    ASSUME DeliveryInv, NEW c \in Cells, SaveNoOcr(c)
    PROVE  DeliveryStep
<1> DEFINE payload == NewPayload("no_ocr", 0, 0)
<1>1. payload \in Payload
  BY NewPayloadIsPayload, CidOfType
  DEF DeliveryInv, TypeOK, StoreOK, ControlOK, LocalsOK, GhostsOK, Locations,
      Endings, Kinds, ProviderErrors, FinalErrors
<1>2. Save(c, payload) /\ sent' = sent /\ pc' = pc /\ pc \notin {"send", "ack"}
  BY DEF SaveNoOcr, seer
<1>3. TypeOK'
  BY SaveNoOcrType DEF DeliveryInv
<1>4. QED
  BY <1>1, <1>2, <1>3, BuildStep DEF DeliveryStep, Delivery!Next

LEMMA DropP2Delivers ==
    ASSUME DeliveryInv, NEW c \in Cells, DropP2(c)
    PROVE  DeliveryStep
<1> DEFINE payload == NewPayload("p2_error", p1[CidOf(c)], 0)
<1>1. payload \in Payload
  BY NewPayloadIsPayload, CidOfType
  DEF DeliveryInv, TypeOK, StoreOK, ControlOK, LocalsOK, GhostsOK, Locations,
      Endings, Kinds, ProviderErrors, FinalErrors
<1>2. Save(c, payload) /\ sent' = sent /\ pc' = pc /\ pc \notin {"send", "ack"}
  BY DEF DropP2, seer
<1>3. TypeOK'
  BY DropP2Type DEF DeliveryInv
<1>4. QED
  BY <1>1, <1>2, <1>3, BuildStep DEF DeliveryStep, Delivery!Next

LEMMA DropP1Delivers ==
    ASSUME DeliveryInv, NEW c \in Cells, DropP1(c)
    PROVE  DeliveryStep
<1> DEFINE payload == NewPayload(IF CidOf(c) \in p1err THEN "p1_error" ELSE "p1_lost", 0, 0)
<1>1. payload \in Payload
  BY NewPayloadIsPayload, CidOfType
  DEF DeliveryInv, TypeOK, StoreOK, ControlOK, LocalsOK, GhostsOK, Locations,
      Endings, Kinds, ProviderErrors, FinalErrors
<1>2. Save(c, payload) /\ sent' = sent /\ pc' = pc /\ pc \notin {"send", "ack"}
  BY DEF DropP1, seer
<1>3. TypeOK'
  BY DropP1Type DEF DeliveryInv
<1>4. QED
  BY <1>1, <1>2, <1>3, BuildStep DEF DeliveryStep, Delivery!Next

LEMMA SaveReplyDelivers ==
    ASSUME DeliveryInv, NEW c \in Cells, SaveReply(c)
    PROVE  DeliveryStep
<1>1. PICK kind \in Kinds : Save(c, NewPayload(kind, p1[CidOf(c)], p2[CidOf(c)]))
  BY DEF SaveReply, Kinds, FinalErrors
<1>2. NewPayload(kind, p1[CidOf(c)], p2[CidOf(c)]) \in Payload
  BY NewPayloadIsPayload, CidOfType
  DEF DeliveryInv, TypeOK, StoreOK, ControlOK, LocalsOK, GhostsOK, Locations,
      Endings
<1>3. sent' = sent /\ pc' = pc /\ pc \notin {"send", "ack"}
  BY DEF SaveReply, seer
<1>4. TypeOK'
  BY SaveReplyType DEF DeliveryInv
<1>5. QED
  BY <1>1, <1>2, <1>3, <1>4, BuildStep DEF DeliveryStep, Delivery!Next

\* Marking a cell 'failed' changes neither its answer nor its debt.
LEMMA MarkDroppedDelivers ==
    ASSUME DeliveryInv, NEW c \in Cells, MarkDropped(c)
    PROVE  DeliveryStep
<1>1. TypeOK' /\ rows \in [Cells -> Row]
  BY MarkDroppedType DEF DeliveryInv, TypeOK, StoreOK
<1>2. rows' = [rows EXCEPT ![c] = MarkFailed(rows[c])] /\ sent' = sent /\ pc' = pc /\ outbox' = outbox
  BY DEF MarkDropped, seer
<1>3. \A d \in Cells : /\ rows'[d].payload = rows[d].payload
                       /\ rows'[d].posted = rows[d].posted
                       /\ rows'[d].status = "absent" <=> rows[d].status = "absent"
                       /\ rows'[d].status \in {rows[d].status, "failed"}
  BY <1>1, <1>2 DEF MarkFailed, Row
<1>4. RowsSound'
  BY <1>3 DEF DeliveryInv, RowsSound
<1>5. PostedMeansSent' /\ OutboxCurrent' /\ AckMeansSent'
  BY <1>2, <1>3
  DEF DeliveryInv, PostedMeansSent, OutboxCurrent, AckMeansSent, InOutbox
<1>6. {d \in Cells : Unposted(rows'[d])} = {d \in Cells : Unposted(rows[d])}
  <2>1. \A d \in Cells : Unposted(rows'[d]) <=> Unposted(rows[d])
    BY <1>1, <1>3 DEF Unposted, DeliveryInv, RowsSound, Row, Statuses
  <2>2. QED
    BY <2>1
<1>7. [d \in Cells |-> rows'[d].payload] = [d \in Cells |-> rows[d].payload]
  BY <1>3
<1>8. UNCHANGED Delivery!vars
  BY <1>2, <1>6, <1>7 DEF Delivery!vars
<1>9. QED
  BY <1>1, <1>2, <1>4, <1>5, <1>8 DEF DeliveryInv, DeliveryStep

LEMMA ReadPaperDelivers ==
    ASSUME DeliveryInv, NEW p \in Papers, ReadPaper(p)
    PROVE  DeliveryStep
<1>1. TypeOK' /\ rows' = rows /\ sent' = sent /\ pc' \in {"post", "send"}
  BY ReadPaperType DEF ReadPaper, durable, seer, DeliveryInv
<1>2. \A c \in Cells : outbox'[c] \in {rows[c].payload, NoPayload}
  BY DEF ReadPaper
<1>3. OutboxCurrent' /\ AckMeansSent'
  BY <1>1, <1>2 DEF OutboxCurrent, AckMeansSent, InOutbox
<1>4. UNCHANGED Delivery!vars
  BY <1>1 DEF Delivery!vars, Unposted
<1>5. QED
  BY <1>1, <1>3, <1>4 DEF DeliveryInv, RowsSound, PostedMeansSent, DeliveryStep

\* A payload that reaches SEER is the row's current answer.
LEMMA DeliverReceives ==
    ASSUME DeliveryInv, rows' = rows, Deliver, pc = "send"
    PROVE  /\ PostedMeansSent'
           /\ \A c \in InOutbox : sent'[c] = outbox[c]
           /\ Delivery!Receive(InOutbox)
<1>1. \A c \in Cells : c \in InOutbox => outbox[c] = rows[c].payload /\ outbox[c] # NoPayload
  BY DEF DeliveryInv, OutboxCurrent, InOutbox
<1>2. sent' = [c \in Cells |-> IF c \in InOutbox THEN rows[c].payload ELSE sent[c]]
  BY <1>1 DEF Deliver
<1>3. PostedMeansSent'
  BY <1>2 DEF DeliveryInv, PostedMeansSent
<1>4. InOutbox \subseteq Cells
  BY DEF InOutbox
<1>5. \A c \in InOutbox : sent'[c] = outbox[c]
  BY <1>1, <1>2, <1>4
<1>6. Delivery!Receive(InOutbox)
  BY <1>1, <1>2, <1>4 DEF Delivery!Receive, Unposted
<1>7. QED
  BY <1>3, <1>5, <1>6

LEMMA SendPaperDelivers ==
    ASSUME DeliveryInv, SendPaper
    PROVE  DeliveryStep
<1>1. TypeOK' /\ rows' = rows /\ outbox' = outbox /\ pc = "send" /\ pc' = "ack" /\ Deliver
  BY SendPaperType DEF SendPaper, durable, DeliveryInv
<1>2. PostedMeansSent' /\ (\A c \in InOutbox : sent'[c] = outbox[c]) /\ Delivery!Receive(InOutbox)
  BY <1>1, DeliverReceives
<1>3. OutboxCurrent' /\ AckMeansSent'
  BY <1>1, <1>2 DEF DeliveryInv, OutboxCurrent, AckMeansSent, InOutbox
<1>4. InOutbox \in SUBSET Cells
  BY DEF InOutbox
<1>5. QED
  BY <1>1, <1>2, <1>3, <1>4 DEF DeliveryInv, RowsSound, DeliveryStep, Delivery!Next

LEMMA SendFailsDelivers ==
    ASSUME DeliveryInv, NEW p \in Papers, SendFails(p)
    PROVE  DeliveryStep
<1>1. TypeOK' /\ rows' = rows /\ pc = "send" /\ pc' \in {"idle", "post"}
  BY SendFailsType DEF SendFails, EndProcess, durable, DeliveryInv
<1>2. CASE sent' = sent
  BY <1>1, <1>2, QuietStep DEF DeliveryStep
<1>3. CASE Deliver
  <2>1. PostedMeansSent' /\ Delivery!Receive(InOutbox)
    BY <1>1, <1>3, DeliverReceives
  <2>2. InOutbox \in SUBSET Cells
    BY DEF InOutbox
  <2>3. OutboxCurrent' /\ AckMeansSent' /\ RowsSound'
    BY <1>1 DEF DeliveryInv, OutboxCurrent, AckMeansSent, RowsSound
  <2>4. QED
    BY <1>1, <2>1, <2>2, <2>3 DEF DeliveryInv, DeliveryStep, Delivery!Next
<1>4. QED
  BY <1>2, <1>3 DEF SendFails

\* What is marked is what was sent, and it is still the current answer.
LEMMA MarkPaperDelivers ==
    ASSUME DeliveryInv, NEW p \in Papers, MarkPaper(p)
    PROVE  DeliveryStep
<1>1. TypeOK' /\ rows \in [Cells -> Row] /\ InOutbox \in SUBSET Cells
  BY MarkPaperType DEF DeliveryInv, TypeOK, StoreOK, InOutbox
<1>2. /\ rows' = [c \in Cells |-> IF c \in InOutbox THEN MarkPosted(rows[c]) ELSE rows[c]]
      /\ sent' = sent /\ pc = "ack" /\ pc' = "post"
  BY DEF MarkPaper, seer
<1>3. \A c \in InOutbox : /\ rows[c].payload # NoPayload
                          /\ sent[c] = rows[c].payload
                          /\ rows[c].status # "absent"
  BY <1>1, <1>2 DEF DeliveryInv, OutboxCurrent, AckMeansSent, RowsSound, InOutbox
<1>4. \A c \in Cells : /\ rows'[c].payload = rows[c].payload
                       /\ c \in InOutbox => rows'[c].posted /\ rows'[c].status # "absent"
                       /\ c \notin InOutbox => rows'[c] = rows[c]
                       /\ rows'[c].status \in {rows[c].status, "posted"}
  BY <1>1, <1>2, <1>3 DEF MarkPosted, Row
<1>5. RowsSound'
  BY <1>3, <1>4 DEF DeliveryInv, RowsSound
<1>6. PostedMeansSent'
  BY <1>2, <1>3, <1>4 DEF DeliveryInv, PostedMeansSent
<1>7. OutboxCurrent' /\ AckMeansSent'
  BY <1>2 DEF OutboxCurrent, AckMeansSent
<1>8. {c \in Cells : Unposted(rows'[c])} = {c \in Cells : Unposted(rows[c])} \ InOutbox
  <2>1. \A c \in Cells : Unposted(rows'[c]) <=> Unposted(rows[c]) /\ c \notin InOutbox
    BY <1>4 DEF Unposted
  <2>2. QED
    BY <2>1
<1>9. [c \in Cells |-> rows'[c].payload] = [c \in Cells |-> rows[c].payload]
  BY <1>4
<1>10. Delivery!Settle(InOutbox)
  BY <1>1, <1>2, <1>3, <1>8, <1>9 DEF Delivery!Settle
<1>11. QED
  BY <1>1, <1>2, <1>5, <1>6, <1>7, <1>10
  DEF DeliveryInv, DeliveryStep, Delivery!Next

LEMMA StartRunDelivers ==
    ASSUME DeliveryInv, NEW papers \in Scopes, NEW command \in Commands, StartRun(command, papers)
    PROVE  DeliveryStep
<1>1. TypeOK' /\ sent' = sent /\ pc' = "boundary"
  BY StartRunType DEF StartRun, seer, DeliveryInv
<1>2. CASE command # "reset"
  <2>1. rows' = rows
    BY <1>2 DEF StartRun
  <2>2. QED
    BY <1>1, <2>1, QuietStep DEF DeliveryStep
<1>3. CASE command = "reset"
  <2>1. rows' = [c \in Cells |-> NoRow]
    BY <1>3 DEF StartRun
  <2>2. RowsSound' /\ PostedMeansSent' /\ OutboxCurrent' /\ AckMeansSent'
    BY <1>1, <2>1 DEF RowsSound, PostedMeansSent, OutboxCurrent, AckMeansSent, NoRow
  <2>3. Delivery!Discard
    BY <1>1, <2>1 DEF Delivery!Discard, NoRow, Unposted
  <2>4. QED
    BY <1>1, <2>2, <2>3 DEF DeliveryInv, DeliveryStep, Delivery!Next
<1>4. QED
  BY <1>2, <1>3

LEMMA DeliveryInit == Init => DeliveryInv /\ Delivery!Init
<1> SUFFICES ASSUME Init PROVE DeliveryInv /\ Delivery!Init
  OBVIOUS
<1>1. rows = [c \in Cells |-> NoRow] /\ pc = "idle" /\ sent = [c \in Cells |-> NoPayload]
  BY DEF Init
<1>2. TypeOK
  BY InitType
<1>3. DeliveryInv
  BY <1>1, <1>2
  DEF DeliveryInv, RowsSound, PostedMeansSent, OutboxCurrent, AckMeansSent, NoRow
<1>4. Delivery!Init
  BY <1>1 DEF Delivery!Init, NoRow, Unposted
<1>5. QED
  BY <1>3, <1>4

LEMMA DeliveryNext ==
    ASSUME "reformat" \notin Commands, DeliveryInv, [Next]_vars
    PROVE  DeliveryStep
<1>1. CASE Quiet
  BY <1>1, TypeNext, QuietFrame, QuietStep DEF DeliveryInv, DeliveryStep
<1>2. CASE \E c \in Cells : SaveNoOcr(c)
  BY <1>2, SaveNoOcrDelivers
<1>3. CASE \E c \in Cells : DropP1(c)
  BY <1>3, DropP1Delivers
<1>4. CASE \E c \in Cells : MarkDropped(c)
  BY <1>4, MarkDroppedDelivers
<1>5. CASE \E c \in Cells : DropP2(c)
  BY <1>5, DropP2Delivers
<1>6. CASE \E c \in Cells : SaveReply(c)
  BY <1>6, SaveReplyDelivers
<1>7. CASE \E c \in Cells : ReplyRefused(c)
  BY <1>7, ReplyRefusedDelivers
<1>8. CASE \E p \in Papers : ReadPaper(p)
  BY <1>8, ReadPaperDelivers
<1>9. CASE \E p \in Papers : PrintPaper(p)
  BY <1>9, PrintPaperDelivers
<1>10. CASE SendPaper
  BY <1>10, SendPaperDelivers
<1>11. CASE \E p \in Papers : SendFails(p)
  BY <1>11, SendFailsDelivers
<1>12. CASE \E p \in Papers : MarkPaper(p)
  BY <1>12, MarkPaperDelivers
<1>13. CASE \E papers \in Scopes : StartRepost(papers)
  BY <1>13, StartRepostDelivers
<1>14. CASE Crash
  BY <1>14, CrashDelivers
<1>15. CASE \E papers \in Scopes, command \in Commands : StartRun(command, papers)
  BY <1>15, StartRunDelivers
<1>16. CASE UNCHANGED vars
  <2>1. TypeOK' /\ rows' = rows /\ sent' = sent /\ pc' = pc /\ outbox' = outbox
    BY <1>16
    DEF vars, durable, seer, control, passes, flags, counts, ghosts, bounds,
        DeliveryInv, TypeOK, StoreOK, ControlOK, LocalsOK, GhostsOK, Locations,
        Endings
  <2>2. UNCHANGED Delivery!vars
    BY <2>1 DEF Delivery!vars, Unposted
  <2>3. QED
    BY <2>1, <2>2
    DEF DeliveryInv, RowsSound, PostedMeansSent, OutboxCurrent, AckMeansSent,
        InOutbox, DeliveryStep
<1>17. CASE ReformatStep \/ (\E c \in Cells : RewriteRow(c)) \/ (\E papers \in Scopes : StartReformat(papers))
  BY <1>17
  DEF ReformatStep, ReformatFails, ReformatGroup, IsReformatting, FinishReformat,
      RewriteRow,
      StartReformat, DeliveryInv
<1>18. QED
  BY <1>1, <1>2, <1>3, <1>4, <1>5, <1>6, <1>7, <1>8, <1>9, <1>10, <1>11, <1>12,
     <1>13, <1>14, <1>15, <1>16, <1>17
  DEF Quiet, Next, ProgramStep, UserStep, WriteStep, PostStep

\* Where nobody reformats, posted_at is never set on a payload SEER was not
\* sent: not after a crash, a failed post, a recomputed cell or a reset.
THEOREM PostedIsSent ==
    ASSUME "reformat" \notin Commands
    PROVE  Spec => []PostedMeansSent
<1>1. DeliveryInv /\ [Next]_vars => DeliveryInv'
  BY DeliveryNext DEF DeliveryStep
<1>2. DeliveryInv => PostedMeansSent
  BY DEF DeliveryInv
<1>3. QED
  BY DeliveryInit, <1>1, <1>2, PTL DEF Spec

\* Where nobody reformats, the run with its passes, batches, chunks, retries
\* and crashes does to answers only what AnswerDelivery allows.
THEOREM DeliveryIsImplemented ==
    ASSUME "reformat" \notin Commands
    PROVE  Spec => ImplementsDelivery
<1>1. DeliveryInv /\ [Next]_vars => DeliveryInv' /\ [Delivery!Next]_Delivery!vars
  BY DeliveryNext DEF DeliveryStep
<1>2. QED
  BY DeliveryInit, <1>1, PTL DEF Spec, ImplementsDelivery, Delivery!Spec

---------------------------------------------------------------------------
(* `repost`.  It sends what is stored, delivered before or not, and so it  *)
(* needs nothing of posted_at: reformat may come before it.                *)

USE DEF durable, seer, control, passes, flags, counts, ghosts, bounds

\* The papers already visited are with SEER as they are stored; the outbox
\* holds every finished answer of the paper being sent, and nothing stale.
RepostInv ==
    /\ (mode = "repost" /\ pc \in PostPhases) =>
          \A c \in Cells : (c[1] \in scope \ papersLeft /\ Finished(rows[c])) =>
              sent[c] = rows[c].payload
    /\ (mode = "repost" /\ pc \in {"send", "ack"}) =>
          \A c \in Cells : /\ (FirstPaper(c[1]) /\ Finished(rows[c])) => outbox[c] = rows[c].payload
                           /\ c \in InOutbox => outbox[c] = rows[c].payload
    /\ (mode = "repost" /\ pc = "ack") => \A c \in InOutbox : sent[c] = outbox[c]
    /\ RepostSendsEverything

\* What is no part of a repost happens in another mode, and ends otherwise.
LEMMA OutsideRepost ==
    ASSUME PhaseInv,
           \/ Cancel \/ ResolveTexts \/ BeginPass1 \/ Park \/ BeginTail
           \/ Pass1Step \/ Pass2Step \/ WriteStep \/ ReformatStep \/ Crash
           \/ BeginPost \/ NextChunk \/ FinishRun
           \/ \E p \in Papers : PrintPaper(p) \/ SendFails(p)
           \/ \E papers \in Scopes : StartReformat(papers)
           \/ \E papers \in Scopes, command \in Commands : StartRun(command, papers)
    PROVE  (mode' # "repost" \/ pc' = "idle") /\ verdict' # "reposted"
<1>. USE DEF EndProcess, EndPass1, EndPass2
<1>1. /\ (mode = "repost") => pc \in {"idle", "post", "send", "ack"}
      /\ (verdict = "reposted") => pc = "idle" /\ toMark = {}
  BY DEF PhaseInv, PostPhases
<1>2. CASE \/ Cancel \/ ResolveTexts \/ BeginPass1 \/ Park \/ BeginTail
  BY <1>1, <1>2 DEF Cancel, ResolveTexts, BeginPass1, Park, BeginTail
<1>3. CASE Pass1Step
  BY <1>1, <1>3
  DEF Pass1Step, Pass1Online, Pass1Aborts, Pass1FromDump, Pass1Nothing, SubmitP1, SaveP1Id,
      ResumeP1, BatchP1Fails, CollectP1, DumpP1
<1>4. CASE Pass2Step
  BY <1>1, <1>4
  DEF Pass2Step, BeginPass2, Pass2Online, Pass2Nothing, SubmitP2, SaveP2Id, ResumeP2,
      BatchP2Fails, CollectP2
<1>5. CASE WriteStep
  <2>1. toMark # {} => pc \in {"p1drop", "p2drop"}
    BY DEF PhaseInv
  <2>. QED
    BY <1>1, <1>5, <2>1
    DEF WriteStep, SaveNoOcr, DropP1, DropP2, MarkDropped, SaveReply, ReplyRefused, RewriteRow
<1>6. CASE ReformatStep \/ Crash
  BY <1>1, <1>6 DEF ReformatStep, ReformatFails, ReformatGroup, IsReformatting, FinishReformat,
                    Crash
<1>7. CASE BeginPost \/ NextChunk \/ FinishRun \/ \E p \in Papers : PrintPaper(p) \/ SendFails(p)
  BY <1>1, <1>7 DEF BeginPost, NextChunk, FinishRun, PrintPaper, SendFails
<1>8. CASE \/ \E papers \in Scopes : StartReformat(papers)
           \/ \E papers \in Scopes, command \in Commands : StartRun(command, papers)
  BY <1>8 DEF StartReformat, StartRun
<1>. QED
  BY <1>2, <1>3, <1>4, <1>5, <1>6, <1>7, <1>8

\* get_postable finds every finished answer.
LEMMA FinishedIsPostable ==
    ASSUME TypeOK, RowsSound, NEW c \in Cells, Finished(rows[c])
    PROVE  Postable(rows[c])
BY DEF Finished, Postable, RowsSound, TypeOK, StoreOK, Row, Statuses

LEMMA RepostReads ==
    ASSUME PhaseInv, RowsSound, RepostInv, NEW p \in Papers, ReadPaper(p), mode = "repost"
    PROVE  RepostInv'
<1>. DEFINE picked == {c \in Cells : c[1] = p /\ Postable(rows[c])}
<1>1. /\ pc = "post" /\ FirstPaper(p)
      /\ outbox' = [c \in Cells |-> IF c \in picked THEN rows[c].payload ELSE NoPayload]
      /\ UNCHANGED <<rows, sent, mode, scope, verdict>>
      /\ \/ picked = {} /\ papersLeft' = papersLeft \ {p} /\ pc' = "post"
         \/ papersLeft' = papersLeft /\ pc' = "send"
  BY DEF ReadPaper
<1>2. \A c \in Cells : (c[1] = p /\ Finished(rows[c])) => c \in picked
  BY FinishedIsPostable DEF PhaseInv
<1>3. verdict # "reposted"
  BY <1>1 DEF PhaseInv
<1>4. \A x \in papersLeft : FirstPaper(x) => x = p
  BY <1>1, SizesAreNat DEF FirstPaper, PhaseInv, TypeOK, ControlOK, Papers
<1>. HIDE DEF picked
<1>5. CASE papersLeft' = papersLeft /\ pc' = "send"
  <2>1. \A c \in Cells : FirstPaper(c[1])' => c[1] = p
    BY <1>4, <1>5 DEF FirstPaper
  <2>2. \A c \in Cells : /\ (FirstPaper(c[1])' /\ Finished(rows[c])) => outbox'[c] = rows[c].payload
                         /\ outbox'[c] # NoPayload => outbox'[c] = rows[c].payload
    BY <1>1, <1>2, <2>1
  <2>. QED
    BY <1>1, <1>3, <1>5, <2>2 DEF RepostInv, RepostSendsEverything, PostPhases, InOutbox
<1>6. CASE picked = {} /\ papersLeft' = papersLeft \ {p} /\ pc' = "post"
  BY <1>1, <1>2, <1>3, <1>6 DEF RepostInv, RepostSendsEverything, PostPhases
<1>. QED
  BY <1>1, <1>5, <1>6

LEMMA RepostSends ==
    ASSUME PhaseInv, RepostInv, SendPaper, mode = "repost"
    PROVE  RepostInv'
<1>1. /\ pc = "send" /\ pc' = "ack" /\ UNCHANGED <<rows, outbox, papersLeft, mode, scope, verdict>>
      /\ sent' = [c \in Cells |-> IF c \in InOutbox THEN outbox[c] ELSE sent[c]]
  BY DEF SendPaper, Deliver
<1>2. verdict # "reposted"
  BY <1>1 DEF PhaseInv
<1>3. \A c \in InOutbox : c \in Cells /\ sent'[c] = outbox[c]
  BY <1>1 DEF InOutbox
<1>4. \A c \in Cells : sent[c] = rows[c].payload => sent'[c] = rows[c].payload
  BY <1>1 DEF RepostInv
<1>5. InOutbox' = InOutbox /\ \A c \in Cells : FirstPaper(c[1])' <=> FirstPaper(c[1])
  BY <1>1 DEF InOutbox, FirstPaper
<1>. QED
  BY <1>1, <1>2, <1>3, <1>4, <1>5 DEF RepostInv, RepostSendsEverything, PostPhases

LEMMA RepostMarks ==
    ASSUME PhaseInv, RepostInv, NEW p \in Papers, MarkPaper(p), mode = "repost"
    PROVE  RepostInv'
<1>1. /\ pc = "ack" /\ pc' = "post" /\ FirstPaper(p) /\ papersLeft' = papersLeft \ {p}
      /\ UNCHANGED <<sent, mode, scope, verdict>>
  BY DEF MarkPaper
<1>2. verdict # "reposted" /\ TypeOK
  BY <1>1 DEF PhaseInv
<1>3. \A c \in Cells : /\ rows'[c].payload = rows[c].payload
                       /\ Finished(rows'[c]) => Finished(rows[c])
  BY <1>2, MarkPaperRow DEF Finished
<1>4. \A c \in Cells : (c[1] = p /\ Finished(rows[c])) => sent[c] = rows[c].payload
  BY <1>1 DEF RepostInv, InOutbox, Finished
<1>. QED
  BY <1>1, <1>2, <1>3, <1>4 DEF RepostInv, RepostSendsEverything, PostPhases

LEMMA RepostNext ==
    ASSUME PhaseInv, RowsSound, RepostInv, [Next]_vars
    PROVE  RepostInv'
<1>. DEFINE Elsewhere == (mode' # "repost" \/ pc' = "idle") /\ verdict' # "reposted"
<1>1. ASSUME Elsewhere PROVE RepostInv'
  BY <1>1 DEF RepostInv, RepostSendsEverything, PostPhases
<1>2. CASE \E papers \in Scopes : StartRepost(papers)
  BY <1>2 DEF StartRepost, RepostInv, RepostSendsEverything, PostPhases
<1>3. CASE FinishRepost
  <2>1. /\ pc = "post" /\ mode = "repost" /\ papersLeft = {}
        /\ pc' = "idle" /\ UNCHANGED <<rows, sent, scope>>
    BY <1>3 DEF FinishRepost, EndProcess
  <2>. QED
    BY <2>1 DEF RepostInv, RepostSendsEverything, PostPhases
<1>4. CASE \/ SendPaper \/ \E p \in Papers : ReadPaper(p) \/ MarkPaper(p)
  <2>1. CASE mode = "repost"
    BY <1>4, <2>1, RepostReads, RepostSends, RepostMarks
  <2>2. CASE mode # "repost"
    <3>1. pc \in PostPhases /\ mode' = mode /\ verdict' = verdict
      BY <1>4 DEF SendPaper, ReadPaper, MarkPaper, PostPhases
    <3>2. Elsewhere
      BY <2>2, <3>1 DEF PhaseInv, PostPhases
    <3>. QED
      BY <1>1, <3>2
  <2>. QED
    BY <2>1, <2>2
<1>5. CASE UNCHANGED vars
  <2>1. /\ UNCHANGED <<rows, sent, outbox, papersLeft, pc, mode, scope, verdict>>
    BY <1>5 DEF vars
  <2>2. InOutbox' = InOutbox /\ \A c \in Cells : FirstPaper(c[1])' <=> FirstPaper(c[1])
    BY <2>1 DEF InOutbox, FirstPaper
  <2>. QED
    BY <2>1, <2>2 DEF RepostInv, RepostSendsEverything
<1>. HIDE DEF Elsewhere
<1>6. CASE ~(\E papers \in Scopes : StartRepost(papers)) /\ ~FinishRepost /\ ~SendPaper
           /\ ~(\E p \in Papers : ReadPaper(p) \/ MarkPaper(p)) /\ ~UNCHANGED vars
  <2>1. Elsewhere
    BY <1>6, OutsideRepost DEF Elsewhere, Next, ProgramStep, UserStep, PostStep
  <2>. QED
    BY <1>1, <2>1
<1>. QED
  BY <1>2, <1>3, <1>4, <1>5, <1>6

\* After a repost that went through, SEER has every finished answer of its
\* papers as it is stored, whatever was reformatted, posted or lost before:
\* get_postable asks for no posted_at, and nothing is written meanwhile
\* (store.py:330-341, cli.py:298-342).
THEOREM RepostReachesSeer == Spec => []RepostSendsEverything
<1>1. Init => RepostInv
  BY DEF Init, RepostInv, RepostSendsEverything, PostPhases
<1>2. PhaseInv /\ RowsSound /\ RepostInv /\ [Next]_vars => RepostInv'
  BY RepostNext
<1>3. RepostInv => RepostSendsEverything
  BY DEF RepostInv
<1>. QED
  BY PhasesHold, RowsAreSound, <1>1, <1>2, <1>3, PTL DEF Spec

---------------------------------------------------------------------------
(* A run that succeeds.                                                    *)

\* The papers a run has posted or tried to: those of earlier chunks, and those
\* of this one that its posting loop has left.
Visited(p) ==
    /\ p \in scope
    /\ \/ ChunkOf(p) < chunk
       \/ ChunkOf(p) = chunk /\ pc \in PostPhases /\ p \notin papersLeft

\* Unless a post failed, what was visited is delivered; nothing the run writes
\* later belongs to it.
CleanInv ==
    /\ (mode = "run" /\ pc # "idle" /\ ~postFailed) =>
          \A c \in Cells : (Visited(c[1]) /\ Finished(rows[c])) => rows[c].posted
    /\ (mode = "run" /\ pc \in {"send", "ack"}) =>
          \A c \in Cells : (FirstPaper(c[1]) /\ Unposted(rows[c])) => c \in InOutbox
    /\ (verdict = "succeeded" /\ mode = "run" /\ ~postFailed) =>
          \A c \in Cells : (c[1] \in scope /\ Finished(rows[c])) => rows[c].posted

LEMMA CleanAway ==
    ASSUME mode' # "run" \/ (pc' = "idle" /\ verdict' # "succeeded")
    PROVE  CleanInv'
BY DEF CleanInv

LEMMA FinishedIsUnposted ==
    ASSUME TypeOK, RowsSound, NEW c \in Cells, Finished(rows[c]), ~rows[c].posted
    PROVE  Unposted(rows[c])
BY DEF Finished, Unposted, RowsSound, TypeOK, StoreOK, Row, Statuses

\* Within the passes only cells not yet visited are written.
LEMMA CleanPasses ==
    ASSUME PhaseInv, CleanInv, mode = "run", verdict' = "none",
           UNCHANGED <<mode, scope, chunk, postFailed>>,
           pc \in PassPhases \union {"boundary"}, pc' \in PassPhases,
           \A c \in Cells : c[1] \notin ChunkPaperSet => rows'[c] = rows[c]
    PROVE  CleanInv'
<1>1. \A c \in Cells : ChunkOf(c[1])' = ChunkOf(c[1])
  BY ChunkPapersKept DEF Cells
<1>2. \A c \in Cells : Visited(c[1])' => Visited(c[1]) /\ c[1] \notin ChunkPaperSet
  <2>1. chunk \in Nat /\ scope \subseteq Papers
    BY SizesAreNat DEF PhaseInv, TypeOK, ControlOK, Chunks
  <2>2. \A c \in Cells : ChunkOf(c[1]) \in Nat
    BY <2>1, ChunkOfPaper DEF Cells
  <2>. QED
    BY <1>1, <2>1, <2>2 DEF Visited, ChunkPaperSet, PassPhases, PostPhases
<1>. QED
  BY <1>1, <1>2 DEF CleanInv, PassPhases

LEMMA CleanReads ==
    ASSUME PhaseInv, RowsSound, CleanInv, NEW p \in Papers, ReadPaper(p), mode = "run"
    PROVE  CleanInv'
<1>. DEFINE picked == {c \in Cells : c[1] = p /\ Unposted(rows[c])}
<1>1. /\ pc = "post" /\ FirstPaper(p)
      /\ outbox' = [c \in Cells |-> IF c \in picked THEN rows[c].payload ELSE NoPayload]
      /\ UNCHANGED <<rows, mode, scope, chunk, verdict, postFailed>>
      /\ \/ picked = {} /\ papersLeft' = papersLeft \ {p} /\ pc' = "post"
         \/ papersLeft' = papersLeft /\ pc' = "send"
  BY DEF ReadPaper
<1>2. verdict # "succeeded" /\ TypeOK
  BY <1>1 DEF PhaseInv
<1>3. \A c \in Cells : ChunkOf(c[1])' = ChunkOf(c[1])
  BY <1>1, ChunkPapersKept DEF Cells
<1>4. \A x \in papersLeft : FirstPaper(x) => x = p
  BY <1>1, <1>2, SizesAreNat DEF FirstPaper, TypeOK, ControlOK, Papers
<1>5. \A c \in picked : rows[c].payload # NoPayload
  BY DEF Unposted
<1>6. \A c \in Cells : (c[1] = p /\ Finished(rows[c]) /\ ~rows[c].posted) => c \in picked
  BY <1>2, FinishedIsUnposted
<1>7. \A c \in Cells : (c[1] = p /\ Unposted(rows[c])) => c \in picked
  OBVIOUS
<1>. HIDE DEF picked
<1>8. CASE papersLeft' = papersLeft /\ pc' = "send"
  <2>1. \A c \in Cells : FirstPaper(c[1])' => c[1] = p
    BY <1>4, <1>8 DEF FirstPaper
  <2>2. \A c \in Cells : (FirstPaper(c[1])' /\ Unposted(rows[c])) => outbox'[c] # NoPayload
    BY <1>1, <1>5, <1>7, <2>1
  <2>3. \A c \in Cells : Visited(c[1])' => Visited(c[1])
    BY <1>1, <1>3, <1>8 DEF Visited, PostPhases
  <2>. QED
    BY <1>1, <1>2, <1>8, <2>2, <2>3 DEF CleanInv, InOutbox
<1>9. CASE picked = {} /\ papersLeft' = papersLeft \ {p} /\ pc' = "post"
  <2>1. \A c \in Cells : Visited(c[1])' => Visited(c[1]) \/ c[1] = p
    BY <1>1, <1>3, <1>9 DEF Visited, PostPhases
  <2>. QED
    BY <1>1, <1>2, <1>6, <1>9, <2>1 DEF CleanInv
<1>. QED
  BY <1>1, <1>8, <1>9

LEMMA CleanSends ==
    ASSUME PhaseInv, CleanInv, SendPaper, mode = "run"
    PROVE  CleanInv'
<1>1. /\ pc = "send" /\ pc' = "ack"
      /\ UNCHANGED <<rows, outbox, papersLeft, mode, scope, chunk, verdict, postFailed>>
  BY DEF SendPaper
<1>2. verdict # "succeeded"
  BY <1>1 DEF PhaseInv
<1>3. \A c \in Cells : ChunkOf(c[1])' = ChunkOf(c[1])
  BY <1>1, ChunkPapersKept DEF Cells
<1>4. \A c \in Cells : /\ Visited(c[1])' => Visited(c[1])
                       /\ FirstPaper(c[1])' <=> FirstPaper(c[1])
  BY <1>1, <1>3 DEF Visited, PostPhases, FirstPaper
<1>5. InOutbox' = InOutbox
  BY <1>1 DEF InOutbox
<1>. QED
  BY <1>1, <1>2, <1>4, <1>5 DEF CleanInv

LEMMA CleanMarks ==
    ASSUME PhaseInv, RowsSound, CleanInv, NEW p \in Papers, MarkPaper(p), mode = "run"
    PROVE  CleanInv'
<1>1. /\ pc = "ack" /\ pc' = "post" /\ FirstPaper(p) /\ papersLeft' = papersLeft \ {p}
      /\ UNCHANGED <<mode, scope, chunk, verdict, postFailed>>
  BY DEF MarkPaper
<1>2. verdict # "succeeded" /\ TypeOK
  BY <1>1 DEF PhaseInv
<1>3. \A c \in Cells : ChunkOf(c[1])' = ChunkOf(c[1])
  BY <1>1, ChunkPapersKept DEF Cells
<1>4. \A c \in Cells : /\ Finished(rows'[c]) => Finished(rows[c])
                       /\ rows[c].posted => rows'[c].posted
                       /\ (c \in InOutbox /\ Finished(rows[c])) => rows'[c].posted
  BY <1>2, MarkPaperRow DEF Finished, RowsSound
<1>5. \A c \in Cells : Visited(c[1])' => Visited(c[1]) \/ c[1] = p
  BY <1>1, <1>3 DEF Visited, PostPhases
<1>6. \A c \in Cells : (c[1] = p /\ Finished(rows[c])) => rows'[c].posted
  BY <1>1, <1>2, <1>4, FinishedIsUnposted DEF CleanInv
<1>. QED
  BY <1>1, <1>2, <1>4, <1>5, <1>6 DEF CleanInv

\* A chunk ends with all its papers visited.
LEMMA CleanChunkEnds ==
    ASSUME PhaseInv, pc = "post", papersLeft = {}, NEW p \in scope, ChunkOf(p) <= chunk
    PROVE  Visited(p)
<1>1. p \in Papers /\ scope \subseteq Papers /\ chunk \in Nat
  BY SizesAreNat DEF PhaseInv, TypeOK, ControlOK, Chunks
<1>2. ChunkOf(p) \in Nat
  BY <1>1, ChunkOfPaper
<1>. QED
  BY <1>1, <1>2 DEF Visited, PostPhases

LEMMA CleanNext ==
    ASSUME PhaseInv, PhaseInv', RowsSound, CleanInv, [Next]_vars
    PROVE  CleanInv'
<1>1. TypeOK /\ (pc # "idle" => verdict = "none")
  BY DEF PhaseInv
<1>2. CASE \/ Cancel \/ ResolveTexts \/ BeginPass1 \/ Park \/ BeginTail \/ Pass1Step \/ Pass2Step
  BY <1>1, <1>2, PassFrame, CleanAway, CleanPasses DEF PassPhases
<1>3. CASE WriteStep
  <2>1. CASE mode = "run"
    BY <1>1, <1>3, <2>1, WriteFrame, CleanPasses DEF PassPhases
  <2>2. CASE mode # "run"
    <3>1. mode' = mode
      BY <1>3
      DEF WriteStep, SaveNoOcr, DropP1, DropP2, MarkDropped, SaveReply, ReplyRefused, RewriteRow
    <3>. QED
      BY <2>2, <3>1, CleanAway
  <2>. QED
    BY <2>1, <2>2
<1>4. CASE SendPaper \/ \E p \in Papers : ReadPaper(p) \/ MarkPaper(p)
  <2>1. CASE mode = "run"
    BY <1>4, <2>1, CleanReads, CleanSends, CleanMarks
  <2>2. CASE mode # "run"
    <3>1. mode' = mode
      BY <1>4 DEF SendPaper, ReadPaper, MarkPaper
    <3>. QED
      BY <2>2, <3>1, CleanAway
  <2>. QED
    BY <2>1, <2>2
<1>5. CASE \E p \in Papers : SendFails(p)
  <2>1. postFailed' /\ pc = "send" /\ mode' = mode
        /\ (pc' = "idle" => verdict' = "failed") /\ (pc' # "idle" => verdict' = verdict /\ pc' = "post")
    BY <1>5 DEF SendFails, EndProcess
  <2>. QED
    BY <1>1, <2>1 DEF CleanInv
<1>6. CASE BeginPost
  <2>1. /\ pc = "tail" /\ pc' = "post" /\ papersLeft' = ChunkPaperSet
        /\ UNCHANGED <<rows, mode, scope, chunk, verdict, postFailed>>
    BY <1>6 DEF BeginPost
  <2>2. \A c \in Cells : ChunkOf(c[1])' = ChunkOf(c[1])
    BY <2>1, ChunkPapersKept DEF Cells
  <2>3. \A c \in Cells : Visited(c[1])' => Visited(c[1])
    BY <2>1, <2>2 DEF Visited, ChunkPaperSet
  <2>. QED
    BY <1>1, <2>1, <2>3 DEF CleanInv
<1>7. CASE NextChunk
  <2>1. /\ pc = "post" /\ papersLeft = {} /\ pc' = "boundary" /\ chunk' = chunk + 1
        /\ UNCHANGED <<rows, mode, scope, verdict, postFailed>>
    BY <1>7 DEF NextChunk
  <2>2. \A c \in Cells : ChunkOf(c[1])' = ChunkOf(c[1])
    BY <2>1 DEF ChunkOf
  <2>3. \A c \in Cells : c[1] \in scope => ChunkOf(c[1]) \in Nat
    BY <1>1, ChunkOfPaper DEF Cells, TypeOK, ControlOK
  <2>4. \A c \in Cells : Visited(c[1])' => Visited(c[1])
    BY <1>1, <2>1, <2>2, <2>3, CleanChunkEnds, SizesAreNat
    DEF Visited, PostPhases, TypeOK, ControlOK, Chunks
  <2>. QED
    BY <1>1, <2>1, <2>4 DEF CleanInv
<1>8. CASE FinishRun
  <2>1. /\ pc = "post" /\ papersLeft = {} /\ pc' = "idle"
        /\ UNCHANGED <<rows, mode, scope, postFailed>>
        /\ verdict' = "succeeded" => IsLastChunk
    BY <1>8 DEF FinishRun, EndProcess
  <2>2. verdict' = "succeeded" => \A p \in scope : Visited(p)
    BY <2>1, CleanChunkEnds DEF IsLastChunk
  <2>. QED
    BY <1>1, <2>1, <2>2 DEF CleanInv
<1>9. CASE \/ FinishRepost \/ Crash \/ FinishReformat
           \/ \E p \in Papers : PrintPaper(p)
           \/ \E cid \in Cids : ReformatFails(cid) \/ ReformatGroup(cid)
           \/ \E papers \in Scopes : StartRepost(papers) \/ StartReformat(papers)
  <2>1. mode' # "run" \/ (pc' = "idle" /\ verdict' # "succeeded")
    BY <1>9 DEF FinishRepost, Crash, EndProcess, PrintPaper, ReformatStep, ReformatFails,
                ReformatGroup, FinishReformat, IsReformatting, StartRepost, StartReformat, PhaseInv
  <2>. QED
    BY <2>1, CleanAway
<1>10. CASE \E papers \in Scopes, command \in Commands : StartRun(command, papers)
  <2>1. verdict' = "none" /\ pc' = "boundary" /\ chunk' = 1
    BY <1>10 DEF StartRun
  <2>2. scope' \subseteq Papers
    BY DEF PhaseInv, TypeOK, ControlOK
  <2>3. \A c \in Cells : ChunkOf(c[1])' \in Nat /\ ChunkOf(c[1])' >= 1
    BY <2>2, ChunkNumbers DEF ChunkOf
  <2>4. \A c \in Cells : ~Visited(c[1])'
    BY <2>1, <2>3 DEF Visited, PostPhases
  <2>. QED
    BY <2>1, <2>4 DEF CleanInv
<1>11. CASE UNCHANGED vars
  <2>1. UNCHANGED <<rows, outbox, papersLeft, pc, mode, scope, chunk, verdict, postFailed>>
    BY <1>11 DEF vars
  <2>2. \A c \in Cells : ChunkOf(c[1])' = ChunkOf(c[1])
    BY <2>1, ChunkPapersKept DEF Cells
  <2>3. /\ InOutbox' = InOutbox
        /\ \A c \in Cells : FirstPaper(c[1])' <=> FirstPaper(c[1])
        /\ \A c \in Cells : Visited(c[1])' <=> Visited(c[1])
    BY <2>1, <2>2 DEF InOutbox, FirstPaper, Visited
  <2>. QED
    BY <2>1, <2>3 DEF CleanInv
<1>. QED
  BY <1>2, <1>3, <1>4, <1>5, <1>6, <1>7, <1>8, <1>9, <1>10, <1>11
  DEF Next, ProgramStep, PostStep, ReformatStep, UserStep

\* Where nobody reformats, a run that says it succeeded and had no post fail has
\* delivered every finished answer of its papers, those of killed and failed
\* invocations before it included: posting visits each paper of the scope once,
\* after its last write, and get_unposted finds all that is owed
\* (orchestrator.py:963-987, store.py:308-328).
THEOREM CleanRunDelivers ==
    ASSUME "reformat" \notin Commands
    PROVE  Spec => []CleanRunLeavesNothingUnsent
<1>1. Init => CleanInv
  BY DEF Init, CleanInv
<1>2. PhaseInv /\ PhaseInv' /\ RowsSound /\ CleanInv /\ [Next]_vars => CleanInv'
  BY CleanNext
<1>3. CleanInv /\ PostedMeansSent => CleanRunLeavesNothingUnsent
  BY DEF CleanInv, PostedMeansSent, CleanRunLeavesNothingUnsent
<1>. QED
  BY PhasesHold, RowsAreSound, PostedIsSent, <1>1, <1>2, <1>3, PTL DEF Spec

HIDE DEF durable, seer, control, passes, flags, counts, ghosts, bounds

(***************************************************************************)
(* What a run reports, and what the next one can mend.                     *)
(***************************************************************************)
\* toMark holds the cell whose failure answer is saved but not yet marked: it and
\* the cells L that earlier crashes have left are the only ones that may hold such
\* an answer without being 'failed'.
RetryInv(L) ==
    /\ TypeOK
    /\ pc \notin {"p1drop", "p2drop"} => toMark = {}
    /\ \A c, d \in toMark : c = d
    /\ \A c \in Cells : rows[c].status = "absent" => rows[c].payload = NoPayload
    /\ \A c \in Cells : rows[c].payload.kind \in ProviderErrors =>
                            rows[c].status = "failed" \/ c \in toMark \/ c \in L

LEMMA RetryQuiet ==
    ASSUME NEW L, RetryInv(L), TypeOK', rows' = rows, toMark = {}, toMark' = {}
    PROVE  RetryInv(L)'
BY DEF RetryInv

\* An answer that is not a provider's failure is saved.
LEMMA RetrySave ==
    ASSUME NEW L, RetryInv(L), TypeOK', NEW c \in Cells, NEW payload \in Payload, Save(c, payload),
           payload.kind \notin ProviderErrors, toMark = {}, toMark' = {}
    PROVE  RetryInv(L)'
<1>1. rows' = [rows EXCEPT ![c] = [status |-> "done", payload |-> payload, posted |-> FALSE]]
  BY DEF Save, SaveAnswer
<1>2. rows \in [Cells -> Row]
  BY DEF RetryInv, TypeOK, StoreOK
<1>3. QED
  BY <1>1, <1>2 DEF RetryInv

\* A provider's failure is saved, and remembered for mark_failed.
LEMMA RetryDrop ==
    ASSUME NEW L, RetryInv(L), TypeOK', NEW c \in Cells, NEW payload \in Payload, Save(c, payload),
           toMark = {}, toMark' = {c}, pc' \in {"p1drop", "p2drop"}
    PROVE  RetryInv(L)'
<1>1. rows' = [rows EXCEPT ![c] = [status |-> "done", payload |-> payload, posted |-> FALSE]]
  BY DEF Save, SaveAnswer
<1>2. rows \in [Cells -> Row]
  BY DEF RetryInv, TypeOK, StoreOK
<1>3. QED
  BY <1>1, <1>2 DEF RetryInv

LEMMA ReplyRefusedRetries ==
    ASSUME NEW L, RetryInv(L), NEW c \in Cells, ReplyRefused(c)
    PROVE  RetryInv(L)'
BY ReplyRefusedType, RetryQuiet DEF ReplyRefused, durable, control, RetryInv

LEMMA PrintPaperRetries ==
    ASSUME NEW L, RetryInv(L), NEW p \in Papers, PrintPaper(p)
    PROVE  RetryInv(L)'
BY PrintPaperType, RetryQuiet DEF PrintPaper, durable, control, RetryInv

LEMMA ReadPaperRetries ==
    ASSUME NEW L, RetryInv(L), NEW p \in Papers, ReadPaper(p)
    PROVE  RetryInv(L)'
BY ReadPaperType, RetryQuiet DEF ReadPaper, durable, control, RetryInv

LEMMA SendFailsRetries ==
    ASSUME NEW L, RetryInv(L), NEW p \in Papers, SendFails(p)
    PROVE  RetryInv(L)'
BY SendFailsType, RetryQuiet DEF SendFails, durable, control, EndProcess, RetryInv

LEMMA StartRepostRetries ==
    ASSUME NEW L, RetryInv(L), NEW papers \in Scopes, StartRepost(papers)
    PROVE  RetryInv(L)'
BY StartRepostType, RetryQuiet DEF StartRepost, durable, RetryInv

LEMMA StartReformatRetries ==
    ASSUME NEW L, RetryInv(L), NEW papers \in Scopes, StartReformat(papers)
    PROVE  RetryInv(L)'
BY StartReformatType, RetryQuiet DEF StartReformat, durable, RetryInv

LEMMA ReformatFailsRetries ==
    ASSUME NEW L, RetryInv(L), NEW cid \in Cids, ReformatFails(cid)
    PROVE  RetryInv(L)'
BY ReformatFailsType, RetryQuiet
DEF ReformatFails, durable, control, IsReformatting, RetryInv

LEMMA ReformatGroupRetries ==
    ASSUME NEW L, RetryInv(L), NEW cid \in Cids, ReformatGroup(cid)
    PROVE  RetryInv(L)'
BY ReformatGroupType, RetryQuiet
DEF ReformatGroup, durable, control, IsReformatting, RetryInv

LEMMA SendPaperRetries == ASSUME NEW L, RetryInv(L), SendPaper PROVE RetryInv(L)'
BY SendPaperType, RetryQuiet DEF SendPaper, durable, control, RetryInv

LEMMA FinishReformatRetries == ASSUME NEW L, RetryInv(L), FinishReformat PROVE RetryInv(L)'
BY FinishReformatType, RetryQuiet DEF FinishReformat, EndProcess, durable, RetryInv

LEMMA SaveNoOcrRetries ==
    ASSUME NEW L, RetryInv(L), NEW c \in Cells, SaveNoOcr(c)
    PROVE  RetryInv(L)'
<1> DEFINE payload == NewPayload("no_ocr", 0, 0)
<1>1. payload \in Payload /\ payload.kind \notin ProviderErrors
  BY NewPayloadIsPayload
  DEF RetryInv, TypeOK, GhostsOK, NewPayload, Kinds, ProviderErrors, FinalErrors
<1>2. Save(c, payload) /\ toMark = {} /\ toMark' = {} /\ TypeOK'
  BY SaveNoOcrType DEF SaveNoOcr, RetryInv
<1>3. QED
  BY <1>1, <1>2, RetrySave

LEMMA SaveReplyRetries ==
    ASSUME NEW L, RetryInv(L), NEW c \in Cells, SaveReply(c)
    PROVE  RetryInv(L)'
<1>1. PICK kind \in {"dummy", "answer", "parse_error"} :
           Save(c, NewPayload(kind, p1[CidOf(c)], p2[CidOf(c)]))
  BY DEF SaveReply
<1> DEFINE payload == NewPayload(kind, p1[CidOf(c)], p2[CidOf(c)])
<1>2. payload \in Payload
  BY NewPayloadIsPayload, CidOfType
  DEF RetryInv, TypeOK, StoreOK, ControlOK, LocalsOK, GhostsOK, Locations, Endings,
      Kinds, ProviderErrors, FinalErrors
<1>3. payload.kind \notin ProviderErrors
  BY DEF NewPayload, ProviderErrors
<1>4. toMark = {} /\ toMark' = {} /\ TypeOK'
  BY SaveReplyType DEF SaveReply, RetryInv
<1>5. QED
  BY <1>1, <1>2, <1>3, <1>4, RetrySave

LEMMA DropP1Retries ==
    ASSUME NEW L, RetryInv(L), NEW c \in Cells, DropP1(c)
    PROVE  RetryInv(L)'
<1> DEFINE kind == IF CidOf(c) \in p1err THEN "p1_error" ELSE "p1_lost"
<1> DEFINE payload == NewPayload(kind, 0, 0)
<1>1. payload \in Payload
  BY NewPayloadIsPayload
  DEF RetryInv, TypeOK, GhostsOK, Kinds, ProviderErrors, FinalErrors
<1>2. Save(c, payload) /\ toMark = {} /\ pc' = "p1drop" /\ TypeOK'
  BY DropP1Type DEF DropP1, RetryInv
<1>3. CASE CidOf(c) \in p1err
  BY <1>1, <1>2, <1>3, RetryDrop DEF DropP1
<1>4. CASE CidOf(c) \notin p1err
  <2>1. payload.kind \notin ProviderErrors /\ toMark' = {}
    BY <1>4 DEF DropP1, NewPayload, ProviderErrors
  <2>2. QED
    BY <1>1, <1>2, <2>1, RetrySave
<1>5. QED
  BY <1>3, <1>4

LEMMA DropP2Retries ==
    ASSUME NEW L, RetryInv(L), NEW c \in Cells, DropP2(c)
    PROVE  RetryInv(L)'
<1> DEFINE payload == NewPayload("p2_error", p1[CidOf(c)], 0)
<1>1. payload \in Payload
  BY NewPayloadIsPayload, CidOfType
  DEF RetryInv, TypeOK, StoreOK, ControlOK, LocalsOK, GhostsOK, Locations, Endings,
      Kinds, ProviderErrors, FinalErrors
<1>2. Save(c, payload) /\ toMark = {} /\ toMark' = {c} /\ pc' = "p2drop" /\ TypeOK'
  BY DropP2Type DEF DropP2, RetryInv
<1>3. QED
  BY <1>1, <1>2, RetryDrop

LEMMA MarkDroppedRetries ==
    ASSUME NEW L, RetryInv(L), NEW c \in Cells, MarkDropped(c)
    PROVE  RetryInv(L)'
<1>1. rows' = [rows EXCEPT ![c] = MarkFailed(rows[c])] /\ toMark' = {} /\ TypeOK'
  BY MarkDroppedType DEF MarkDropped, RetryInv
<1>2. rows \in [Cells -> Row] /\ c \in toMark
  BY DEF MarkDropped, RetryInv, TypeOK, StoreOK
<1>3. NoPayload.kind \notin ProviderErrors
  BY DEF NoPayload, ProviderErrors
<1>4. \A d \in Cells : /\ rows'[d].payload = rows[d].payload
                       /\ rows'[d].status = "absent" <=> rows[d].status = "absent"
                       /\ rows'[d].status \in {rows[d].status, "failed"}
                       /\ d = c => rows'[d].status \in {"absent", "failed"}
  BY <1>1, <1>2 DEF MarkFailed, Row
<1>5. \A d \in Cells : rows'[d].payload.kind \in ProviderErrors => rows'[d].status = "failed" \/ d \in L
  BY <1>2, <1>3, <1>4 DEF RetryInv
<1>6. QED
  BY <1>1, <1>4, <1>5 DEF RetryInv

\* Delivering an error answer is no reason to stop retrying it.
LEMMA MarkPaperRetries ==
    ASSUME NEW L, RetryInv(L), NEW p \in Papers, MarkPaper(p)
    PROVE  RetryInv(L)'
<1>1. /\ rows' = [c \in Cells |-> IF c \in InOutbox THEN MarkPosted(rows[c]) ELSE rows[c]]
      /\ toMark = {} /\ toMark' = {} /\ TypeOK'
  BY MarkPaperType DEF MarkPaper, RetryInv
<1>2. rows \in [Cells -> Row]
  BY DEF RetryInv, TypeOK, StoreOK
<1>3. \A c \in Cells : /\ rows'[c].payload = rows[c].payload
                       /\ rows[c].status = "failed" => rows'[c].status = "failed"
                       /\ rows'[c].status = "absent" => rows[c].status = "absent"
  BY <1>1, <1>2 DEF MarkPosted, Row
<1>4. QED
  BY <1>1, <1>3 DEF RetryInv

LEMMA RewriteRowRetries ==
    ASSUME NEW L, RetryInv(L), NEW c \in Cells, RewriteRow(c)
    PROVE  RetryInv(L)'
<1> DEFINE payload == NewPayload("answer", rows[c].payload.p1, p1[CidOf(c)])
<1>1. rows' = [rows EXCEPT ![c] = UpdateReformatted(rows[c], payload)]
      /\ toMark = {} /\ toMark' = {} /\ TypeOK'
  BY RewriteRowType DEF RewriteRow, RetryInv, TypeOK, StoreOK
<1>2. rows \in [Cells -> Row] /\ payload.kind \notin ProviderErrors
  BY DEF RetryInv, TypeOK, StoreOK, NewPayload, ProviderErrors
<1>3. \A d \in Cells : /\ rows'[d] = rows[d] \/ rows'[d].payload.kind \notin ProviderErrors
                       /\ rows'[d].status = "absent" => rows'[d] = rows[d]
  BY <1>1, <1>2 DEF UpdateReformatted, Row
<1>4. QED
  BY <1>1, <1>3 DEF RetryInv

LEMMA StartRunRetries ==
    ASSUME NEW L, RetryInv(L), NEW papers \in Scopes, NEW command \in Commands, StartRun(command, papers)
    PROVE  RetryInv(L)'
<1>1. TypeOK' /\ toMark = {} /\ toMark' = {}
  BY StartRunType DEF StartRun, RetryInv
<1>2. CASE command # "reset"
  <2>1. rows' = rows
    BY <1>2 DEF StartRun
  <2>2. QED
    BY <1>1, <2>1, RetryQuiet
<1>3. CASE command = "reset"
  <2>1. rows' = [c \in Cells |-> NoRow]
    BY <1>3 DEF StartRun
  <2>2. QED
    BY <1>1, <2>1 DEF RetryInv, NoRow, NoPayload, ProviderErrors
<1>4. QED
  BY <1>2, <1>3

\* What only moves the program or the provider leaves the count of crashes.
LEMMA QuietKeepsCrashes ==
    ASSUME Quiet
    PROVE  crashes' = crashes
<1> USE DEF bounds, Mishap, EndProcess, EndPass1, EndPass2, NoteQuota, ForgetBatchP1, ForgetBatchP2
<1>1. CASE Cancel
  BY <1>1 DEF Cancel
<1>2. CASE ResolveTexts
  BY <1>2 DEF ResolveTexts
<1>3. CASE BeginPass1
  BY <1>3 DEF BeginPass1
<1>4. CASE Park
  BY <1>4 DEF Park
<1>5. CASE BeginTail
  BY <1>5 DEF BeginTail
<1>6. CASE Pass1Online
  BY <1>6 DEF Pass1Online
<1>7. CASE Pass1Aborts
  BY <1>7 DEF Pass1Aborts
<1>8. CASE Pass1FromDump
  BY <1>8 DEF Pass1FromDump
<1>9. CASE Pass1Nothing
  BY <1>9 DEF Pass1Nothing
<1>10. CASE SubmitP1
  BY <1>10 DEF SubmitP1
<1>11. CASE SaveP1Id
  BY <1>11 DEF SaveP1Id
<1>12. CASE ResumeP1
  BY <1>12 DEF ResumeP1
<1>13. CASE BatchP1Fails
  BY <1>13 DEF BatchP1Fails
<1>14. CASE CollectP1
  BY <1>14 DEF CollectP1
<1>15. CASE DumpP1
  BY <1>15 DEF DumpP1
<1>16. CASE BeginPass2
  BY <1>16 DEF BeginPass2
<1>17. CASE Pass2Online
  BY <1>17 DEF Pass2Online
<1>18. CASE Pass2Nothing
  BY <1>18 DEF Pass2Nothing
<1>19. CASE SubmitP2
  BY <1>19 DEF SubmitP2
<1>20. CASE SaveP2Id
  BY <1>20 DEF SaveP2Id
<1>21. CASE ResumeP2
  BY <1>21 DEF ResumeP2
<1>22. CASE BatchP2Fails
  BY <1>22 DEF BatchP2Fails
<1>23. CASE CollectP2
  BY <1>23 DEF CollectP2
<1>24. CASE BeginPost
  BY <1>24 DEF BeginPost
<1>25. CASE NextChunk
  BY <1>25 DEF NextChunk
<1>26. CASE FinishRun
  BY <1>26 DEF FinishRun
<1>27. CASE FinishRepost
  BY <1>27 DEF FinishRepost
<1>28. QED
  BY <1>1, <1>2, <1>3, <1>4, <1>5, <1>6, <1>7, <1>8, <1>9, <1>10, <1>11, <1>12,
     <1>13, <1>14, <1>15, <1>16, <1>17, <1>18, <1>19, <1>20, <1>21, <1>22,
     <1>23, <1>24, <1>25, <1>26, <1>27
  DEF Quiet, Pass1Step, Pass2Step

\* Only a crash is counted as one.
LEMMA OnlyCrashCrashes ==
    ASSUME [Next]_vars, ~Crash
    PROVE  crashes' = crashes
<1> USE DEF bounds, Mishap, EndProcess, NoteQuota
<1>1. CASE Quiet
  BY <1>1, QuietKeepsCrashes
<1>2. CASE \E c \in Cells : SaveNoOcr(c)
  BY <1>2 DEF SaveNoOcr
<1>3. CASE \E c \in Cells : DropP1(c)
  BY <1>3 DEF DropP1
<1>4. CASE \E c \in Cells : MarkDropped(c)
  BY <1>4 DEF MarkDropped
<1>5. CASE \E c \in Cells : DropP2(c)
  BY <1>5 DEF DropP2
<1>6. CASE \E c \in Cells : SaveReply(c)
  BY <1>6 DEF SaveReply
<1>7. CASE \E c \in Cells : ReplyRefused(c)
  BY <1>7 DEF ReplyRefused
<1>8. CASE \E p \in Papers : ReadPaper(p)
  BY <1>8 DEF ReadPaper
<1>9. CASE \E p \in Papers : PrintPaper(p)
  BY <1>9 DEF PrintPaper
<1>10. CASE SendPaper
  BY <1>10 DEF SendPaper
<1>11. CASE \E p \in Papers : SendFails(p)
  BY <1>11 DEF SendFails
<1>12. CASE \E p \in Papers : MarkPaper(p)
  BY <1>12 DEF MarkPaper
<1>13. CASE \E papers \in Scopes : StartRepost(papers)
  BY <1>13 DEF StartRepost
<1>14. CASE \E papers \in Scopes : StartReformat(papers)
  BY <1>14 DEF StartReformat
<1>15. CASE \E cid \in Cids : ReformatFails(cid)
  BY <1>15 DEF ReformatFails
<1>16. CASE \E cid \in Cids : ReformatGroup(cid)
  BY <1>16 DEF ReformatGroup
<1>17. CASE \E c \in Cells : RewriteRow(c)
  BY <1>17 DEF RewriteRow
<1>18. CASE FinishReformat
  BY <1>18 DEF FinishReformat
<1>19. CASE \E papers \in Scopes, command \in Commands : StartRun(command, papers)
  BY <1>19 DEF StartRun
<1>20. CASE UNCHANGED vars
  BY <1>20 DEF vars
<1>21. QED
  BY <1>1, <1>2, <1>3, <1>4, <1>5, <1>6, <1>7, <1>8, <1>9, <1>10, <1>11, <1>12, <1>13, <1>14, <1>15, <1>16, <1>17, <1>18, <1>19, <1>20
  DEF Quiet, Next, ProgramStep, UserStep, WriteStep, PostStep, ReformatStep

LEMMA RetryInit == Init => RetryInv({})
<1>1. Init => TypeOK
  BY InitType
<1>2. QED
  BY <1>1 DEF Init, RetryInv, NoRow, NoPayload, ProviderErrors

LEMMA RetryNext ==
    ASSUME NEW L, RetryInv(L), [Next]_vars, ~Crash
    PROVE  RetryInv(L)'
<1>1. CASE Quiet
  <2>1. TypeOK'
    BY TypeNext DEF RetryInv
  <2>2. toMark = {} /\ toMark' = {} /\ rows' = rows
    BY <1>1, QuietFrame DEF RetryInv
  <2>3. QED
    BY <2>1, <2>2, RetryQuiet
<1>2. CASE \E c \in Cells : SaveNoOcr(c)
  BY <1>2, SaveNoOcrRetries
<1>3. CASE \E c \in Cells : DropP1(c)
  BY <1>3, DropP1Retries
<1>4. CASE \E c \in Cells : MarkDropped(c)
  BY <1>4, MarkDroppedRetries
<1>5. CASE \E c \in Cells : DropP2(c)
  BY <1>5, DropP2Retries
<1>6. CASE \E c \in Cells : SaveReply(c)
  BY <1>6, SaveReplyRetries
<1>7. CASE \E c \in Cells : ReplyRefused(c)
  BY <1>7, ReplyRefusedRetries
<1>8. CASE \E p \in Papers : ReadPaper(p)
  BY <1>8, ReadPaperRetries
<1>9. CASE \E p \in Papers : PrintPaper(p)
  BY <1>9, PrintPaperRetries
<1>10. CASE SendPaper
  BY <1>10, SendPaperRetries
<1>11. CASE \E p \in Papers : SendFails(p)
  BY <1>11, SendFailsRetries
<1>12. CASE \E p \in Papers : MarkPaper(p)
  BY <1>12, MarkPaperRetries
<1>13. CASE \E papers \in Scopes : StartRepost(papers)
  BY <1>13, StartRepostRetries
<1>14. CASE \E papers \in Scopes : StartReformat(papers)
  BY <1>14, StartReformatRetries
<1>15. CASE \E cid \in Cids : ReformatFails(cid)
  BY <1>15, ReformatFailsRetries
<1>16. CASE \E cid \in Cids : ReformatGroup(cid)
  BY <1>16, ReformatGroupRetries
<1>17. CASE \E c \in Cells : RewriteRow(c)
  BY <1>17, RewriteRowRetries
<1>18. CASE FinishReformat
  BY <1>18, FinishReformatRetries
<1>19. CASE \E papers \in Scopes, command \in Commands : StartRun(command, papers)
  BY <1>19, StartRunRetries
<1>20. CASE UNCHANGED vars
  BY <1>20
  DEF RetryInv, TypeOK, StoreOK, ControlOK, LocalsOK, GhostsOK, Locations,
      Endings, durable, seer, control, passes, flags, counts, ghosts, bounds, vars
<1>21. QED
  BY <1>1, <1>2, <1>3, <1>4, <1>5, <1>6, <1>7, <1>8, <1>9, <1>10, <1>11, <1>12,
     <1>13, <1>14, <1>15, <1>16, <1>17, <1>18, <1>19, <1>20
  DEF Quiet, Next, ProgramStep, UserStep, WriteStep, PostStep,
      ReformatStep

\* What crashes have left: failures that are not marked, and will not be.
LeftBehind == Stranded \ toMark

LeftInv == RetryInv(Cells) /\ Cardinality(LeftBehind) <= crashes

LEMMA LeftIsFinite ==
    ASSUME NEW S, S \subseteq LeftBehind
    PROVE  IsFiniteSet(S) /\ Cardinality(S) \in Nat /\ Cardinality(S) <= Cardinality(LeftBehind)
<1>1. IsFiniteSet(LeftBehind) /\ IsFiniteSet(S)
  BY CellsAreFinite, FS_Subset DEF LeftBehind, Stranded
<1>. QED
  BY <1>1, FS_Subset, FS_CardinalityType

LEMMA LeftNext == ASSUME LeftInv, [Next]_vars PROVE LeftInv'
<1>1. PICK left : left = LeftBehind
  OBVIOUS
<1>2. RetryInv(left) /\ TypeOK /\ TypeOK' /\ crashes \in Nat
  BY <1>1, TypeNext DEF LeftInv, RetryInv, LeftBehind, Stranded, TypeOK, GhostsOK
<1>3. IsFiniteSet(left) /\ Cardinality(left) \in Nat /\ Cardinality(left) <= crashes
  BY <1>1, LeftIsFinite DEF LeftInv
<1>4. CASE ~Crash
  <2>1. RetryInv(left)' /\ crashes' = crashes
    BY <1>2, <1>4, RetryNext, OnlyCrashCrashes
  <2>2. LeftBehind' \subseteq left
    BY <2>1 DEF RetryInv, LeftBehind, Stranded
  <2>3. Cardinality(LeftBehind') <= Cardinality(left) /\ Cardinality(LeftBehind') \in Nat
    BY <1>3, <2>2, FS_Subset, FS_CardinalityType
  <2>4. RetryInv(Cells)'
    BY <2>1 DEF RetryInv
  <2>. QED
    BY <1>2, <1>3, <2>1, <2>3, <2>4 DEF LeftInv
<1>5. CASE Crash
  <2>1. rows' = rows /\ toMark' = {} /\ crashes' = crashes + 1
    BY <1>5 DEF Crash, EndProcess, durable
  <2>2. LeftBehind' = Stranded /\ RetryInv(Cells)'
    BY <1>2, <2>1 DEF LeftBehind, Stranded, RetryInv
  <2>3. CASE toMark = {}
    BY <1>1, <1>2, <1>3, <2>1, <2>2, <2>3 DEF LeftInv, LeftBehind
  <2>4. CASE toMark # {}
    <3>1. PICK c \in toMark : toMark = {c}
      BY <1>2, <2>4 DEF RetryInv
    <3>2. /\ IsFiniteSet(left \union {c}) /\ Cardinality(left \union {c}) \in Nat
          /\ Cardinality(left \union {c}) <= Cardinality(left) + 1
      BY <1>3, FS_AddElement, FS_CardinalityType
    <3>3. LeftBehind' \subseteq left \union {c}
      BY <1>1, <2>2, <3>1 DEF LeftBehind
    <3>4. Cardinality(LeftBehind') <= Cardinality(left \union {c}) /\ Cardinality(LeftBehind') \in Nat
      BY <3>2, <3>3, FS_Subset, FS_CardinalityType
    <3>. QED
      BY <1>2, <1>3, <2>1, <2>2, <3>2, <3>4 DEF LeftInv
  <2>. QED
    BY <2>3, <2>4
<1>. QED
  BY <1>4, <1>5

\* Between invocations, a cell whose answer reports a provider's failure is open to
\* another try, but for one cell at most for each time a process was killed: what
\* writes such an answer and what marks it are two transactions, and nothing but a
\* kill ends the process between them (orchestrator.py:875-936).
THEOREM FailuresStayRetryable == Spec => []RetryableAtRest
<1>1. Init => LeftInv
  <2>1. Init => Stranded = {} /\ crashes = 0
    BY DEF Init, Stranded, NoRow, NoPayload, ProviderErrors
  <2>. QED
    BY <2>1, RetryInit, FS_EmptySet DEF LeftInv, LeftBehind, RetryInv
<1>2. LeftInv => RetryableAtRest
  BY DEF LeftInv, LeftBehind, RetryInv, RetryableAtRest
<1>. QED
  BY <1>1, <1>2, LeftNext, PTL DEF Spec

---------------------------------------------------------------------------
(* fail_fast.  An extraction error of the run itself is remembered until   *)
(* its end; those of earlier runs are told apart by their invocation.      *)

USE DEF durable, seer, control, passes, flags, counts, ghosts, bounds

OwnParseError(c) ==
    c[1] \in scope /\ rows[c].payload.inv = inv /\ rows[c].payload.kind = "parse_error"

FailFastInv ==
    /\ \A c \in Cells : rows[c].payload.inv <= inv
    /\ (FailFast /\ mode = "run" /\ pc # "idle") =>
          \A c \in Cells : OwnParseError(c) => firstErr
    /\ FailFastRunsRaise

\* Within an invocation a new extraction error comes with firstErr.
LEMMA FailFastStays ==
    ASSUME FailFastInv, TypeOK, UNCHANGED <<inv, scope, mode>>, pc # "idle",
           verdict' # "succeeded", firstErr => firstErr',
           \A c \in Cells : \/ rows'[c].payload = rows[c].payload
                            \/ /\ rows'[c].payload.inv = inv
                               /\ \/ rows'[c].payload.kind # "parse_error"
                                  \/ FailFast => firstErr'
                                  \/ mode # "run"
    PROVE  FailFastInv'
<1>1. inv \in Nat
  BY DEF TypeOK, GhostsOK
<1>2. \A c \in Cells : rows'[c].payload.inv <= inv
  BY <1>1 DEF FailFastInv
<1>3. ASSUME FailFast, mode = "run", NEW c \in Cells, OwnParseError(c)'
      PROVE  firstErr'
  BY <1>3 DEF FailFastInv, OwnParseError
<1>. QED
  BY <1>2, <1>3 DEF FailFastInv, FailFastRunsRaise

LEMMA FailFastWrites ==
    ASSUME FailFastInv, PhaseInv, WriteStep
    PROVE  FailFastInv'
<1>1. PICK c \in Cells : \/ SaveNoOcr(c) \/ DropP1(c) \/ DropP2(c) \/ MarkDropped(c)
                         \/ SaveReply(c) \/ ReplyRefused(c) \/ RewriteRow(c)
  BY DEF WriteStep
<1>2. TypeOK /\ (toMark # {} => pc # "idle") /\ (verdict # "none" => pc = "idle")
  BY DEF PhaseInv
<1>3. UNCHANGED <<inv, scope, mode, verdict>> /\ pc # "idle" /\ (firstErr => firstErr')
  <2>1. UNCHANGED <<inv, scope, mode, verdict>>
    BY <1>1 DEF SaveNoOcr, DropP1, DropP2, MarkDropped, SaveReply, ReplyRefused, RewriteRow
  <2>2. pc # "idle"
    BY <1>1, <1>2
    DEF SaveNoOcr, DropP1, DropP2, MarkDropped, SaveReply, ReplyRefused, RewriteRow
  <2>3. CASE SaveReply(c) \/ ReplyRefused(c)
    BY <2>1, <2>2, <2>3, Zenon DEF SaveReply, ReplyRefused
  <2>4. CASE ~SaveReply(c) /\ ~ReplyRefused(c)
    <3>1. firstErr' = firstErr
      BY <1>1, <2>4 DEF SaveNoOcr, DropP1, DropP2, MarkDropped, RewriteRow
    <3>. QED
      BY <2>1, <2>2, <3>1
  <2>. QED
    BY <2>3, <2>4
<1>4. CASE SaveNoOcr(c) \/ DropP1(c) \/ DropP2(c)
  <2>1. PICK kind, text, fmt : kind # "parse_error" /\ Save(c, NewPayload(kind, text, fmt))
    BY <1>4 DEF SaveNoOcr, DropP1, DropP2
  <2>2. /\ rows'[c].payload = NewPayload(kind, text, fmt)
        /\ \A d \in Cells : d # c => rows'[d] = rows[d]
    BY <1>2, <2>1, SavedRow
  <2>3. rows'[c].payload.inv = inv /\ rows'[c].payload.kind # "parse_error"
    BY <2>1, <2>2 DEF NewPayload
  <2>. QED
    BY <1>2, <1>3, <2>2, <2>3, FailFastStays
<1>5. CASE SaveReply(c)
  <2>1. PICK kind, text, fmt : /\ Save(c, NewPayload(kind, text, fmt))
                               /\ firstErr' = (firstErr \/ (FailFast /\ kind = "parse_error"))
    BY <1>5 DEF SaveReply
  <2>2. /\ rows'[c].payload = NewPayload(kind, text, fmt)
        /\ \A d \in Cells : d # c => rows'[d] = rows[d]
    BY <1>2, <2>1, SavedRow
  <2>3. rows'[c].payload.inv = inv /\ rows'[c].payload.kind = kind
    BY <2>2 DEF NewPayload
  <2>. QED
    BY <1>2, <1>3, <2>1, <2>2, <2>3, FailFastStays
<1>6. CASE MarkDropped(c)
  BY <1>2, <1>3, <1>6, MarkDroppedRow, FailFastStays
<1>7. CASE ReplyRefused(c)
  BY <1>2, <1>3, <1>7, FailFastStays DEF ReplyRefused
<1>8. CASE RewriteRow(c)
  <2>1. mode # "run"
    BY <1>8 DEF RewriteRow, PhaseInv
  <2>2. \/ rows'[c] = rows[c]
        \/ rows'[c].payload = NewPayload("answer", rows[c].payload.p1, p1[CidOf(c)])
    BY <1>2, <1>8, RewrittenRow
  <2>3. rows'[c].payload = rows[c].payload \/ rows'[c].payload.inv = inv
    BY <2>2 DEF NewPayload
  <2>. QED
    BY <1>2, <1>3, <1>8, <2>1, <2>3, RewrittenRow, FailFastStays
<1>. QED
  BY <1>1, <1>4, <1>5, <1>6, <1>7, <1>8

LEMMA FailFastNext ==
    ASSUME PhaseInv, FailFastInv, [Next]_vars
    PROVE  FailFastInv'
<1>. USE DEF EndProcess
<1>1. TypeOK /\ (pc # "idle" => verdict = "none")
  BY DEF PhaseInv
<1>2. ASSUME pc # "idle", pc' = "idle", verdict' # "succeeded", UNCHANGED <<rows, inv>>
      PROVE  FailFastInv'
  BY <1>2 DEF FailFastInv, FailFastRunsRaise
<1>3. CASE \/ Cancel \/ ResolveTexts \/ BeginPass1 \/ Park \/ BeginTail \/ Pass1Step \/ Pass2Step
  <2>1. pc # "idle" /\ UNCHANGED <<rows, inv, mode, scope>>
    BY <1>3, PassFrame DEF PassPhases
  <2>. QED
    BY <1>1, <1>2, <1>3, <2>1, PassFrame, FailFastStays
<1>4. CASE WriteStep
  BY <1>4, FailFastWrites
<1>5. CASE \/ BeginPost \/ SendPaper \/ NextChunk
           \/ \E p \in Papers : ReadPaper(p) \/ PrintPaper(p)
           \/ \E cid \in Cids : ReformatFails(cid) \/ ReformatGroup(cid)
  <2>1. pc # "idle" /\ UNCHANGED <<rows, inv, mode, scope, verdict, firstErr>>
    BY <1>5 DEF BeginPost, SendPaper, NextChunk, ReadPaper, PrintPaper, ReformatFails,
                ReformatGroup, IsReformatting
  <2>. QED
    BY <1>1, <2>1, FailFastStays
<1>6. CASE \E p \in Papers : SendFails(p)
  <2>1. /\ pc # "idle" /\ UNCHANGED <<rows, inv, mode, scope>>
        /\ \/ pc' = "idle" /\ verdict' = "failed"
           \/ UNCHANGED <<verdict, firstErr>>
    BY <1>6 DEF SendFails
  <2>. QED
    BY <1>1, <1>2, <2>1, FailFastStays
<1>7. CASE \E p \in Papers : MarkPaper(p)
  <2>1. pc # "idle" /\ UNCHANGED <<inv, mode, scope, verdict, firstErr>>
    BY <1>7 DEF MarkPaper
  <2>. QED
    BY <1>1, <1>7, <2>1, MarkPaperRow, FailFastStays
<1>8. CASE FinishRun
  <2>1. pc = "post" /\ pc' = "idle" /\ UNCHANGED <<rows, inv, mode, scope>>
        /\ (verdict' = "succeeded" => ~MustStop)
    BY <1>8 DEF FinishRun
  <2>. QED
    BY <2>1 DEF MustStop, FailFastInv, FailFastRunsRaise, OwnParseError
<1>9. CASE FinishRepost \/ FinishReformat \/ Crash
  <2>1. pc # "idle" /\ pc' = "idle" /\ verdict' # "succeeded" /\ UNCHANGED <<rows, inv>>
    BY <1>9 DEF FinishRepost, FinishReformat, Crash
  <2>. QED
    BY <1>2, <2>1
<1>10. CASE UserStep
  <2>1. /\ inv' = inv + 1 /\ verdict' = "none"
        /\ rows' \in {rows, [c \in Cells |-> NoRow]}
    BY <1>10 DEF UserStep, StartRun, StartRepost, StartReformat
  <2>2. inv \in Nat /\ \A c \in Cells : rows[c].payload.inv \in Nat
    BY <1>1 DEF TypeOK, GhostsOK, StoreOK, Row, Payload, NoPayload
  <2>3. \A c \in Cells : rows'[c].payload.inv < inv'
    BY <2>1, <2>2 DEF FailFastInv, NoRow, NoPayload
  <2>4. \A c \in Cells : rows'[c].payload.inv \in Nat
    BY <2>1, <2>2 DEF NoRow, NoPayload
  <2>. QED
    BY <2>1, <2>2, <2>3, <2>4 DEF FailFastInv, FailFastRunsRaise, OwnParseError
<1>11. CASE UNCHANGED vars
  BY <1>11 DEF vars, FailFastInv, FailFastRunsRaise, OwnParseError
<1>. QED
  BY <1>3, <1>4, <1>5, <1>6, <1>7, <1>8, <1>9, <1>10, <1>11
  DEF Next, ProgramStep, PostStep, ReformatStep

\* With fail_fast, a run that stored an extraction error of its own never says
\* it succeeded, in whichever chunk it met it: the error is kept until the end
\* of the chunk and asked for there (orchestrator.py:228-381, 986-987).
THEOREM FailFastIsHeard == Spec => []FailFastRunsRaise
<1>1. Init => FailFastInv
  BY DEF Init, FailFastInv, FailFastRunsRaise, OwnParseError, NoRow, NoPayload
<1>2. PhaseInv /\ FailFastInv /\ [Next]_vars => FailFastInv'
  BY FailFastNext
<1>3. FailFastInv => FailFastRunsRaise
  BY DEF FailFastInv
<1>. QED
  BY PhasesHold, <1>1, <1>2, <1>3, PTL DEF Spec

---------------------------------------------------------------------------
(* Completeness.  At every point of a run, a cell of its chunk is done or  *)
(* still in the hands of the step that will do it.                         *)

Done(c) == Finished(rows[c]) \/ c \in refused

InHand(c) ==
    \/ pc = "boundary"
    \/ pc = "noocr" /\ (c \in todo \/ c[1] \in texts)
    \/ pc \in {"pass1", "p1save", "p1poll", "p1dump"} /\ CidOf(c) \in pending
    \/ pc = "p1drop" /\ (c \in todo \/ CidOf(c) \in ToFormat)
    \/ pc = "pass2" /\ CidOf(c) \in ToFormat
    \/ pc = "p2drop" /\ (c \in todo \/ (CidOf(c) \in pending /\ p2[CidOf(c)] # 0))
    \/ pc = "tail" /\ c \in todo

CompleteInv ==
    /\ (mode = "run" /\ pc # "idle") =>
          \A c \in Cells : c[1] \in scope =>
              /\ ChunkOf(c[1]) < chunk => Done(c)
              /\ ChunkOf(c[1]) = chunk => Done(c) \/ InHand(c)
    /\ SucceededMeansComplete

\* What a run has done it does not undo.
LEMMA DoneStays ==
    ASSUME PhaseInv, [Next]_vars, mode = "run", pc # "idle", NEW c \in Cells, Done(c)
    PROVE  Done(c)'
<1>. USE DEF EndProcess, EndPass1, EndPass2
<1>1. TypeOK
  BY DEF PhaseInv
<1>2. refused \subseteq refused'
  <2>1. CASE \/ Cancel \/ ResolveTexts \/ BeginPass1 \/ Park \/ BeginTail \/ Pass1Step \/ Pass2Step
    BY <2>1, PassFrame
  <2>2. CASE WriteStep
    BY <2>2
    DEF WriteStep, SaveNoOcr, DropP1, DropP2, MarkDropped, SaveReply, ReplyRefused, RewriteRow
  <2>3. CASE PostStep
    BY <2>3 DEF PostStep, BeginPost, SendPaper, ReadPaper, PrintPaper, SendFails, MarkPaper,
                NextChunk, FinishRun, FinishRepost
  <2>4. CASE ReformatStep \/ Crash \/ UNCHANGED vars
    BY <2>4 DEF ReformatStep, ReformatFails, ReformatGroup, FinishReformat, Crash, vars
  <2>5. CASE UserStep
    BY <2>5 DEF UserStep, StartRun, StartRepost, StartReformat
  <2>. QED
    BY <2>1, <2>2, <2>3, <2>4, <2>5 DEF Next, ProgramStep
<1>3. CASE rows' = rows
  BY <1>2, <1>3 DEF Done
<1>4. CASE \E d \in Cells : Saving(d)
  <2>1. PICK d, kind, text, fmt :
           d \in Cells /\ kind \in Kinds /\ Save(d, NewPayload(kind, text, fmt))
    BY <1>4, SavingSaves
  <2>2. NewPayload(kind, text, fmt) # NoPayload
    BY <2>1 DEF NewPayload, NoPayload, Kinds, ProviderErrors, FinalErrors
  <2>. QED
    BY <1>1, <1>2, <2>1, <2>2, SavedRow DEF Done, Finished
<1>5. CASE \E d \in Cells : MarkDropped(d)
  <2>1. PICK d \in Cells : MarkDropped(d)
    BY <1>5
  <2>. QED
    BY <1>1, <1>2, <2>1, MarkDroppedRow DEF Done, Finished
<1>6. CASE \E p \in Papers : MarkPaper(p)
  BY <1>1, <1>2, <1>6, MarkPaperRow DEF Done, Finished
<1>7. ~\E d \in Cells : RewriteRow(d)
  BY DEF RewriteRow, PhaseInv
<1>. QED
  BY <1>3, <1>4, <1>5, <1>6, <1>7, RowsWritten

\* The run goes on with the same chunk, or fails.
LEMMA CompleteStays ==
    ASSUME PhaseInv, CompleteInv, [Next]_vars, mode = "run", pc # "idle",
           UNCHANGED <<mode, scope, chunk>>, verdict' # "succeeded",
           \A c \in Cells : (ChunkOf(c[1]) = chunk /\ c[1] \in scope /\ InHand(c)) =>
               pc' = "idle" \/ Done(c)' \/ InHand(c)'
    PROVE  CompleteInv'
<1>1. \A c \in Cells : ChunkOf(c[1])' = ChunkOf(c[1])
  BY ChunkPapersKept DEF Cells
<1>2. \A c \in Cells : Done(c) => Done(c)'
  BY DoneStays
<1>. QED
  BY <1>1, <1>2 DEF CompleteInv, SucceededMeansComplete

LEMMA CompletePass1 ==
    ASSUME PhaseInv, RowsSound, BeginPass1 \/ Pass1Step \/ BeginPass2,
           NEW c \in Cells, InHand(c)
    PROVE  pc' = "idle" \/ Done(c)' \/ InHand(c)'
<1>. USE DEF EndProcess, EndPass1
<1>1. CidOf(c) \in Cids /\ c \in CellsOf(CidOf(c)) /\ CidOf(c)[1] = c[1]
  BY CidOfType DEF CellsOf, CidOf
<1>2. CASE BeginPass1
  <2>1. c[1] \in texts /\ pc' = "pass1" /\ rows' = rows
        /\ pending' = {cid \in Cids : /\ cid[1] \in texts
                                      /\ \E d \in CellsOf(cid) : ~ShouldSkip(rows[d])}
    BY <1>2 DEF BeginPass1, InHand
  <2>2. CASE CidOf(c) \in pending'
    BY <2>1, <2>2 DEF InHand
  <2>3. CASE CidOf(c) \notin pending'
    <3>1. ShouldSkip(rows[c])
      BY <1>1, <2>1, <2>3
    <3>. QED
      BY <2>1, <3>1 DEF ShouldSkip, Done, Finished, RowsSound
  <2>. QED
    BY <2>2, <2>3
<1>3. CASE Pass1Online \/ Pass1Aborts \/ Pass1FromDump \/ Pass1Nothing \/ DumpP1
  <2>1. CidOf(c) \in pending /\ pc' = "p1drop" /\ pending' = pending
        /\ todo' = CellsIn({cid \in pending : p1'[cid] = 0})
    BY <1>3 DEF Pass1Online, Pass1Aborts, Pass1FromDump, Pass1Nothing, DumpP1, InHand
  <2>. QED
    BY <2>1 DEF InHand, ToFormat, CellsIn
<1>4. CASE SubmitP1 \/ SaveP1Id \/ ResumeP1 \/ CollectP1
  <2>1. CidOf(c) \in pending /\ pc' \in {"p1save", "p1poll", "p1dump"} /\ pending' = pending
    BY <1>4 DEF SubmitP1, SaveP1Id, ResumeP1, CollectP1, InHand
  <2>. QED
    BY <2>1 DEF InHand
<1>5. CASE BatchP1Fails
  BY <1>5 DEF BatchP1Fails
<1>6. CASE BeginPass2
  BY <1>6 DEF BeginPass2, InHand, ToFormat
<1>. QED
  BY <1>2, <1>3, <1>4, <1>5, <1>6 DEF Pass1Step

\* Calls made one by one all come to a reply or to an error.
LEMMA CompletePass2 ==
    ASSUME ~BatchP2, PhaseInv, Pass2Step \/ BeginTail, NEW c \in Cells, InHand(c)
    PROVE  pc' = "idle" \/ Done(c)' \/ InHand(c)'
<1>. USE DEF EndProcess, EndPass2
<1>1. CidOf(c) \in Cids /\ ~UsesBatchP2
  BY CidOfType DEF UsesBatchP2
<1>2. CASE BeginPass2
  BY <1>2 DEF BeginPass2, InHand, ToFormat
<1>3. CASE Pass2Online
  <2>1. CidOf(c) \in ToFormat
    BY <1>3 DEF Pass2Online, InHand
  <2>2. PICK ok \in SUBSET ToFormat :
           /\ p2' = [cid \in Cids |-> IF cid \in ok THEN p1[cid] ELSE 0]
           /\ todo' = CellsIn((ToFormat \ ok) \cap pending)
    BY <1>3 DEF Pass2Online
  <2>3. pc' = "p2drop" /\ pending' = pending
    BY <1>3 DEF Pass2Online
  <2>4. CASE CidOf(c) \in ok
    BY <1>1, <2>1, <2>2, <2>3, <2>4 DEF InHand, ToFormat
  <2>5. CASE CidOf(c) \notin ok
    BY <1>1, <2>1, <2>2, <2>3, <2>5 DEF InHand, ToFormat, CellsIn
  <2>. QED
    BY <2>4, <2>5
<1>4. CASE BeginTail
  BY <1>4 DEF BeginTail, InHand, CellsIn
<1>5. CASE BatchP2Fails
  BY <1>5 DEF BatchP2Fails
<1>6. CASE SaveP2Id \/ CollectP2
  BY <1>6 DEF SaveP2Id, CollectP2, InHand
<1>. QED
  BY <1>1, <1>2, <1>3, <1>4, <1>5, <1>6 DEF Pass2Step, Pass2Nothing, SubmitP2, ResumeP2

LEMMA CompleteWrites ==
    ASSUME PhaseInv, mode = "run", WriteStep, NEW c \in Cells, InHand(c)
    PROVE  Done(c)' \/ InHand(c)'
<1>1. PICK d \in Cells : \/ SaveNoOcr(d) \/ DropP1(d) \/ DropP2(d) \/ MarkDropped(d)
                         \/ SaveReply(d) \/ ReplyRefused(d) \/ RewriteRow(d)
  BY DEF WriteStep
<1>2. TypeOK /\ ~RewriteRow(d)
  BY DEF PhaseInv, RewriteRow
<1>3. UNCHANGED <<pc, texts, pending, p1, p2>> /\ todo' \in {todo, todo \ {d}}
  BY <1>1, <1>2 DEF SaveNoOcr, DropP1, DropP2, MarkDropped, SaveReply, ReplyRefused
<1>4. CASE c # d \/ MarkDropped(d)
  <2>1. c \in todo => c \in todo'
    BY <1>3, <1>4 DEF MarkDropped
  <2>. QED
    BY <1>3, <2>1 DEF InHand, ToFormat
<1>5. CASE c = d /\ ReplyRefused(d)
  BY <1>5 DEF ReplyRefused, Done
<1>6. CASE c = d /\ Saving(d)
  <2>1. PICK kind, text, fmt : kind \in Kinds /\ Save(d, NewPayload(kind, text, fmt))
    BY <1>6, SavingSaves
  <2>2. NewPayload(kind, text, fmt) # NoPayload
    BY <2>1 DEF NewPayload, NoPayload, Kinds, ProviderErrors, FinalErrors
  <2>. QED
    BY <1>2, <1>6, <2>1, <2>2, SavedRow DEF Done, Finished
<1>. QED
  BY <1>1, <1>2, <1>4, <1>5, <1>6 DEF Saving

LEMMA CompleteNext ==
    ASSUME ~BatchP2, PhaseInv, PhaseInv', RowsSound, CompleteInv, [Next]_vars
    PROVE  CompleteInv'
<1>1. /\ TypeOK /\ (pc # "idle" => verdict = "none")
      /\ scope \subseteq Papers /\ chunk \in Nat
      /\ \A c \in Cells : c[1] \in scope => ChunkOf(c[1]) \in Nat
  BY ChunkOfPaper, SizesAreNat DEF PhaseInv, TypeOK, ControlOK, Cells, Chunks
<1>2. ASSUME mode' # "run" \/ (pc' = "idle" /\ verdict' # "succeeded")
      PROVE  CompleteInv'
  BY <1>2 DEF CompleteInv, SucceededMeansComplete
<1>3. CASE \/ BeginPass1 \/ Park \/ BeginTail \/ Pass1Step \/ Pass2Step
           \/ Cancel \/ ResolveTexts
  <2>1. /\ UNCHANGED <<mode, scope, chunk>> /\ pc # "idle" /\ verdict' # "succeeded"
    BY <1>1, <1>3, PassFrame DEF PassPhases
  <2>2. CASE Cancel \/ Park
    BY <1>2, <2>2 DEF Cancel, Park, EndProcess
  <2>3. CASE ResolveTexts
    <3>1. ASSUME NEW c \in Cells, c[1] \in scope, ChunkOf(c[1]) = chunk
          PROVE  InHand(c)'
      <4>1. c[1] \in ChunkPaperSet
        BY <3>1 DEF ChunkPaperSet
      <4>2. pc' = "noocr" /\ texts' = ChunkPaperSet \cap ocr'
            /\ todo' = {d \in Cells : d[1] \in ChunkPaperSet \ ocr'}
        BY <2>3 DEF ResolveTexts
      <4>. QED
        BY <4>1, <4>2 DEF InHand
    <3>2. CASE mode = "run"
      BY <2>1, <3>1, <3>2, CompleteStays
    <3>. QED
      BY <1>2, <2>1, <3>2
  <2>4. CASE \/ BeginPass1 \/ BeginTail \/ Pass1Step \/ Pass2Step
    <3>1. CASE mode = "run"
      BY <2>1, <2>4, <3>1, CompletePass1, CompletePass2, CompleteStays
    <3>. QED
      BY <1>2, <2>1, <3>1
  <2>. QED
    BY <1>3, <2>2, <2>3, <2>4
<1>4. CASE WriteStep
  <2>1. CASE mode = "run"
    <3>1. UNCHANGED <<mode, scope, chunk, verdict>> /\ pc # "idle"
      BY <1>4, <2>1, WriteFrame DEF PassPhases
    <3>. QED
      BY <1>1, <1>4, <2>1, <3>1, CompleteWrites, CompleteStays
  <2>2. CASE mode # "run"
    <3>1. mode' = mode
      BY <1>4
      DEF WriteStep, SaveNoOcr, DropP1, DropP2, MarkDropped, SaveReply, ReplyRefused, RewriteRow
    <3>. QED
      BY <1>2, <2>2, <3>1
  <2>. QED
    BY <2>1, <2>2
<1>5. CASE \/ BeginPost \/ SendPaper
           \/ \E p \in Papers : ReadPaper(p) \/ PrintPaper(p) \/ SendFails(p) \/ MarkPaper(p)
  <2>1. /\ UNCHANGED <<mode, scope, chunk>> /\ pc # "idle" /\ verdict' # "succeeded"
        /\ \A c \in Cells : ~InHand(c)
    BY <1>1, <1>5
    DEF BeginPost, SendPaper, ReadPaper, PrintPaper, SendFails, MarkPaper, EndProcess, InHand
  <2>2. CASE mode = "run"
    BY <2>1, <2>2, CompleteStays
  <2>. QED
    BY <1>2, <2>1, <2>2
<1>6. CASE NextChunk
  <2>1. /\ pc = "post" /\ pc' = "boundary" /\ chunk' = chunk + 1
        /\ UNCHANGED <<rows, refused, mode, scope, verdict>>
    BY <1>6 DEF NextChunk
  <2>2. \A c \in Cells : ChunkOf(c[1])' = ChunkOf(c[1]) /\ (Done(c)' <=> Done(c)) /\ ~InHand(c)
    BY <2>1 DEF ChunkOf, Done, InHand
  <2>3. \A c \in Cells : InHand(c)'
    BY <2>1 DEF InHand
  <2>4. mode = "run" => \A c \in Cells : (c[1] \in scope /\ ChunkOf(c[1]) < chunk + 1) => Done(c)
    BY <1>1, <2>1, <2>2 DEF CompleteInv
  <2>. QED
    BY <1>1, <2>1, <2>2, <2>3, <2>4 DEF CompleteInv, SucceededMeansComplete
<1>7. CASE FinishRun
  <2>1. /\ pc = "post" /\ pc' = "idle" /\ UNCHANGED <<rows, refused, mode, scope>>
        /\ verdict' = "succeeded" => IsLastChunk
    BY <1>7 DEF FinishRun, EndProcess
  <2>2. \A c \in Cells : ~InHand(c)
    BY <2>1 DEF InHand
  <2>3. (mode = "run" /\ IsLastChunk) => \A c \in Cells : c[1] \in scope => Done(c)
    BY <1>1, <2>1, <2>2 DEF CompleteInv, IsLastChunk
  <2>. QED
    BY <2>1, <2>3 DEF CompleteInv, SucceededMeansComplete, Done
<1>8. CASE \/ FinishRepost \/ Crash
           \/ FinishReformat \/ \E cid \in Cids : ReformatFails(cid) \/ ReformatGroup(cid)
           \/ \E papers \in Scopes : StartRepost(papers) \/ StartReformat(papers)
  <2>1. mode' # "run" \/ (pc' = "idle" /\ verdict' # "succeeded")
    BY <1>8 DEF FinishRepost, Crash, EndProcess, ReformatFails, ReformatGroup, FinishReformat,
                IsReformatting, StartRepost, StartReformat, PhaseInv
  <2>. QED
    BY <1>2, <2>1
<1>9. CASE \E papers \in Scopes, command \in Commands : StartRun(command, papers)
  <2>1. verdict' = "none" /\ pc' = "boundary" /\ chunk' = 1
    BY <1>9 DEF StartRun
  <2>2. scope' \subseteq Papers
    BY DEF PhaseInv, TypeOK, ControlOK
  <2>3. \A c \in Cells : ChunkOf(c[1])' \in Nat /\ ChunkOf(c[1])' >= 1
    BY <2>2, ChunkNumbers DEF ChunkOf
  <2>4. \A c \in Cells : InHand(c)'
    BY <2>1 DEF InHand
  <2>. QED
    BY <2>1, <2>3, <2>4 DEF CompleteInv, SucceededMeansComplete
<1>10. CASE UNCHANGED vars
  <2>1. UNCHANGED <<rows, refused, pc, mode, scope, chunk, verdict, todo, texts, pending, p1, p2>>
    BY <1>10 DEF vars
  <2>2. \A c \in Cells : ChunkOf(c[1])' = ChunkOf(c[1])
    BY <2>1, ChunkPapersKept DEF Cells
  <2>3. \A c \in Cells : (Done(c)' <=> Done(c)) /\ (InHand(c)' <=> InHand(c))
    BY <2>1 DEF Done, InHand, ToFormat
  <2>. QED
    BY <2>1, <2>2, <2>3 DEF CompleteInv, SucceededMeansComplete
<1>. QED
  BY <1>3, <1>4, <1>5, <1>6, <1>7, <1>8, <1>9, <1>10
  DEF Next, ProgramStep, PostStep, ReformatStep, UserStep

\* Where Pass 2 is not batched, a run that says it succeeded has an answer for
\* every cell of its papers, or the store would take none: each phase answers
\* a cell or hands it to the next (orchestrator.py:766-987,
\* batch_runner.py:1063-1305, 1452-1568).
THEOREM SuccessIsComplete ==
    ASSUME ~BatchP2
    PROVE  Spec => []SucceededMeansComplete
<1>1. Init => CompleteInv
  BY DEF Init, CompleteInv, SucceededMeansComplete
<1>2. PhaseInv /\ PhaseInv' /\ RowsSound /\ CompleteInv /\ [Next]_vars => CompleteInv'
  BY CompleteNext
<1>3. CompleteInv => SucceededMeansComplete
  BY DEF CompleteInv
<1>. QED
  BY PhasesHold, RowsAreSound, <1>1, <1>2, <1>3, PTL DEF Spec

---------------------------------------------------------------------------
(* Counters.  They are kept by increments; the invariant compares them     *)
(* with the sets they count.                                               *)

CountInv ==
    (mode \in {"run", "dry"} /\ pc # "idle") =>
        /\ \A c \in Cells : seen[c] = IF c[1] \in scope /\ rows[c].payload # NoPayload
                                      THEN Verdict(rows[c].payload)
                                      ELSE "new"
        /\ cellsDone = Cardinality({c \in Cells : seen[c] # "new"})
        /\ cellsError = Cardinality({c \in Cells : seen[c] = "error"})

LEMMA CountStays ==
    ASSUME CountInv, mode \in {"run", "dry"}, pc # "idle",
           UNCHANGED <<scope, seen, cellsDone, cellsError>>,
           \A c \in Cells : rows'[c].payload = rows[c].payload
    PROVE  CountInv'
BY DEF CountInv

\* One more answer: the counters follow the sets.
LEMMA CountSaves ==
    ASSUME TypeOK, CountInv, mode \in {"run", "dry"}, pc # "idle", UNCHANGED scope,
           NEW c \in Cells, c[1] \in scope, NEW payload, payload # NoPayload, Save(c, payload)
    PROVE  CountInv'
<1>. DEFINE D == {d \in Cells : seen[d] # "new"}
            E == {d \in Cells : seen[d] = "error"}
<1>1. /\ rows'[c].payload = payload /\ \A d \in Cells : d # c => rows'[d] = rows[d]
  BY SavedRow
<1>2. /\ seen \in [Cells -> {"new", "ok", "error"}]
      /\ seen' = [seen EXCEPT ![c] = Verdict(payload)]
      /\ cellsDone' = IF seen[c] = "new" THEN cellsDone + 1 ELSE cellsDone
      /\ cellsError' = cellsError - (IF seen[c] = "error" THEN 1 ELSE 0)
                                  + (IF IsError(payload) THEN 1 ELSE 0)
  BY DEF Save, CountPayload, TypeOK, LocalsOK
<1>3. Verdict(payload) = IF IsError(payload) THEN "error" ELSE "ok"
  BY DEF Verdict
<1>4. cellsDone = Cardinality(D) /\ cellsError = Cardinality(E)
  BY DEF CountInv
<1>5. IsFiniteSet(D) /\ IsFiniteSet(E) /\ Cardinality(D) \in Nat /\ Cardinality(E) \in Nat
  <2>1. D \subseteq Cells /\ E \subseteq Cells
    OBVIOUS
  <2>. QED
    BY <2>1, CellsAreFinite, FS_Subset, FS_CardinalityType
<1>6. \A d \in Cells : seen'[d] = IF d = c THEN Verdict(payload) ELSE seen[d]
  BY <1>2
<1>7. cellsDone' = Cardinality({d \in Cells : seen'[d] # "new"})
  <2>1. {d \in Cells : seen'[d] # "new"} = D \union {c}
    BY <1>3, <1>6
  <2>2. Cardinality(D \union {c}) = IF c \in D THEN Cardinality(D) ELSE Cardinality(D) + 1
    BY <1>5, FS_AddElement
  <2>3. c \in D <=> seen[c] # "new"
    OBVIOUS
  <2>. HIDE DEF D
  <2>. QED
    BY <1>2, <1>4, <2>1, <2>2, <2>3
<1>8. cellsError' = Cardinality({d \in Cells : seen'[d] = "error"})
  <2>1. c \in E <=> seen[c] = "error"
    OBVIOUS
  <2>2. CASE IsError(payload)
    <3>1. {d \in Cells : seen'[d] = "error"} = E \union {c}
      BY <1>3, <1>6, <2>2
    <3>2. Cardinality(E \union {c}) = IF c \in E THEN Cardinality(E) ELSE Cardinality(E) + 1
      BY <1>5, FS_AddElement
    <3>3. cellsError' = cellsError - (IF c \in E THEN 1 ELSE 0) + 1
      BY <1>2, <2>1, <2>2
    <3>. HIDE DEF E
    <3>4. Cardinality(E \union {c}) = Cardinality(E) - (IF c \in E THEN 1 ELSE 0) + 1
      BY <1>5, <3>2
    <3>. QED
      BY <1>4, <3>1, <3>3, <3>4
  <2>3. CASE ~IsError(payload)
    <3>1. {d \in Cells : seen'[d] = "error"} = E \ {c}
      BY <1>3, <1>6, <2>3
    <3>2. Cardinality(E \ {c}) = IF c \in E THEN Cardinality(E) - 1 ELSE Cardinality(E)
      BY <1>5, FS_RemoveElement
    <3>3. cellsError' = cellsError - (IF c \in E THEN 1 ELSE 0) + 0
      BY <1>2, <2>1, <2>3
    <3>. HIDE DEF E
    <3>4. Cardinality(E \ {c}) = Cardinality(E) - (IF c \in E THEN 1 ELSE 0) + 0
      BY <1>5, <3>2
    <3>. QED
      BY <1>4, <3>1, <3>3, <3>4
  <2>. QED
    BY <2>2, <2>3
<1>9. \A d \in Cells : seen'[d] = IF d[1] \in scope' /\ rows'[d].payload # NoPayload
                                  THEN Verdict(rows'[d].payload)
                                  ELSE "new"
  BY <1>1, <1>6 DEF CountInv
<1>. QED
  BY <1>7, <1>8, <1>9 DEF CountInv

LEMMA CountWrites ==
    ASSUME PhaseInv, CountInv, mode \in {"run", "dry"}, WriteStep
    PROVE  CountInv'
<1>1. PICK c \in Cells : \/ SaveNoOcr(c) \/ DropP1(c) \/ DropP2(c) \/ MarkDropped(c)
                         \/ SaveReply(c) \/ ReplyRefused(c) \/ RewriteRow(c)
  BY DEF WriteStep
<1>2. TypeOK /\ ~RewriteRow(c) /\ pc # "idle" /\ UNCHANGED scope
  BY WriteFrame DEF PhaseInv, RewriteRow, PassPhases
<1>3. CASE MarkDropped(c) \/ ReplyRefused(c)
  <2>1. UNCHANGED <<scope, seen, cellsDone, cellsError>>
        /\ \A d \in Cells : rows'[d].payload = rows[d].payload
    BY <1>2, <1>3, MarkDroppedRow DEF MarkDropped, ReplyRefused
  <2>. QED
    BY <1>2, <2>1, CountStays
<1>4. CASE Saving(c)
  <2>1. PICK kind, text, fmt : kind \in Kinds /\ Save(c, NewPayload(kind, text, fmt))
    BY <1>4, SavingSaves
  <2>2. NewPayload(kind, text, fmt) # NoPayload
    BY <2>1 DEF NewPayload, NoPayload, Kinds, ProviderErrors, FinalErrors
  <2>3. c[1] \in scope
    BY <1>2, <1>4
    DEF Saving, SaveNoOcr, DropP1, DropP2, SaveReply, FirstOf, PhaseInv, WithinChunk, ChunkPaperSet
  <2>. QED
    BY <1>2, <2>1, <2>2, <2>3, CountSaves
<1>. QED
  BY <1>1, <1>2, <1>3, <1>4 DEF Saving

LEMMA CountNext ==
    ASSUME PhaseInv, RowsSound, CountInv, [Next]_vars
    PROVE  CountInv'
<1>1. TypeOK /\ (toMark # {} => pc # "idle")
  BY DEF PhaseInv
<1>2. ASSUME mode' \notin {"run", "dry"} \/ pc' = "idle" PROVE CountInv'
  BY <1>2 DEF CountInv
<1>3. ASSUME UNCHANGED <<mode, scope, seen, cellsDone, cellsError>>, pc # "idle",
             \A c \in Cells : rows'[c].payload = rows[c].payload
      PROVE  CountInv'
  BY <1>2, <1>3, CountStays
<1>4. CASE \/ Cancel \/ ResolveTexts \/ BeginPass1 \/ Park \/ BeginTail \/ Pass1Step \/ Pass2Step
  BY <1>3, <1>4, PassFrame DEF PassPhases
<1>5. CASE WriteStep
  <2>1. CASE mode \in {"run", "dry"}
    BY <1>5, <2>1, CountWrites
  <2>2. CASE mode \notin {"run", "dry"}
    <3>1. mode' = mode
      BY <1>5
      DEF WriteStep, SaveNoOcr, DropP1, DropP2, MarkDropped, SaveReply, ReplyRefused, RewriteRow
    <3>. QED
      BY <1>2, <2>2, <3>1
  <2>. QED
    BY <2>1, <2>2
<1>6. CASE \/ BeginPost \/ SendPaper \/ NextChunk \/ FinishRun \/ FinishRepost
           \/ \E p \in Papers : ReadPaper(p) \/ PrintPaper(p) \/ SendFails(p)
  <2>1. UNCHANGED <<rows, mode, scope, seen, cellsDone, cellsError>> /\ pc # "idle"
    BY <1>6 DEF BeginPost, SendPaper, NextChunk, FinishRun, FinishRepost, ReadPaper, PrintPaper,
                SendFails, EndProcess
  <2>. QED
    BY <1>3, <2>1
<1>7. CASE \E p \in Papers : MarkPaper(p)
  <2>1. UNCHANGED <<mode, scope, seen, cellsDone, cellsError>> /\ pc # "idle"
    BY <1>7 DEF MarkPaper
  <2>. QED
    BY <1>1, <1>3, <1>7, <2>1, MarkPaperRow
<1>8. CASE \/ ReformatStep \/ Crash
           \/ \E papers \in Scopes : StartRepost(papers) \/ StartReformat(papers)
  <2>1. mode' \notin {"run", "dry"} \/ pc' = "idle"
    BY <1>8 DEF ReformatStep, ReformatFails, ReformatGroup, FinishReformat, IsReformatting, Crash,
                EndProcess, StartRepost, StartReformat, PhaseInv
  <2>. QED
    BY <1>2, <2>1
<1>9. CASE \E papers \in Scopes, command \in Commands : StartRun(command, papers)
  <2>1. PICK papers \in Scopes, command \in Commands : StartRun(command, papers)
    BY <1>9
  <2>2. rows' = [c \in Cells |-> NoRow] \/ rows' = rows
    BY <2>1 DEF StartRun
  <2>3. SeedCounters(rows', papers) /\ scope' = papers
    BY <2>1 DEF StartRun
  <2>4. \A c \in Cells : Finished(rows'[c]) <=> rows'[c].payload # NoPayload
    BY <2>2 DEF Finished, RowsSound, NoRow
  <2>5. \A c \in Cells : seen'[c] = IF c[1] \in papers /\ Finished(rows'[c])
                                    THEN Verdict(rows'[c].payload)
                                    ELSE "new"
    BY <2>3 DEF SeedCounters
  <2>6. /\ cellsDone' = Cardinality({c \in Cells : seen'[c] # "new"})
        /\ cellsError' = Cardinality({c \in Cells : seen'[c] = "error"})
    BY <2>3 DEF SeedCounters
  <2>. QED
    BY <2>3, <2>4, <2>5, <2>6 DEF CountInv
<1>10. CASE UNCHANGED vars
  BY <1>10 DEF vars, CountInv
<1>. QED
  BY <1>4, <1>5, <1>6, <1>7, <1>8, <1>9, <1>10 DEF Next, ProgramStep, PostStep, UserStep

\* While a run is in progress, what it reports is what the table holds of its
\* papers: a resumed run starts from what it finds, and a cell answered again
\* is counted once, with its last verdict (orchestrator.py:658-666, 713-726).
THEOREM CountersAreTrue == Spec => []CountersMatchStore
<1>1. Init => CountInv
  BY DEF Init, CountInv
<1>2. PhaseInv /\ RowsSound /\ CountInv /\ [Next]_vars => CountInv'
  BY CountNext
<1>3. ASSUME RowsSound, CountInv PROVE CountersMatchStore
  <2>1. SUFFICES ASSUME pc # "idle", mode \in {"run", "dry"}
                 PROVE  LET finished == {c \in Cells : c[1] \in scope /\ Finished(rows[c])}
                        IN  /\ cellsDone = Cardinality(finished)
                            /\ cellsError = Cardinality({c \in finished : IsError(rows[c].payload)})
    BY DEF CountersMatchStore
  <2>2. \A c \in Cells : /\ seen[c] # "new" <=> (c[1] \in scope /\ Finished(rows[c]))
                         /\ seen[c] = "error" <=> /\ c[1] \in scope /\ Finished(rows[c])
                                                  /\ IsError(rows[c].payload)
    BY <1>3, <2>1 DEF CountInv, RowsSound, Finished, Verdict
  <2>3. /\ {c \in Cells : seen[c] # "new"} = {c \in Cells : c[1] \in scope /\ Finished(rows[c])}
        /\ {c \in Cells : seen[c] = "error"}
             = {c \in {d \in Cells : d[1] \in scope /\ Finished(rows[d])} : IsError(rows[c].payload)}
    BY <2>2
  <2>. QED
    BY <1>3, <2>1, <2>3 DEF CountInv
<1>. QED
  BY PhasesHold, RowsAreSound, <1>1, <1>2, <1>3, PTL DEF Spec
=============================================================================
