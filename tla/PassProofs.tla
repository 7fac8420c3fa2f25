------------------------- MODULE PassProofs -------------------------
(***************************************************************************)
(* The passes of a run: the batches they leave behind and the texts they   *)
(* carry from one invocation to the next.                                  *)
(***************************************************************************)
EXTENDS RunPipelineProofs

USE DEF durable, seer, control, passes, flags, counts, ghosts, bounds

---------------------------------------------------------------------------
(* Batches.  A batch is in flight from the call that submits it; its id is *)
(* saved by the next transaction and deleted with its end.  A process      *)
(* killed between the two leaves it in flight for good.                    *)

AtBatch == pc \in {"p1save", "p1poll", "p2save", "p2poll"}

BatchesSound ==
    /\ \A k \in Chunks : \/ pc = "p1save" /\ k = chunk
                         \/ live1[k] - Recorded(kv1[k] # {}) \in 0..crashes
    /\ \A k \in Chunks : \/ pc = "p2save" /\ k = chunk
                         \/ live2[k] - Recorded(kv2[k] # NoTexts) \in 0..crashes
    /\ pc = "p1save" => kv1[chunk] = {} /\ live1[chunk] - 1 \in 0..crashes /\ pending # {}
    /\ pc = "p2save" => kv2[chunk] = NoTexts /\ live2[chunk] - 1 \in 0..crashes /\ ToFormat # {}
    /\ pc = "p1poll" => kv1[chunk] # {}
    /\ pc = "p2poll" => kv2[chunk] # NoTexts

BatchInv == TypeOK /\ BatchesSound

\* The steps that make a batch, look for it or end it.
BatchStep ==
    \/ SubmitP1 \/ SaveP1Id \/ ResumeP1 \/ BatchP1Fails \/ CollectP1
    \/ SubmitP2 \/ SaveP2Id \/ ResumeP2 \/ BatchP2Fails \/ CollectP2

\* Apart from those and a crash, batches are left alone.
LEMMA OutsideBatches ==
    ASSUME [Next]_vars, ~BatchStep, ~Crash
    PROVE  /\ UNCHANGED <<kv1, kv2, live1, live2, crashes>>
           /\ \/ ~AtBatch' /\ pc \notin {"p1save", "p2save"}
              \/ UNCHANGED <<pc, chunk, pending, p1>>
<1>. USE DEF AtBatch, Mishap, EndProcess, EndPass1, EndPass2, NoteQuota
<1>1. CASE \/ Cancel \/ ResolveTexts \/ BeginPass1 \/ Park \/ BeginTail
  BY <1>1 DEF Cancel, ResolveTexts, BeginPass1, Park, BeginTail
<1>2. CASE Pass1Online \/ Pass1Aborts \/ Pass1FromDump \/ Pass1Nothing \/ DumpP1
  BY <1>2 DEF Pass1Online, Pass1Aborts, Pass1FromDump, Pass1Nothing, DumpP1
<1>3. CASE BeginPass2 \/ Pass2Online \/ Pass2Nothing
  BY <1>3 DEF BeginPass2, Pass2Online, Pass2Nothing
<1>4. CASE \E c \in Cells : SaveNoOcr(c) \/ DropP1(c) \/ DropP2(c) \/ MarkDropped(c)
  BY <1>4 DEF SaveNoOcr, DropP1, DropP2, MarkDropped
<1>5. CASE \E c \in Cells : SaveReply(c) \/ ReplyRefused(c) \/ RewriteRow(c)
  BY <1>5 DEF SaveReply, ReplyRefused, RewriteRow
<1>6. CASE BeginPost \/ SendPaper \/ NextChunk \/ FinishRun \/ FinishRepost
  BY <1>6 DEF BeginPost, SendPaper, NextChunk, FinishRun, FinishRepost
<1>7. CASE \E p \in Papers : ReadPaper(p) \/ PrintPaper(p) \/ SendFails(p) \/ MarkPaper(p)
  BY <1>7 DEF ReadPaper, PrintPaper, SendFails, MarkPaper
<1>8. CASE ReformatStep
  BY <1>8 DEF ReformatStep, ReformatFails, ReformatGroup, FinishReformat, IsReformatting
<1>9. CASE UserStep
  BY <1>9 DEF UserStep, StartRun, StartRepost, StartReformat
<1>10. CASE UNCHANGED vars
  BY <1>10 DEF vars
<1>. QED
  BY <1>1, <1>2, <1>3, <1>4, <1>5, <1>6, <1>7, <1>8, <1>9, <1>10
  DEF Next, ProgramStep, Pass1Step, Pass2Step, WriteStep, PostStep, BatchStep

\* Steps with a chunk's own batch leave those of the other chunks alone.
LEMMA BatchStepSound ==
    ASSUME TypeOK, TypeOK', BatchesSound, BatchStep
    PROVE  BatchesSound'
<1>. USE DEF Mishap, NoteQuota, EndProcess, EndPass2, ForgetBatchP1, ForgetBatchP2, Recorded
<1>1. /\ chunk \in Chunks /\ chunk' = chunk /\ crashes \in Nat /\ crashes' = crashes
      /\ kv1 \in [Chunks -> SUBSET Cids] /\ live1 \in [Chunks -> Int]
      /\ kv2 \in [Chunks -> [Cids -> Nat]] /\ live2 \in [Chunks -> Int]
  BY DEF BatchStep, SubmitP1, SaveP1Id, ResumeP1, BatchP1Fails, CollectP1, SubmitP2, SaveP2Id,
         ResumeP2, BatchP2Fails, CollectP2, TypeOK, ControlOK, StoreOK, GhostsOK
<1>2. CASE SubmitP1
  BY <1>1, <1>2 DEF SubmitP1, BatchesSound
<1>3. CASE SaveP1Id
  BY <1>1, <1>3 DEF SaveP1Id, BatchesSound
<1>4. CASE ResumeP1
  BY <1>1, <1>4 DEF ResumeP1, BatchesSound
<1>5. CASE BatchP1Fails
  BY <1>1, <1>5 DEF BatchP1Fails, BatchesSound
<1>6. CASE CollectP1
  BY <1>1, <1>6 DEF CollectP1, BatchesSound
<1>7. CASE SubmitP2
  BY <1>1, <1>7 DEF SubmitP2, BatchesSound, ToFormat
<1>8. CASE SaveP2Id
  <2>. DEFINE asked == [cid \in Cids |-> IF cid \in ToFormat THEN p1[cid] ELSE 0]
  <2>1. PICK cid \in ToFormat : cid \in Cids /\ p1[cid] # 0
    BY <1>8 DEF SaveP2Id, BatchesSound, ToFormat, TypeOK, LocalsOK
  <2>2. asked # NoTexts
    BY <2>1 DEF NoTexts
  <2>3. /\ kv2' = [kv2 EXCEPT ![chunk] = asked]
        /\ pc = "p2save" /\ pc' = "p2poll" /\ UNCHANGED <<kv1, live1, live2>>
    BY <1>8 DEF SaveP2Id
  <2>. HIDE DEF asked
  <2>. QED
    BY <1>1, <2>2, <2>3 DEF BatchesSound
<1>9. CASE ResumeP2
  BY <1>1, <1>9 DEF ResumeP2, BatchesSound
<1>10. CASE BatchP2Fails
  BY <1>1, <1>10 DEF BatchP2Fails, BatchesSound
<1>11. CASE CollectP2
  BY <1>1, <1>11 DEF CollectP2, BatchesSound
<1>. QED
  BY <1>2, <1>3, <1>4, <1>5, <1>6, <1>7, <1>8, <1>9, <1>10, <1>11 DEF BatchStep

LEMMA BatchNext == ASSUME BatchInv, [Next]_vars PROVE BatchInv'
<1>1. TypeOK /\ TypeOK'
  BY TypeNext DEF BatchInv
<1>2. CASE BatchStep
  BY <1>1, <1>2, BatchStepSound DEF BatchInv
<1>3. CASE Crash
  <2>1. /\ UNCHANGED <<kv1, kv2, live1, live2, chunk>> /\ pc' = "idle" /\ crashes' = crashes + 1
        /\ crashes \in Nat /\ live1 \in [Chunks -> Int] /\ live2 \in [Chunks -> Int]
    BY <1>1, <1>3 DEF Crash, EndProcess, TypeOK, GhostsOK
  <2>2. ASSUME NEW k \in Chunks
        PROVE  /\ live1[k] - Recorded(kv1[k] # {}) \in 0..(crashes + 1)
               /\ live2[k] - Recorded(kv2[k] # NoTexts) \in 0..(crashes + 1)
    BY <2>1 DEF BatchInv, BatchesSound, Recorded
  <2>. QED
    BY <1>1, <2>1, <2>2 DEF BatchInv, BatchesSound
<1>4. CASE ~BatchStep /\ ~Crash
  BY <1>1, <1>4, OutsideBatches DEF BatchInv, BatchesSound, AtBatch, ToFormat
<1>. QED
  BY <1>2, <1>3, <1>4

\* Between invocations the batches in flight are those whose id the store holds,
\* and one more for each time a process was killed, at most: no batch is
\* forgotten by anything but a death between submitting it and saving its id,
\* and none is polled after its end (batch_runner.py:876-916, 1089-1193,
\* 1426-1447).
THEOREM BatchesAreRecorded == Spec => []EveryBatchHasItsId
<1>1. Init => BatchInv
  BY InitType DEF Init, BatchInv, BatchesSound, Recorded
<1>2. BatchInv => EveryBatchHasItsId
  BY DEF BatchInv, BatchesSound, EveryBatchHasItsId
<1>. QED
  BY <1>1, <1>2, BatchNext, PTL DEF Spec

---------------------------------------------------------------------------
(* Texts.  A Pass-2 batch outlives the process that asked for it; what it  *)
(* formats must still be what a later invocation has in hand when it comes *)
(* back, and the dump is what brings it there.                             *)

AtPass1Batch == pc \in {"p1save", "p1poll", "p1dump"}
AtPass2Batch == pc \in {"p2save", "p2poll"}

\* Only a dump written for the chunk of its own batch stands behind what a saved
\* Pass-2 batch formats.
SavedTexts ==
    \A k \in Chunks, cid \in Cids : kv2[k][cid] # 0 => kv2[k][cid] = dump[k][cid]

\* From the end of Pass 1 to the end of Pass 2, the texts are those of the dump.
TextsAreDumped ==
    (UsesBatchP2 /\ pc \in {"p1drop", "pass2", "p2save", "p2poll"}) => p1 = dump[chunk]

RepliesInHand ==
    pc \in {"p2drop", "tail"} => \A cid \in Cids : p2[cid] # 0 => p2[cid] = p1[cid]

TextInv ==
    /\ TypeOK
    /\ pc \notin {"reformat", "rewrite"}
    /\ AtPass1Batch => UsesBatchP1 /\ dump[chunk] = NoTexts
    /\ AtPass2Batch => UsesBatchP2
    /\ SavedTexts
    /\ TextsAreDumped
    /\ RepliesInHand
    /\ FormattedFromItsText

\* Steps away from the passes.
LEMMA TextAway ==
    ASSUME TextInv, TypeOK', kv2' = kv2, dump' = dump, FormattedFromItsText',
           pc' \in {"idle", "boundary", "noocr", "pass1", "post", "send", "ack"}
    PROVE  TextInv'
BY DEF TextInv, AtPass1Batch, AtPass2Batch, SavedTexts, TextsAreDumped, RepliesInHand

\* Steps that leave the texts, the replies and the point of the run alone.
LEMMA TextStays ==
    ASSUME TextInv, TypeOK', UNCHANGED <<kv2, dump, pc, mode, chunk, p1, p2>>,
           FormattedFromItsText'
    PROVE  TextInv'
BY DEF TextInv, AtPass1Batch, AtPass2Batch, UsesBatchP1, UsesBatchP2, SavedTexts,
       TextsAreDumped, RepliesInHand

\* A new answer formats no text, or its own.
LEMMA SavedIsFormatted ==
    ASSUME TypeOK, FormattedFromItsText, NEW c \in Cells, NEW payload, Save(c, payload),
           payload.fmt # 0 => payload.fmt = payload.p1
    PROVE  FormattedFromItsText'
<1>1. \A d \in Cells : /\ d = c => rows'[d].payload = payload
                       /\ d # c => rows'[d] = rows[d]
  BY DEF Save, SaveAnswer, TypeOK, StoreOK
<1>. QED
  BY <1>1 DEF FormattedFromItsText

LEMMA TextPass1 ==
    ASSUME "reformat" \notin Commands, BatchP2 => BatchP1, TextInv, TypeOK', Pass1Step
    PROVE  TextInv'
<1>. USE DEF EndPass1, Mishap, NoteQuota, UsesBatchP1, UsesBatchP2, AtPass1Batch, AtPass2Batch
<1>1. rows' = rows /\ FormattedFromItsText' /\ kv2' = kv2
  BY DEF Pass1Step, Pass1Online, Pass1Aborts, Pass1FromDump, Pass1Nothing, SubmitP1, SaveP1Id,
         ResumeP1, BatchP1Fails, CollectP1, DumpP1, TextInv, FormattedFromItsText
<1>2. CASE Pass1Online \/ Pass1Aborts
  <2>1. /\ pc' = "p1drop" /\ UNCHANGED <<mode, dump>>
        /\ ~BatchP1 \/ mode # "run"
    BY <1>2 DEF Pass1Online, Pass1Aborts
  <2>. QED
    BY <1>1, <2>1 DEF TextInv, SavedTexts, TextsAreDumped, RepliesInHand
<1>3. CASE Pass1FromDump \/ Pass1Nothing
  BY <1>1, <1>3
  DEF Pass1FromDump, Pass1Nothing, TextInv, SavedTexts, TextsAreDumped, RepliesInHand
<1>4. CASE SubmitP1 \/ SaveP1Id \/ ResumeP1 \/ CollectP1
  BY <1>1, <1>4
  DEF SubmitP1, SaveP1Id, ResumeP1, CollectP1, TextInv, SavedTexts, TextsAreDumped, RepliesInHand
<1>5. CASE BatchP1Fails
  BY <1>1, <1>5, TextAway DEF BatchP1Fails, EndProcess
<1>6. CASE DumpP1
  <2>1. /\ dump' = [dump EXCEPT ![chunk] = p1] /\ p1' = p1 /\ chunk' = chunk /\ mode' = mode
        /\ pc' = "p1drop" /\ dump[chunk] = NoTexts /\ chunk \in Chunks
        /\ dump \in [Chunks -> [Cids -> Nat]]
    BY <1>6 DEF DumpP1, TextInv, TypeOK, StoreOK, ControlOK
  <2>2. SavedTexts'
    BY <1>1, <2>1 DEF TextInv, SavedTexts, NoTexts
  <2>. QED
    BY <1>1, <2>1, <2>2 DEF TextInv, TextsAreDumped, RepliesInHand
<1>. QED
  BY <1>2, <1>3, <1>4, <1>5, <1>6 DEF Pass1Step

LEMMA TextPass2 ==
    ASSUME "reformat" \notin Commands, BatchP2 => BatchP1, TextInv, TypeOK', Pass2Step
    PROVE  TextInv'
<1>. USE DEF EndPass2, Mishap, NoteQuota, UsesBatchP1, UsesBatchP2, AtPass1Batch, AtPass2Batch,
             ForgetBatchP2
<1>1. rows' = rows /\ FormattedFromItsText' /\ dump' = dump
  BY DEF Pass2Step, BeginPass2, Pass2Online, Pass2Nothing, SubmitP2, SaveP2Id, ResumeP2,
         BatchP2Fails, CollectP2, TextInv, FormattedFromItsText
<1>2. CASE BeginPass2 \/ SubmitP2 \/ ResumeP2
  BY <1>1, <1>2
  DEF BeginPass2, SubmitP2, ResumeP2, TextInv, SavedTexts, TextsAreDumped, RepliesInHand
<1>3. CASE Pass2Online \/ Pass2Nothing
  <2>1. /\ pc' = "p2drop" /\ UNCHANGED <<p1, mode, kv2>>
        /\ \A cid \in Cids : p2'[cid] # 0 => p2'[cid] = p1[cid]
    BY <1>3 DEF Pass2Online, Pass2Nothing, NoTexts
  <2>. QED
    BY <1>1, <2>1 DEF TextInv, SavedTexts, TextsAreDumped, RepliesInHand
<1>4. /\ chunk \in Chunks /\ kv2 \in [Chunks -> [Cids -> Nat]]
      /\ NoTexts \in [Cids -> Nat] /\ \A cid \in Cids : NoTexts[cid] = 0
  BY DEF NoTexts, TextInv, TypeOK, StoreOK, ControlOK
<1>5. CASE SaveP2Id
  <2>. DEFINE asked == [cid \in Cids |-> IF cid \in ToFormat THEN p1[cid] ELSE 0]
  <2>1. /\ kv2' = [kv2 EXCEPT ![chunk] = asked] /\ pc' = "p2poll" /\ p1 = dump[chunk]
        /\ UNCHANGED <<p1, p2, chunk, mode>>
    BY <1>5 DEF SaveP2Id, TextInv, TextsAreDumped
  <2>2. \A cid \in Cids : asked[cid] # 0 => asked[cid] = dump[chunk][cid]
    BY <2>1
  <2>. HIDE DEF asked
  <2>3. SavedTexts'
    BY <1>1, <1>4, <2>1, <2>2 DEF TextInv, SavedTexts
  <2>. QED
    BY <1>1, <1>5, <2>1, <2>3 DEF SaveP2Id, TextInv, TextsAreDumped, RepliesInHand
<1>6. CASE BatchP2Fails \/ CollectP2
  <2>1. kv2' = [kv2 EXCEPT ![chunk] = NoTexts]
    BY <1>6 DEF BatchP2Fails, CollectP2
  <2>2. SavedTexts'
    BY <1>1, <1>4, <2>1 DEF TextInv, SavedTexts
  <2>3. CASE BatchP2Fails
    BY <1>1, <2>2, <2>3
    DEF BatchP2Fails, EndProcess, TextInv, TextsAreDumped, RepliesInHand
  <2>4. CASE CollectP2
    <3>1. /\ pc' = "p2drop" /\ UNCHANGED <<p1, chunk, mode>> /\ p1 = dump[chunk]
          /\ \A cid \in Cids : p2'[cid] # 0 => p2'[cid] = kv2[chunk][cid]
      BY <2>4 DEF CollectP2, TextInv, TextsAreDumped
    <3>2. RepliesInHand'
      BY <1>4, <3>1 DEF TextInv, SavedTexts, RepliesInHand
    <3>. QED
      BY <1>1, <2>2, <3>1, <3>2 DEF TextInv, TextsAreDumped
  <2>. QED
    BY <1>6, <2>3, <2>4
<1>. QED
  BY <1>2, <1>3, <1>5, <1>6 DEF Pass2Step

LEMMA TextWrite == ASSUME TextInv, TypeOK', WriteStep PROVE TextInv'
<1>1. PICK c \in Cells : \/ SaveNoOcr(c) \/ DropP1(c) \/ DropP2(c) \/ MarkDropped(c)
                         \/ SaveReply(c) \/ ReplyRefused(c)
  BY DEF WriteStep, RewriteRow, TextInv
<1>2. UNCHANGED <<kv2, dump, pc, mode, chunk, p1, p2>>
  BY <1>1 DEF SaveNoOcr, DropP1, DropP2, MarkDropped, SaveReply, ReplyRefused
<1>3. TypeOK /\ FormattedFromItsText
  BY DEF TextInv
<1>4. ASSUME SaveNoOcr(c) PROVE FormattedFromItsText'
  BY <1>3, <1>4, SavedIsFormatted DEF SaveNoOcr, NewPayload
<1>5. ASSUME DropP1(c) PROVE FormattedFromItsText'
  BY <1>3, <1>5, SavedIsFormatted DEF DropP1, NewPayload
<1>6. ASSUME DropP2(c) PROVE FormattedFromItsText'
  BY <1>3, <1>6, SavedIsFormatted DEF DropP2, NewPayload
<1>7. ASSUME SaveReply(c) PROVE FormattedFromItsText'
  <2>1. PICK kind \in {"dummy", "answer", "parse_error"} :
           Save(c, NewPayload(kind, p1[CidOf(c)], p2[CidOf(c)]))
    BY <1>7 DEF SaveReply
  <2>2. p2[CidOf(c)] # 0 => p2[CidOf(c)] = p1[CidOf(c)]
    BY <1>7, CidOfType DEF SaveReply, TextInv, RepliesInHand
  <2>. QED
    BY <1>3, <2>1, <2>2, SavedIsFormatted DEF NewPayload
<1>8. ASSUME MarkDropped(c) PROVE FormattedFromItsText'
  <2>1. \A d \in Cells : rows'[d].payload = rows[d].payload
    BY <1>3, <1>8 DEF MarkDropped, MarkFailed, TypeOK, StoreOK, Row
  <2>. QED
    BY <1>3, <2>1 DEF FormattedFromItsText
<1>9. ASSUME ReplyRefused(c) PROVE FormattedFromItsText'
  BY <1>3, <1>9 DEF ReplyRefused, FormattedFromItsText
<1>. QED
  BY <1>1, <1>2, <1>4, <1>5, <1>6, <1>7, <1>8, <1>9, TextStays

LEMMA TextNext ==
    ASSUME "reformat" \notin Commands, BatchP2 => BatchP1, TextInv, [Next]_vars
    PROVE  TextInv'
<1>1. TypeOK /\ TypeOK' /\ FormattedFromItsText
  BY TypeNext DEF TextInv
<1>2. CASE Pass1Step \/ Pass2Step
  BY <1>1, <1>2, TextPass1, TextPass2
<1>3. CASE WriteStep
  BY <1>1, <1>3, TextWrite
<1>4. CASE BeginTail
  BY <1>1, <1>4
  DEF BeginTail, TextInv, AtPass1Batch, AtPass2Batch, SavedTexts, TextsAreDumped, RepliesInHand,
      FormattedFromItsText
<1>5. CASE \/ Cancel \/ ResolveTexts \/ BeginPass1 \/ Park \/ Crash
           \/ BeginPost \/ SendPaper \/ NextChunk \/ FinishRun \/ FinishRepost
  <2>1. /\ UNCHANGED <<rows, kv2, dump>>
        /\ pc' \in {"idle", "boundary", "noocr", "pass1", "post", "ack"}
    BY <1>5
    DEF Cancel, ResolveTexts, BeginPass1, Park, Crash, EndProcess, BeginPost, SendPaper,
        NextChunk, FinishRun, FinishRepost
  <2>. QED
    BY <1>1, <2>1, TextAway DEF FormattedFromItsText
<1>6. CASE \E p \in Papers : ReadPaper(p) \/ PrintPaper(p) \/ SendFails(p) \/ MarkPaper(p)
  <2>1. /\ UNCHANGED <<kv2, dump>>
        /\ pc' \in {"idle", "post", "send"}
    BY <1>6 DEF ReadPaper, PrintPaper, SendFails, MarkPaper, EndProcess
  <2>2. \A c \in Cells : rows'[c].payload = rows[c].payload
    <3>1. CASE rows' = rows
      BY <3>1
    <3>2. CASE rows' = [c \in Cells |-> IF c \in InOutbox THEN MarkPosted(rows[c]) ELSE rows[c]]
      BY <1>1, <3>2 DEF MarkPosted, TypeOK, StoreOK, Row
    <3>. QED
      BY <1>6, <3>1, <3>2 DEF ReadPaper, PrintPaper, SendFails, MarkPaper
  <2>3. FormattedFromItsText'
    BY <1>1, <2>2 DEF FormattedFromItsText
  <2>. QED
    BY <1>1, <2>1, <2>3, TextAway
<1>7. CASE UserStep
  <2>1. /\ UNCHANGED <<kv2, dump>> /\ pc' \in {"boundary", "post"}
        /\ \A c \in Cells : rows'[c].payload \in {rows[c].payload, NoPayload}
    BY <1>7 DEF UserStep, StartRun, StartRepost, StartReformat, NoRow
  <2>2. FormattedFromItsText'
    BY <1>1, <2>1 DEF FormattedFromItsText, NoPayload
  <2>. QED
    BY <1>1, <2>1, <2>2, TextAway
<1>8. CASE ReformatStep
  BY <1>8
  DEF ReformatStep, ReformatFails, ReformatGroup, IsReformatting, FinishReformat, TextInv
<1>9. CASE UNCHANGED vars
  BY <1>1, <1>9, TextStays DEF vars, FormattedFromItsText
<1>. QED
  BY <1>2, <1>3, <1>4, <1>5, <1>6, <1>7, <1>8, <1>9 DEF Next, ProgramStep, PostStep

LEMMA TextInit == Init => TextInv
BY InitType
DEF Init, TextInv, AtPass1Batch, AtPass2Batch, SavedTexts, TextsAreDumped, RepliesInHand,
    FormattedFromItsText, NoTexts, NoRow, NoPayload

\* Where Pass 2 is batched only if Pass 1 is, an answer carries the Pass-1 text
\* its reply was asked to format, through parked and failed batches, other
\* --papers filters, resets and crashes: the dump brings back the very text a
\* Pass-2 batch left in flight was given (batch_runner.py:956-976, 1081-1086,
\* 1426-1447).  Online texts beside such a batch are other texts.
THEOREM AnswersFormatTheirText ==
    ASSUME "reformat" \notin Commands, BatchP2 => BatchP1
    PROVE  Spec => []FormattedFromItsText
<1>1. TextInv /\ [Next]_vars => TextInv'
  BY TextNext
<1>2. TextInv => FormattedFromItsText
  BY DEF TextInv
<1>. QED
  BY TextInit, <1>1, <1>2, PTL DEF Spec

---------------------------------------------------------------------------
(* Online Pass 1.  Without a dump, a call without a text has failed for a  *)
(* reason.                                                                 *)

OnlineInv ==
    /\ TypeOK
    /\ ~AtPass1Batch
    /\ pc # "idle" => inv # 0
    /\ pc = "p1drop" => \A c \in todo : CidOf(c) \in p1err

LEMMA OnlinePass1 ==
    ASSUME ~BatchP1, OnlineInv, TypeOK', Pass1Step
    PROVE  OnlineInv'
<1>. USE DEF EndPass1, Mishap, NoteQuota
<1>1. Pass1Online \/ Pass1Aborts
  BY DEF Pass1Step, Pass1FromDump, Pass1Nothing, SubmitP1, SaveP1Id, ResumeP1, BatchP1Fails,
         CollectP1, DumpP1, UsesBatchP1, OnlineInv, AtPass1Batch
<1>2. PICK ok \in SUBSET pending :
         /\ p1' = [cid \in Cids |-> IF cid \in ok THEN inv ELSE 0]
         /\ p1err' = pending \ ok
         /\ todo' = CellsIn({cid \in pending : p1'[cid] = 0})
  <2>1. CASE Pass1Online
    BY <2>1 DEF Pass1Online
  <2>2. CASE Pass1Aborts
    BY <2>2 DEF Pass1Aborts, NoTexts
  <2>. QED
    BY <1>1, <2>1, <2>2
<1>3. inv' = inv /\ pc = "pass1" /\ pc' = "p1drop"
  BY <1>1 DEF Pass1Online, Pass1Aborts
<1>4. inv # 0 /\ inv \in Nat /\ pending \subseteq Cids
  BY <1>3 DEF OnlineInv, TypeOK, GhostsOK, LocalsOK
<1>5. \A c \in todo' : CidOf(c) \in p1err'
  BY <1>2, <1>4 DEF CellsIn
<1>. QED
  BY <1>3, <1>4, <1>5 DEF OnlineInv, AtPass1Batch

LEMMA OnlineNext == ASSUME ~BatchP1, OnlineInv, [Next]_vars PROVE OnlineInv'
<1>. USE DEF Mishap, NoteQuota, EndProcess, EndPass2, AtPass1Batch
<1>1. TypeOK /\ TypeOK' /\ inv \in Nat
  BY TypeNext DEF OnlineInv, TypeOK, GhostsOK
<1>2. CASE Pass1Step
  BY <1>1, <1>2, OnlinePass1
<1>3. CASE WriteStep
  <2>1. /\ inv' = inv /\ p1err' = p1err /\ todo' \subseteq todo
        /\ pc' = pc \/ (pc = "rewrite" /\ pc' \in {"reformat", "rewrite"})
    BY <1>3 DEF WriteStep, SaveNoOcr, DropP1, DropP2, MarkDropped, SaveReply, ReplyRefused,
                RewriteRow, OnlineInv, TypeOK, ControlOK
  <2>. QED
    BY <1>1, <2>1 DEF OnlineInv
<1>4. CASE \/ Cancel \/ ResolveTexts \/ BeginPass1 \/ Park \/ BeginTail \/ Pass2Step
           \/ PostStep \/ ReformatStep \/ UserStep \/ Crash
  <2>1. /\ pc' \notin {"p1save", "p1poll", "p1dump", "p1drop"}
        /\ \/ inv' = inv /\ (pc = "idle" => pc' = "idle")
           \/ inv' = inv + 1
    <3>1. CASE \/ Cancel \/ ResolveTexts \/ BeginPass1 \/ Park \/ BeginTail \/ Crash
      BY <3>1 DEF Cancel, ResolveTexts, BeginPass1, Park, BeginTail, Crash
    <3>2. CASE Pass2Step
      BY <3>2 DEF Pass2Step, BeginPass2, Pass2Online, Pass2Nothing, SubmitP2, SaveP2Id, ResumeP2,
                  BatchP2Fails, CollectP2
    <3>3. CASE PostStep
      BY <3>3 DEF PostStep, BeginPost, SendPaper, NextChunk, FinishRun, FinishRepost, ReadPaper,
                  PrintPaper, SendFails, MarkPaper
    <3>4. CASE ReformatStep \/ UserStep
      BY <3>4 DEF ReformatStep, ReformatFails, ReformatGroup, IsReformatting, FinishReformat,
                  UserStep, StartRun, StartRepost, StartReformat
    <3>. QED
      BY <1>4, <3>1, <3>2, <3>3, <3>4
  <2>. QED
    BY <1>1, <2>1 DEF OnlineInv
<1>5. CASE UNCHANGED vars
  BY <1>1, <1>5 DEF vars, OnlineInv
<1>. QED
  BY <1>2, <1>3, <1>4, <1>5 DEF Next, ProgramStep

LEMMA OnlineInit == Init => OnlineInv
BY InitType DEF Init, OnlineInv, AtPass1Batch

---------------------------------------------------------------------------
(* Resets.  --reset-runs deletes answers; a dump or a Pass-2 batch may     *)
(* still hold a text from before it, and that call alone may use it again. *)

Fresh(text, cid) == text # 0 => text >= freshFrom[cid]

FreshTexts ==
    \A cid \in Cids :
        /\ freshFrom[cid] <= inv
        /\ Fresh(p1[cid], cid) /\ Fresh(p2[cid], cid)
        /\ \A k \in Chunks : Fresh(dump[k][cid], cid) /\ Fresh(kv2[k][cid], cid)

FreshInv ==
    /\ TypeOK
    /\ pc = "idle" => p1 = NoTexts /\ p2 = NoTexts
    /\ FreshTexts
    /\ ResetMeansFresh

\* Texts only move: a step of the program takes each from where one was, or has
\* just bought it.
LEMMA TextsMove ==
    ASSUME FreshInv, [Next]_vars, ~UserStep
    PROVE  /\ UNCHANGED <<freshFrom, inv>>
           /\ pc' = "idle" => p1' = NoTexts /\ p2' = NoTexts
           /\ \A cid \in Cids :
                 /\ \/ p1'[cid] \in {0, inv, p1[cid]}
                    \/ \E k \in Chunks : p1'[cid] = dump[k][cid]
                    \/ \E c \in CellsOf(cid) : p1'[cid] = rows[c].payload.p1
                 /\ \/ p2'[cid] \in {0, p1[cid], p2[cid]}
                    \/ \E k \in Chunks : p2'[cid] = kv2[k][cid]
                 /\ \A k \in Chunks : dump'[k][cid] \in {p1[cid], dump[k][cid]}
                 /\ \A k \in Chunks : kv2'[k][cid] \in {0, p1[cid], kv2[k][cid]}
<1>. USE DEF Mishap, NoteQuota, EndPass1, EndPass2, EndProcess, ForgetBatchP1, ForgetBatchP2
<1>1. /\ chunk \in Chunks /\ \A cid \in Cids : NoTexts[cid] = 0
      /\ kv2 \in [Chunks -> [Cids -> Nat]] /\ dump \in [Chunks -> [Cids -> Nat]]
      /\ pc = "idle" => p1 = NoTexts /\ p2 = NoTexts
  BY DEF FreshInv, TypeOK, StoreOK, ControlOK, NoTexts
<1>2. CASE Pass1Step
  <2>1. UNCHANGED <<freshFrom, inv, kv2>>
    BY <1>2 DEF Pass1Step, Pass1Online, Pass1Aborts, Pass1FromDump, Pass1Nothing, SubmitP1,
                SaveP1Id, ResumeP1, BatchP1Fails, CollectP1, DumpP1
  <2>2. CASE Pass1Online
    BY <1>1, <2>1, <2>2 DEF Pass1Online
  <2>3. CASE \/ Pass1Aborts \/ Pass1FromDump \/ Pass1Nothing \/ SubmitP1 \/ SaveP1Id \/ ResumeP1
             \/ BatchP1Fails
    BY <1>1, <2>1, <2>3 DEF Pass1Aborts, Pass1FromDump, Pass1Nothing, SubmitP1, SaveP1Id,
                            ResumeP1, BatchP1Fails
  <2>4. CASE CollectP1
    BY <1>1, <2>1, <2>4 DEF CollectP1
  <2>5. CASE DumpP1
    BY <1>1, <2>1, <2>5 DEF DumpP1
  <2>. QED
    BY <1>2, <2>2, <2>3, <2>4, <2>5 DEF Pass1Step
<1>3. CASE Pass2Step
  <2>1. UNCHANGED <<freshFrom, inv, dump>>
    BY <1>3 DEF Pass2Step, BeginPass2, Pass2Online, Pass2Nothing, SubmitP2, SaveP2Id, ResumeP2,
                BatchP2Fails, CollectP2
  <2>2. CASE Pass2Online
    BY <1>1, <2>1, <2>2 DEF Pass2Online
  <2>3. CASE BeginPass2 \/ Pass2Nothing \/ SubmitP2 \/ ResumeP2 \/ BatchP2Fails
    BY <1>1, <2>1, <2>3 DEF BeginPass2, Pass2Nothing, SubmitP2, ResumeP2, BatchP2Fails
  <2>4. CASE SaveP2Id
    BY <1>1, <2>1, <2>4 DEF SaveP2Id
  <2>5. CASE CollectP2
    BY <1>1, <2>1, <2>5 DEF CollectP2
  <2>. QED
    BY <1>3, <2>2, <2>3, <2>4, <2>5 DEF Pass2Step
<1>4. CASE \E cid \in Cids : ReformatGroup(cid)
  <2>1. PICK cid \in Cids : ReformatGroup(cid)
    BY <1>4
  <2>2. PICK c \in todo \cap CellsOf(cid) : p1' = [NoTexts EXCEPT ![cid] = rows[c].payload.p1]
    BY <2>1 DEF ReformatGroup, GroupTexts
  <2>3. UNCHANGED <<freshFrom, inv, kv2, dump, p2>> /\ pc' = "rewrite"
    BY <2>1 DEF ReformatGroup
  <2>. QED
    BY <1>1, <2>2, <2>3
<1>5. CASE \/ Cancel \/ ResolveTexts \/ BeginPass1 \/ Park \/ BeginTail \/ Crash
           \/ WriteStep \/ PostStep \/ FinishReformat \/ (\E cid \in Cids : ReformatFails(cid))
           \/ UNCHANGED vars
  <2>1. /\ UNCHANGED <<freshFrom, inv, kv2, dump>>
        /\ pc' = "idle" => (p1' = NoTexts /\ p2' = NoTexts) \/ (UNCHANGED <<pc, p1, p2>>)
        /\ p1' \in {p1, NoTexts} /\ p2' \in {p2, NoTexts}
    <3>1. CASE \/ Cancel \/ ResolveTexts \/ BeginPass1 \/ Park \/ BeginTail \/ Crash
      BY <3>1 DEF Cancel, ResolveTexts, BeginPass1, Park, BeginTail, Crash
    <3>2. CASE WriteStep
      BY <3>2 DEF WriteStep, SaveNoOcr, DropP1, DropP2, MarkDropped, SaveReply, ReplyRefused,
                  RewriteRow
    <3>3. CASE PostStep
      BY <3>3 DEF PostStep, BeginPost, SendPaper, NextChunk, FinishRun, FinishRepost, ReadPaper,
                  PrintPaper, SendFails, MarkPaper
    <3>4. CASE FinishReformat \/ (\E cid \in Cids : ReformatFails(cid)) \/ UNCHANGED vars
      BY <3>4 DEF FinishReformat, ReformatFails, vars
    <3>. QED
      BY <1>5, <3>1, <3>2, <3>3, <3>4
  <2>. QED
    BY <1>1, <2>1
<1>. QED
  BY <1>2, <1>3, <1>4, <1>5 DEF Next, ProgramStep, ReformatStep

FreshRow(c) ==
    Fresh(rows[c].payload.p1, CidOf(c)) /\ Fresh(rows[c].payload.fmt, CidOf(c))

\* What a step writes of an answer is a text at hand, or one the row has already.
LEMMA FreshRows ==
    ASSUME FreshInv, [Next]_vars, ~UserStep, freshFrom' = freshFrom, NEW c \in Cells
    PROVE  FreshRow(c)'
<1>. USE DEF Fresh
<1>1. TypeOK /\ FreshRow(c)
  BY DEF FreshInv, ResetMeansFresh, FreshRow
<1>2. CidOf(c) \in Cids /\ Fresh(p1[CidOf(c)], CidOf(c)) /\ Fresh(p2[CidOf(c)], CidOf(c))
  BY CidOfType DEF FreshInv, FreshTexts
<1>3. CASE rows' = rows
  BY <1>1, <1>3 DEF FreshRow
<1>4. CASE rows' = [d \in Cells |-> NoRow]
  BY <1>4 DEF FreshRow, NoRow, NoPayload
<1>5. CASE (\E p \in Papers : MarkPaper(p)) \/ \E d \in Cells : MarkDropped(d)
  BY <1>1, <1>5, MarkPaperRow, MarkDroppedRow DEF FreshRow
<1>6. CASE \E d \in Cells : RewriteRow(d)
  <2>1. \/ rows'[c] = rows[c]
        \/ rows'[c].payload = NewPayload("answer", rows[c].payload.p1, p1[CidOf(c)])
    BY <1>1, <1>6, RewrittenRow
  <2>. QED
    BY <1>1, <1>2, <2>1 DEF FreshRow, NewPayload
<1>7. CASE \E d \in Cells : Saving(d)
  <2>1. PICK d \in Cells : Saving(d)
    BY <1>7
  <2>2. PICK kind, text, fmt : /\ Save(d, NewPayload(kind, text, fmt))
                               /\ text \in {0, p1[CidOf(d)]} /\ fmt \in {0, p2[CidOf(d)]}
    BY <2>1 DEF Saving, SaveNoOcr, DropP1, DropP2, SaveReply
  <2>3. /\ rows'[d].payload = NewPayload(kind, text, fmt)
        /\ c # d => rows'[c] = rows[c]
    BY <1>1, <2>2, SavedRow
  <2>. QED
    BY <1>1, <1>2, <2>2, <2>3 DEF FreshRow, NewPayload
<1>. QED
  BY <1>3, <1>4, <1>5, <1>6, <1>7, RowsWritten

\* A reset forgets the texts of the calls it says it does, and of no others.
LEMMA FreshUser == ASSUME FreshInv, TypeOK', UserStep PROVE FreshInv'
<1>. USE DEF Fresh
<1>1. /\ inv \in Nat /\ freshFrom \in [Cids -> Nat] /\ FreshTexts /\ ResetMeansFresh
      /\ pc = "idle" => p1 = NoTexts /\ p2 = NoTexts
      /\ \A cid \in Cids : NoTexts[cid] = 0
  BY DEF FreshInv, TypeOK, GhostsOK, NoTexts
<1>2. /\ pc = "idle" /\ pc' # "idle" /\ inv' = inv + 1 /\ UNCHANGED <<p1, p2, dump, kv2>>
      /\ \/ UNCHANGED <<rows, freshFrom>>
         \/ rows' = [c \in Cells |-> NoRow] /\ freshFrom' = StartAfresh
  BY DEF UserStep, StartRun, StartRepost, StartReformat
<1>3. CASE UNCHANGED <<rows, freshFrom>>
  BY <1>1, <1>2, <1>3 DEF FreshInv, FreshTexts, ResetMeansFresh
<1>4. CASE rows' = [c \in Cells |-> NoRow] /\ freshFrom' = StartAfresh
  <2>1. ASSUME NEW cid \in Cids
        PROVE  /\ freshFrom'[cid] <= inv + 1
               /\ \A k \in Chunks : Fresh(dump[k][cid], cid)' /\ Fresh(kv2[k][cid], cid)'
    <3>1. CASE KeptText(cid)
      <4>1. freshFrom'[cid] = freshFrom[cid] /\ freshFrom[cid] <= inv /\ freshFrom[cid] \in Nat
        BY <1>1, <1>4, <3>1 DEF StartAfresh, FreshTexts
      <4>. QED
        BY <1>1, <1>2, <4>1 DEF FreshTexts
    <3>2. CASE ~KeptText(cid)
      <4>1. freshFrom'[cid] = inv + 1
        BY <1>4, <3>2 DEF StartAfresh
      <4>. QED
        BY <1>1, <1>2, <3>2, <4>1 DEF KeptText
    <3>. QED
      BY <3>1, <3>2
  <2>2. FreshTexts'
    BY <1>1, <1>2, <2>1 DEF FreshTexts
  <2>3. ResetMeansFresh'
    BY <1>4 DEF ResetMeansFresh, NoRow, NoPayload
  <2>. QED
    BY <1>2, <2>2, <2>3 DEF FreshInv
<1>. QED
  BY <1>2, <1>3, <1>4

LEMMA FreshNext == ASSUME FreshInv, [Next]_vars PROVE FreshInv'
<1>1. TypeOK'
  BY TypeNext DEF FreshInv
<1>2. CASE UserStep
  BY <1>1, <1>2, FreshUser
<1>3. CASE ~UserStep
  <2>1. UNCHANGED <<freshFrom, inv>> /\ (pc' = "idle" => p1' = NoTexts /\ p2' = NoTexts)
    BY <1>3, TextsMove
  <2>2. FreshTexts'
    <3>1. SUFFICES ASSUME NEW cid \in Cids
                   PROVE  /\ freshFrom[cid] <= inv
                          /\ Fresh(p1'[cid], cid) /\ Fresh(p2'[cid], cid)
                          /\ \A k \in Chunks : /\ Fresh(dump'[k][cid], cid)
                                              /\ Fresh(kv2'[k][cid], cid)
      BY <2>1 DEF FreshTexts, Fresh
    <3>2. /\ freshFrom[cid] <= inv /\ inv \in Nat /\ freshFrom[cid] \in Nat
          /\ Fresh(0, cid) /\ Fresh(inv, cid) /\ Fresh(p1[cid], cid) /\ Fresh(p2[cid], cid)
          /\ \A j \in Chunks : Fresh(dump[j][cid], cid) /\ Fresh(kv2[j][cid], cid)
      BY DEF FreshInv, FreshTexts, Fresh, TypeOK, GhostsOK
    <3>3. \A c \in CellsOf(cid) : Fresh(rows[c].payload.p1, cid)
      BY DEF FreshInv, ResetMeansFresh, CellsOf, Fresh
    <3>4. Fresh(p1'[cid], cid)
      BY <1>3, <3>2, <3>3, TextsMove
    <3>5. /\ Fresh(p2'[cid], cid)
          /\ \A k \in Chunks : Fresh(dump'[k][cid], cid) /\ Fresh(kv2'[k][cid], cid)
      BY <1>3, <3>2, TextsMove
    <3>. QED
      BY <3>2, <3>4, <3>5
  <2>3. \A c \in Cells : FreshRow(c)'
    BY <1>3, <2>1, FreshRows
  <2>. QED
    BY <1>1, <2>1, <2>2, <2>3 DEF FreshInv, ResetMeansFresh, FreshRow, Fresh
<1>. QED
  BY <1>2, <1>3

LEMMA FreshInit == Init => FreshInv
BY InitType DEF Init, FreshInv, FreshTexts, Fresh, NoTexts, ResetMeansFresh, NoRow, NoPayload

\* After --reset-runs, neither the text an answer carries nor the text its reply
\* was formatted from was obtained before it, in either pass, online or batched,
\* whatever is parked, reformatted, reposted or interrupted meanwhile.  The one
\* exception is a text of the very call that a dump or a Pass-2 batch kept
\* (store.py:386-393 deletes answers only; batch_runner.py:1081-1086, 1426-1447).
THEOREM ResetForgetsTexts == Spec => []ResetMeansFresh
<1>1. FreshInv => ResetMeansFresh
  BY DEF FreshInv
<1>. QED
  BY FreshInit, FreshNext, <1>1, PTL DEF Spec

---------------------------------------------------------------------------
(* Answers that report a call without a text.                              *)

WithoutText == {"p1_error", "p1_lost"}

\* The one step that writes them: the loop over the calls Pass 1 left without.
LEMMA DropsWithoutText ==
    ASSUME TypeOK, [Next]_vars, NEW c \in Cells, rows'[c].payload # rows[c].payload,
           rows'[c].payload.kind \in WithoutText
    PROVE  /\ pc = "p1drop" /\ c \in todo
           /\ rows'[c].payload.kind = "p1_lost" => CidOf(c) \notin p1err
<1>. USE DEF WithoutText
<1>1. CASE rows' = [d \in Cells |-> NoRow]
  BY <1>1 DEF NoRow, NoPayload
<1>2. CASE \E p \in Papers : MarkPaper(p)
  BY <1>2, MarkPaperRow
<1>3. CASE \E d \in Cells : Saving(d) \/ MarkDropped(d) \/ RewriteRow(d)
  <2>1. PICK d \in Cells : Saving(d) \/ MarkDropped(d) \/ RewriteRow(d)
    BY <1>3
  <2>2. CASE MarkDropped(d)
    BY <2>2, MarkDroppedRow
  <2>3. CASE RewriteRow(d)
    <3>1. c = d
      BY <2>3, RewrittenRow
    <3>2. rows'[c].payload = NewPayload("answer", rows[c].payload.p1, p1[CidOf(c)])
      BY <2>3, <3>1, RewrittenRow
    <3>. QED
      BY <3>2 DEF NewPayload
  <2>4. CASE SaveNoOcr(d)
    BY <2>4, SavedRow DEF SaveNoOcr, NewPayload
  <2>5. CASE DropP1(d)
    <3>1. c = d
      BY <2>5, SavedRow DEF DropP1
    <3>2. CASE CidOf(d) \in p1err
      BY <2>5, <3>1, <3>2, SavedRow DEF DropP1, FirstOf, NewPayload
    <3>3. CASE CidOf(d) \notin p1err
      BY <2>5, <3>1, <3>3 DEF DropP1, FirstOf
    <3>. QED
      BY <3>2, <3>3
  <2>6. CASE DropP2(d)
    BY <2>6, SavedRow DEF DropP2, NewPayload
  <2>7. CASE SaveReply(d)
    <3>1. PICK kind \in {"dummy", "answer", "parse_error"} :
             Save(d, NewPayload(kind, p1[CidOf(d)], p2[CidOf(d)]))
      BY <2>7 DEF SaveReply
    <3>. QED
      BY <3>1, SavedRow DEF NewPayload
  <2>. QED
    BY <2>1, <2>2, <2>3, <2>4, <2>5, <2>6, <2>7 DEF Saving
<1>. QED
  BY <1>1, <1>2, <1>3, RowsWritten

---------------------------------------------------------------------------
(* Source texts.  What SEER gave once is there for good; everything that   *)
(* was ever made of a paper's text rests on that.                          *)

OcrInv ==
    /\ TypeOK
    /\ texts \subseteq ocr
    /\ \A cid \in pending : cid[1] \in ocr
    /\ \A cid \in Cids : p1[cid] # 0 => cid[1] \in ocr
    /\ \A k \in Chunks, cid \in Cids : dump[k][cid] # 0 => cid[1] \in ocr
    /\ \A k \in Chunks : \A cid \in kv1[k] : cid[1] \in ocr
    /\ pc = "noocr" => \A c \in todo : c[1] \notin ocr
    /\ \A c \in Cells : /\ rows[c].payload.p1 # 0 => c[1] \in ocr
                        /\ rows[c].payload.kind = "no_ocr" => rows[c].payload.p1 = 0

OcrRow(c) ==
    /\ rows[c].payload.p1 # 0 => c[1] \in ocr
    /\ rows[c].payload.kind = "no_ocr" => rows[c].payload.p1 = 0

\* The answers a step writes rest on texts SEER has given.
LEMMA OcrRows ==
    ASSUME OcrInv, [Next]_vars, NEW c \in Cells, ocr \subseteq ocr'
    PROVE  OcrRow(c)'
<1>1. TypeOK /\ OcrRow(c)
  BY DEF OcrInv, OcrRow
<1>2. CASE rows' = rows
  BY <1>1, <1>2 DEF OcrRow
<1>3. CASE rows' = [d \in Cells |-> NoRow]
  BY <1>3 DEF OcrRow, NoRow, NoPayload
<1>4. CASE \E p \in Papers : MarkPaper(p)
  BY <1>1, <1>4, MarkPaperRow DEF OcrRow
<1>5. CASE \E d \in Cells : MarkDropped(d)
  BY <1>1, <1>5, MarkDroppedRow DEF OcrRow
<1>6. CASE \E d \in Cells : RewriteRow(d)
  <2>1. PICK d \in Cells : RewriteRow(d)
    BY <1>6
  <2>2. CASE c # d
    BY <1>1, <2>1, <2>2, RewrittenRow DEF OcrRow
  <2>3. CASE c = d
    <3>1. \/ rows'[c] = rows[c]
          \/ rows'[c].payload = NewPayload("answer", rows[c].payload.p1, p1[CidOf(c)])
      BY <1>1, <2>1, <2>3, RewrittenRow
    <3>. QED
      BY <1>1, <3>1 DEF OcrRow, NewPayload
  <2>. QED
    BY <2>2, <2>3
<1>7. CASE \E d \in Cells : Saving(d)
  <2>1. PICK d \in Cells : Saving(d)
    BY <1>7
  <2>2. CASE SaveNoOcr(d)
    BY <1>1, <2>2, SavedRow DEF SaveNoOcr, NewPayload, OcrRow
  <2>3. CASE ~SaveNoOcr(d)
    <3>1. PICK kind, text, fmt : /\ Save(d, NewPayload(kind, text, fmt))
                                 /\ text \in {0, p1[CidOf(d)]} /\ kind # "no_ocr"
      BY <2>1, <2>3 DEF Saving, DropP1, DropP2, SaveReply
    <3>2. /\ rows'[d].payload = NewPayload(kind, text, fmt)
          /\ c # d => rows'[c] = rows[c]
      BY <1>1, <3>1, SavedRow
    <3>3. p1[CidOf(d)] # 0 => d[1] \in ocr
      BY CidOfType DEF OcrInv, CidOf
    <3>. QED
      BY <1>1, <3>1, <3>2, <3>3 DEF OcrRow, NewPayload
  <2>. QED
    BY <2>2, <2>3
<1>. QED
  BY <1>2, <1>3, <1>4, <1>5, <1>6, <1>7, RowsWritten

OcrPasses ==
    /\ texts \subseteq ocr
    /\ \A cid \in pending : cid[1] \in ocr
    /\ \A cid \in Cids : p1[cid] # 0 => cid[1] \in ocr
    /\ \A k \in Chunks, cid \in Cids : dump[k][cid] # 0 => cid[1] \in ocr
    /\ \A k \in Chunks : \A cid \in kv1[k] : cid[1] \in ocr
    /\ pc = "noocr" => \A c \in todo : c[1] \notin ocr

LEMMA OcrPass1 == ASSUME OcrInv, TypeOK', Pass1Step PROVE ocr' = ocr /\ OcrPasses'
<1>. USE DEF Mishap, NoteQuota, ForgetBatchP1, EndPass1
<1>1. /\ TypeOK /\ OcrPasses /\ \A cid \in Cids : NoTexts[cid] = 0
      /\ chunk \in Chunks /\ kv1 \in [Chunks -> SUBSET Cids] /\ dump \in [Chunks -> [Cids -> Nat]]
  BY DEF OcrInv, OcrPasses, NoTexts, TypeOK, StoreOK, ControlOK
<1>2. CASE Pass1Online
  <2>1. PICK ok \in SUBSET pending : p1' = [cid \in Cids |-> IF cid \in ok THEN inv ELSE 0]
    BY <1>2 DEF Pass1Online
  <2>2. UNCHANGED <<ocr, texts, pending, dump, kv1>> /\ pc' = "p1drop"
    BY <1>2 DEF Pass1Online
  <2>. QED
    BY <1>1, <2>1, <2>2 DEF OcrPasses
<1>3. CASE Pass1Aborts \/ Pass1FromDump \/ Pass1Nothing
  <2>1. UNCHANGED <<ocr, texts, pending, dump, kv1>> /\ pc' = "p1drop" /\ p1' \in {NoTexts, dump[chunk]}
    BY <1>3 DEF Pass1Aborts, Pass1FromDump, Pass1Nothing
  <2>. QED
    BY <1>1, <2>1 DEF OcrPasses
<1>4. CASE SubmitP1 \/ SaveP1Id \/ ResumeP1
  <2>1. /\ UNCHANGED <<ocr, texts, pending, dump, p1>> /\ pc' # "noocr"
        /\ kv1' \in {kv1, [kv1 EXCEPT ![chunk] = pending]}
    BY <1>4 DEF SubmitP1, SaveP1Id, ResumeP1
  <2>. QED
    BY <1>1, <2>1 DEF OcrPasses
<1>5. CASE BatchP1Fails
  BY <1>1, <1>5 DEF BatchP1Fails, EndProcess, OcrPasses
<1>6. CASE CollectP1
  <2>1. PICK ok \in SUBSET kv1[chunk] : p1' = [cid \in Cids |-> IF cid \in ok THEN inv ELSE 0]
    BY <1>6 DEF CollectP1
  <2>2. /\ UNCHANGED <<ocr, texts, pending, dump>> /\ pc' = "p1dump"
        /\ kv1' = [kv1 EXCEPT ![chunk] = {}]
    BY <1>6 DEF CollectP1
  <2>. QED
    BY <1>1, <2>1, <2>2 DEF OcrPasses
<1>7. CASE DumpP1
  <2>1. /\ UNCHANGED <<ocr, texts, pending, p1, kv1>> /\ pc' = "p1drop"
        /\ dump' = [dump EXCEPT ![chunk] = p1]
    BY <1>7 DEF DumpP1
  <2>. QED
    BY <1>1, <2>1 DEF OcrPasses
<1>. QED
  BY <1>2, <1>3, <1>4, <1>5, <1>6, <1>7 DEF Pass1Step

\* Steps that get no text and ask for none.
LEMMA OcrElsewhere ==
    ASSUME OcrInv, TypeOK', [Next]_vars, ~Pass1Step
    PROVE  ocr \subseteq ocr' /\ OcrPasses'
<1>. USE DEF Mishap, NoteQuota, EndPass2, EndProcess
<1>1. TypeOK /\ OcrPasses /\ \A cid \in Cids : NoTexts[cid] = 0
  BY DEF OcrInv, OcrPasses, NoTexts
<1>2. CASE ResolveTexts
  BY <1>1, <1>2 DEF ResolveTexts, ChunkPaperSet, OcrPasses
<1>3. CASE BeginPass1
  BY <1>1, <1>3 DEF BeginPass1, OcrPasses
<1>4. CASE \E cid \in Cids : ReformatGroup(cid)
  <2>1. PICK cid \in Cids : ReformatGroup(cid)
    BY <1>4
  <2>2. PICK c \in todo \cap CellsOf(cid) :
           rows[c].payload.p1 # 0 /\ p1' = [NoTexts EXCEPT ![cid] = rows[c].payload.p1]
    BY <2>1 DEF ReformatGroup, GroupTexts
  <2>3. cid[1] \in ocr
    BY <2>2 DEF OcrInv, CellsOf, CidOf
  <2>4. UNCHANGED <<ocr, texts, dump, kv1>> /\ pending' = {cid} /\ pc' = "rewrite"
    BY <2>1 DEF ReformatGroup
  <2>5. \A d \in Cids : p1'[d] # 0 => d[1] \in ocr
    BY <2>2, <2>3 DEF NoTexts
  <2>. QED
    BY <1>1, <2>3, <2>4, <2>5 DEF OcrPasses
<1>5. CASE \E c \in Cells : RewriteRow(c)
  <2>1. /\ UNCHANGED <<ocr, texts, dump, kv1>> /\ pending' \subseteq pending /\ pc' # "noocr"
        /\ p1' \in {p1, NoTexts}
    BY <1>5 DEF RewriteRow
  <2>. QED
    BY <1>1, <2>1 DEF OcrPasses
<1>6. CASE \/ Cancel \/ Park \/ BeginTail \/ Crash \/ Pass2Step
           \/ BeginPost \/ SendPaper \/ NextChunk \/ FinishRun \/ FinishRepost \/ FinishReformat
  <2>1. /\ UNCHANGED <<ocr, dump, kv1>> /\ pc' # "noocr"
        /\ texts' \in {texts, {}} /\ pending' \in {pending, {}} /\ p1' \in {p1, NoTexts}
    BY <1>6
    DEF Cancel, Park, BeginTail, Crash, BeginPost, SendPaper, NextChunk, FinishRun, FinishRepost,
        FinishReformat, Pass2Step, BeginPass2, Pass2Online, Pass2Nothing, SubmitP2, SaveP2Id,
        ResumeP2, BatchP2Fails, CollectP2
  <2>. QED
    BY <1>1, <2>1 DEF OcrPasses
<1>7. CASE \E c \in Cells : \/ SaveNoOcr(c) \/ DropP1(c) \/ DropP2(c) \/ MarkDropped(c)
                            \/ SaveReply(c) \/ ReplyRefused(c)
  <2>1. UNCHANGED <<ocr, texts, pending, p1, dump, kv1, pc>> /\ todo' \subseteq todo
    BY <1>7 DEF SaveNoOcr, DropP1, DropP2, MarkDropped, SaveReply, ReplyRefused
  <2>. QED
    BY <1>1, <2>1 DEF OcrPasses
<1>8. CASE \/ \E p \in Papers : ReadPaper(p) \/ PrintPaper(p) \/ SendFails(p) \/ MarkPaper(p)
           \/ \E cid \in Cids : ReformatFails(cid)
           \/ UserStep
  <2>1. /\ UNCHANGED <<ocr, dump, kv1>> /\ pc' # "noocr"
        /\ texts' \in {texts, {}} /\ pending' \in {pending, {}} /\ p1' \in {p1, NoTexts}
    BY <1>8
    DEF ReadPaper, PrintPaper, SendFails, MarkPaper, ReformatFails, IsReformatting, UserStep,
        StartRun, StartRepost, StartReformat
  <2>. QED
    BY <1>1, <2>1 DEF OcrPasses
<1>9. CASE UNCHANGED vars
  BY <1>1, <1>9 DEF vars, OcrPasses
<1>. QED
  BY <1>2, <1>3, <1>4, <1>5, <1>6, <1>7, <1>8, <1>9
  DEF Next, ProgramStep, WriteStep, PostStep, ReformatStep

LEMMA OcrNext == ASSUME OcrInv, [Next]_vars PROVE OcrInv'
<1>1. TypeOK'
  BY TypeNext DEF OcrInv
<1>2. ocr \subseteq ocr' /\ OcrPasses'
  BY <1>1, OcrPass1, OcrElsewhere
<1>3. \A c \in Cells : OcrRow(c)'
  BY <1>2, OcrRows
<1>. QED
  BY <1>1, <1>2, <1>3 DEF OcrInv, OcrPasses, OcrRow

\* An answer that rests on a paper's text is never replaced by "no text", though
\* SEER may have lost the text since: whatever a run, a dump, a batch or a
\* reformat made of a text, its paper is in the cache (orchestrator.py:766-785).
THEOREM TextsStayKnown == Spec => AnswersSurviveNoOcr
<1>1. Init => OcrInv
  BY InitType DEF Init, OcrInv, NoTexts, NoRow, NoPayload
<1>2. ASSUME OcrInv, [Next]_vars
      PROVE  \A c \in Cells : rows[c].payload.p1 # 0 => rows'[c].payload.kind # "no_ocr"
  <2>1. SUFFICES ASSUME NEW c \in Cells, rows[c].payload.p1 # 0, rows'[c].payload.kind = "no_ocr"
                 PROVE  FALSE
    OBVIOUS
  <2>2. c[1] \in ocr /\ rows[c].payload.kind # "no_ocr" /\ TypeOK
    BY <1>2, <2>1 DEF OcrInv
  <2>3. CASE \E d \in Cells : SaveNoOcr(d)
    <3>1. PICK d \in Cells : SaveNoOcr(d)
      BY <2>3
    <3>2. c = d
      BY <2>1, <2>2, <3>1, SavedRow DEF SaveNoOcr
    <3>. QED
      BY <1>2, <2>2, <3>1, <3>2 DEF SaveNoOcr, FirstOf, OcrInv
  <2>4. CASE \E d \in Cells : Saving(d) /\ ~SaveNoOcr(d)
    <3>1. PICK d, kind, text, fmt : /\ d \in Cells /\ kind # "no_ocr"
                                    /\ Save(d, NewPayload(kind, text, fmt))
      BY <2>4 DEF Saving, DropP1, DropP2, SaveReply
    <3>2. /\ rows'[d].payload = NewPayload(kind, text, fmt)
          /\ c # d => rows'[c] = rows[c]
      BY <2>2, <3>1, SavedRow
    <3>. QED
      BY <2>1, <2>2, <3>1, <3>2 DEF NewPayload
  <2>5. CASE \E d \in Cells : RewriteRow(d)
    <3>1. \/ rows'[c] = rows[c]
          \/ rows'[c].payload = NewPayload("answer", rows[c].payload.p1, p1[CidOf(c)])
      BY <2>2, <2>5, RewrittenRow
    <3>. QED
      BY <2>1, <2>2, <3>1 DEF NewPayload
  <2>6. CASE (\E d \in Cells : MarkDropped(d)) \/ \E p \in Papers : MarkPaper(p)
    BY <2>1, <2>2, <2>6, MarkDroppedRow, MarkPaperRow
  <2>7. CASE rows' \in {rows, [d \in Cells |-> NoRow]}
    BY <2>1, <2>2, <2>7 DEF NoRow, NoPayload
  <2>. QED
    BY <1>2, <2>3, <2>4, <2>5, <2>6, <2>7, RowsWritten
<1>3. OcrInv /\ [Next]_vars =>
         [\A c \in Cells : rows[c].payload.p1 # 0 => rows'[c].payload.kind # "no_ocr"]_vars
  BY <1>2
<1>4. OcrInv /\ [Next]_vars => OcrInv'
  BY OcrNext
<1>. QED
  BY <1>1, <1>3, <1>4, PTL DEF Spec, AnswersSurviveNoOcr

---------------------------------------------------------------------------
(* One --papers filter.  A chunk is then the same papers in every          *)
(* invocation, so a batch or a dump found under its number is one of its   *)
(* own.  Under two filters it may be that of other papers.                 *)

OneScope == \A S, T \in Scopes : S = T

\* The chunk a filter puts a paper in.
PlaceOf(S, p) ==
    IF ChunkPapers = 0 THEN 1 ELSE (Cardinality({x \in S : x < p}) \div ChunkPapers) + 1

InChunk(k) == {p \in Papers : \E S \in Scopes : p \in S /\ PlaceOf(S, p) = k}

LEMMA ChunkIsFixed ==
    ASSUME OneScope, TypeOK, scope \in Scopes
    PROVE  ChunkPaperSet = InChunk(chunk)
BY DEF OneScope, InChunk, PlaceOf, ChunkPaperSet, ChunkOf, TypeOK, ControlOK

LEMMA ChunksAreApart ==
    ASSUME OneScope, NEW j, NEW k, NEW p \in InChunk(j), p \in InChunk(k)
    PROVE  j = k
BY DEF OneScope, InChunk

\* What a batch has delivered is in a dump of its chunk, or on its way there.
TextsHeld ==
    \A cid \in paid :
        \/ \E k \in Chunks : cid[1] \in InChunk(k) /\ dump[k][cid] # 0
        \/ pc = "p1dump" /\ cid[1] \in InChunk(chunk) /\ p1[cid] # 0

\* The calls Pass 1 hands over as without a text have none in the chunk's dump.
DropsAreEmpty ==
    pc = "p1drop" => /\ UsesBatchP1 => p1 = dump[chunk]
                     /\ mode = "dry" => todo = {}
                     /\ \A c \in todo : p1[CidOf(c)] = 0

BoughtInv ==
    /\ PhaseInv
    /\ pc # "idle" => scope \in Scopes /\ inv # 0
    /\ AtPass1Batch => UsesBatchP1 /\ dump[chunk] = NoTexts
    /\ \A k \in Chunks : \A cid \in kv1[k] : cid[1] \in InChunk(k)
    /\ paid # {} => BatchP1
    /\ TextsHeld
    /\ DropsAreEmpty

\* Steps that make or end a Pass-1 batch, or write down its texts.
Pass1Batch == SubmitP1 \/ SaveP1Id \/ ResumeP1 \/ BatchP1Fails \/ CollectP1 \/ DumpP1

\* The other steps of the program leave batches, dumps and texts delivered alone.
LEMMA OutsidePass1Batch ==
    ASSUME [Next]_vars, ~Pass1Batch, ~UserStep, ~Crash
    PROVE  /\ UNCHANGED <<kv1, dump, paid, scope, inv>>
           /\ pc = "idle" => pc' = "idle"
           /\ \/ ~AtPass1Batch' /\ pc # "p1dump"
              \/ UNCHANGED <<pc, chunk, p1, mode>>
           /\ \/ Pass1Online \/ Pass1Aborts \/ Pass1FromDump \/ Pass1Nothing
              \/ pc' # "p1drop"
              \/ UNCHANGED <<pc, chunk, p1, mode>> /\ todo' \subseteq todo
<1>. USE DEF AtPass1Batch, Mishap, EndProcess, EndPass1, EndPass2, NoteQuota
<1>1. CASE \/ Cancel \/ ResolveTexts \/ BeginPass1 \/ Park \/ BeginTail
  BY <1>1 DEF Cancel, ResolveTexts, BeginPass1, Park, BeginTail
<1>2. CASE Pass1Online \/ Pass1Aborts \/ Pass1FromDump \/ Pass1Nothing
  BY <1>2 DEF Pass1Online, Pass1Aborts, Pass1FromDump, Pass1Nothing
<1>3. CASE Pass2Step
  BY <1>3 DEF Pass2Step, BeginPass2, Pass2Online, Pass2Nothing, SubmitP2, SaveP2Id, ResumeP2,
              BatchP2Fails, CollectP2
<1>4. CASE \E c \in Cells : SaveNoOcr(c) \/ DropP1(c) \/ DropP2(c) \/ MarkDropped(c)
  BY <1>4 DEF SaveNoOcr, DropP1, DropP2, MarkDropped
<1>5. CASE \E c \in Cells : SaveReply(c) \/ ReplyRefused(c) \/ RewriteRow(c)
  BY <1>5 DEF SaveReply, ReplyRefused, RewriteRow
<1>6. CASE BeginPost \/ SendPaper \/ NextChunk \/ FinishRun \/ FinishRepost
  BY <1>6 DEF BeginPost, SendPaper, NextChunk, FinishRun, FinishRepost
<1>7. CASE \E p \in Papers : ReadPaper(p) \/ PrintPaper(p) \/ SendFails(p) \/ MarkPaper(p)
  BY <1>7 DEF ReadPaper, PrintPaper, SendFails, MarkPaper
<1>8. CASE ReformatStep
  BY <1>8 DEF ReformatStep, ReformatFails, ReformatGroup, FinishReformat, IsReformatting
<1>9. CASE UNCHANGED vars
  BY <1>9 DEF vars
<1>. QED
  BY <1>1, <1>2, <1>3, <1>4, <1>5, <1>6, <1>7, <1>8, <1>9
  DEF Next, ProgramStep, Pass1Step, WriteStep, PostStep, Pass1Batch

\* A batch is of papers of its chunk, and is there only while no dump is.
LEMMA BoughtPass1 ==
    ASSUME OneScope, BoughtInv, PhaseInv', Pass1Batch
    PROVE  BoughtInv'
<1>. USE DEF Mishap, NoteQuota, EndPass1, AtPass1Batch, UsesBatchP1, ForgetBatchP1, DropsAreEmpty
<1>1. /\ pc \in {"pass1", "p1save", "p1poll", "p1dump"} /\ mode = "run" /\ BatchP1
      /\ UNCHANGED <<scope, chunk, inv, mode>>
      /\ dump[chunk] = NoTexts
  BY DEF Pass1Batch, SubmitP1, SaveP1Id, ResumeP1, BatchP1Fails, CollectP1, DumpP1, UsesBatchP1,
         EndProcess, BoughtInv
<1>2. /\ TypeOK /\ chunk \in Chunks /\ scope \in Scopes /\ inv # 0
      /\ kv1 \in [Chunks -> SUBSET Cids] /\ dump \in [Chunks -> [Cids -> Nat]]
      /\ paid \subseteq Cids /\ \A cid \in Cids : NoTexts[cid] = 0
  BY <1>1 DEF BoughtInv, PhaseInv, TypeOK, StoreOK, ControlOK, GhostsOK, NoTexts
<1>3. \A cid \in pending : cid[1] \in InChunk(chunk)
  BY <1>1, <1>2, ChunkIsFixed DEF BoughtInv, PhaseInv, WithinChunk
<1>4. CASE SubmitP1 \/ ResumeP1
  BY <1>1, <1>2, <1>4 DEF SubmitP1, ResumeP1, BoughtInv, TextsHeld
<1>5. CASE SaveP1Id
  BY <1>1, <1>2, <1>3, <1>5 DEF SaveP1Id, BoughtInv, TextsHeld
<1>6. CASE BatchP1Fails
  BY <1>1, <1>2, <1>6 DEF BatchP1Fails, EndProcess, BoughtInv, TextsHeld
<1>7. CASE CollectP1
  <2>1. PICK ok \in SUBSET kv1[chunk] :
           /\ p1' = [cid \in Cids |-> IF cid \in ok THEN inv ELSE 0]
           /\ paid' = paid \union ok
    BY <1>7 DEF CollectP1
  <2>2. pc = "p1poll" /\ pc' = "p1dump" /\ dump' = dump /\ kv1' = [kv1 EXCEPT ![chunk] = {}]
    BY <1>7 DEF CollectP1
  <2>3. \A cid \in ok : cid \in Cids /\ cid[1] \in InChunk(chunk) /\ p1'[cid] # 0
    BY <1>2, <2>1 DEF BoughtInv
  <2>4. TextsHeld'
    BY <1>1, <2>1, <2>2, <2>3 DEF BoughtInv, TextsHeld
  <2>. QED
    BY <1>1, <1>2, <2>2, <2>4 DEF BoughtInv
<1>8. CASE DumpP1
  <2>1. /\ pc = "p1dump" /\ pc' = "p1drop" /\ UNCHANGED <<p1, paid, kv1>>
        /\ dump' = [dump EXCEPT ![chunk] = p1]
        /\ todo' = CellsIn({cid \in pending : p1[cid] = 0})
    BY <1>8 DEF DumpP1
  <2>2. /\ dump'[chunk] = p1
        /\ \A k \in Chunks : k # chunk => dump'[k] = dump[k]
    BY <1>2, <2>1
  <2>3. TextsHeld'
    <3>1. SUFFICES ASSUME NEW cid \in paid
                   PROVE  \E k \in Chunks : cid[1] \in InChunk(k) /\ dump'[k][cid] # 0
      BY <2>1 DEF TextsHeld
    <3>2. CASE cid[1] \in InChunk(chunk) /\ p1[cid] # 0
      BY <1>2, <2>2, <3>2
    <3>3. CASE \E k \in Chunks : cid[1] \in InChunk(k) /\ dump[k][cid] # 0
      <4>1. PICK k \in Chunks : cid[1] \in InChunk(k) /\ dump[k][cid] # 0
        BY <3>3
      <4>2. k # chunk
        BY <1>1, <1>2, <4>1
      <4>. QED
        BY <2>2, <4>1, <4>2
    <3>. QED
      BY <3>1, <3>2, <3>3 DEF BoughtInv, TextsHeld
  <2>4. DropsAreEmpty'
    BY <1>1, <2>1, <2>2 DEF CellsIn
  <2>. QED
    BY <1>1, <1>2, <2>1, <2>3, <2>4 DEF BoughtInv
<1>. QED
  BY <1>4, <1>5, <1>6, <1>7, <1>8 DEF Pass1Batch

\* What Pass 1 hands over without making a batch.
LEMMA BoughtHandedOver ==
    ASSUME BoughtInv, Pass1Online \/ Pass1Aborts \/ Pass1FromDump \/ Pass1Nothing
    PROVE  DropsAreEmpty'
<1>. USE DEF EndPass1, Mishap, NoteQuota, UsesBatchP1
<1>1. /\ UNCHANGED <<mode, chunk, dump>>
      /\ todo' = CellsIn({cid \in pending : p1'[cid] = 0})
      /\ UsesBatchP1 => p1' = dump[chunk]
  BY DEF Pass1Online, Pass1Aborts, Pass1FromDump, Pass1Nothing
<1>2. mode = "dry" => \A cid \in pending : p1'[cid] # 0
  <2>1. pc # "idle" /\ inv # 0 /\ pending \subseteq Cids
    BY DEF Pass1Online, Pass1Aborts, Pass1FromDump, Pass1Nothing, BoughtInv, PhaseInv, TypeOK,
           LocalsOK
  <2>. QED
    BY <2>1 DEF Pass1Online, Pass1Aborts, Pass1FromDump, Pass1Nothing
<1>3. mode = "dry" => todo' = {}
  BY <1>1, <1>2 DEF CellsIn
<1>. QED
  BY <1>1, <1>3 DEF DropsAreEmpty, CellsIn

LEMMA BoughtNext == ASSUME OneScope, BoughtInv, [Next]_vars PROVE BoughtInv'
<1>1. PhaseInv'
  BY PhaseNext DEF BoughtInv
<1>2. CASE Pass1Batch
  BY <1>1, <1>2, BoughtPass1
<1>3. CASE UserStep
  <2>1. /\ pc = "idle" /\ pc' \in {"boundary", "post", "reformat"} /\ scope' \in Scopes
        /\ inv' = inv + 1 /\ UNCHANGED <<kv1, dump>> /\ paid' \subseteq paid
    BY <1>3 DEF UserStep, StartRun, StartRepost, StartReformat
  <2>2. inv \in Nat
    BY DEF BoughtInv, PhaseInv, TypeOK, GhostsOK
  <2>3. TextsHeld'
    BY <2>1 DEF BoughtInv, TextsHeld
  <2>. QED
    BY <1>1, <2>1, <2>2, <2>3 DEF BoughtInv, AtPass1Batch, DropsAreEmpty
<1>4. CASE Crash
  <2>1. /\ UNCHANGED <<kv1, dump, scope, inv>> /\ pc' = "idle"
        /\ paid' = IF pc = "p1dump" THEN {cid \in paid : p1[cid] = 0} ELSE paid
    BY <1>4 DEF Crash, EndProcess
  <2>2. TextsHeld'
    BY <2>1 DEF BoughtInv, TextsHeld
  <2>. QED
    BY <1>1, <2>1, <2>2 DEF BoughtInv, AtPass1Batch, DropsAreEmpty
<1>5. CASE ~Pass1Batch /\ ~UserStep /\ ~Crash
  <2>1. TextsHeld'
    BY <1>5, OutsidePass1Batch DEF BoughtInv, TextsHeld
  <2>2. DropsAreEmpty'
    BY <1>5, OutsidePass1Batch, BoughtHandedOver DEF BoughtInv, DropsAreEmpty, UsesBatchP1
  <2>. QED
    BY <1>1, <1>5, <2>1, <2>2, OutsidePass1Batch DEF BoughtInv, AtPass1Batch, UsesBatchP1
<1>. QED
  BY <1>2, <1>3, <1>4, <1>5

LEMMA BoughtInit == Init => BoughtInv
BY InitType
DEF Init, BoughtInv, PhaseInv, AtPass1Batch, TextsHeld, DropsAreEmpty, PassPhases, PostPhases

\* Under one --papers filter, what one batch has delivered is not asked of another
\* unless a process was killed with it in hand, between collecting the batch and
\* dumping its texts, though batches park, fail, are resumed by later invocations
\* and the table is reset (batch_runner.py:886-932, 956-976).  A second filter may
\* put the paper in a chunk whose number knows nothing of that dump.
THEOREM BatchTextsAreBoughtOnce ==
    ASSUME OneScope
    PROVE  Spec => TextsBoughtOnce
<1>1. ASSUME BoughtInv, pc = "p1poll", pc' = "p1dump", [Next]_vars
      PROVE  \A cid \in Cids : p1'[cid] # 0 => cid \notin paid
  <2>1. CollectP1
    BY <1>1, OutsidePass1Batch
    DEF Pass1Batch, SubmitP1, SaveP1Id, ResumeP1, BatchP1Fails, DumpP1, EndProcess, EndPass1,
        UserStep, StartRun, StartRepost, StartReformat, Crash, AtPass1Batch
  <2>2. \A cid \in Cids : p1'[cid] # 0 => cid \in kv1[chunk]
    BY <2>1 DEF CollectP1
  <2>3. /\ dump[chunk] = NoTexts /\ chunk \in Chunks /\ TextsHeld
        /\ \A cid \in Cids : NoTexts[cid] = 0
    BY <1>1 DEF BoughtInv, AtPass1Batch, PhaseInv, TypeOK, ControlOK, NoTexts
  <2>4. SUFFICES ASSUME NEW cid \in Cids, cid \in kv1[chunk], cid \in paid
                 PROVE  FALSE
    BY <2>2
  <2>5. cid[1] \in InChunk(chunk)
    BY <1>1, <2>3, <2>4 DEF BoughtInv
  <2>6. PICK k \in Chunks : cid[1] \in InChunk(k) /\ dump[k][cid] # 0
    BY <1>1, <2>3, <2>4 DEF TextsHeld
  <2>7. k = chunk
    BY <2>5, <2>6, ChunksAreApart
  <2>. QED
    BY <2>3, <2>6, <2>7
<1>2. BoughtInv /\ [Next]_vars =>
         [(pc = "p1poll" /\ pc' = "p1dump") =>
             \A cid \in Cids : p1'[cid] # 0 => cid \notin paid]_vars
  BY <1>1
<1>3. BoughtInv /\ [Next]_vars => BoughtInv'
  BY BoughtNext
<1>. QED
  BY BoughtInit, <1>2, <1>3, PTL DEF Spec, TextsBoughtOnce

\* Nor is it missed: under one --papers filter no cell gets an error answer for
\* want of a text that a batch has delivered, in the invocation that collected the
\* batch or in a later one that finds its dump (batch_runner.py:956-976, 1081-1086;
\* orchestrator.py:842-891).
THEOREM BatchTextsAreUsed ==
    ASSUME OneScope
    PROVE  Spec => PaidTextsAreUsed
<1>1. ASSUME BoughtInv, [Next]_vars, NEW c \in Cells, rows'[c].payload # rows[c].payload,
             rows'[c].payload.kind \in {"p1_error", "p1_lost"}, CidOf(c) \in paid
      PROVE  FALSE
  <2>1. /\ TypeOK /\ PhaseInv /\ BatchP1 /\ TextsHeld
    BY <1>1 DEF BoughtInv, PhaseInv
  <2>2. pc = "p1drop" /\ c \in todo
    BY <1>1, <2>1, DropsWithoutText DEF WithoutText
  <2>3. mode = "run" /\ chunk \in Chunks /\ scope \in Scopes
    BY <1>1, <2>1, <2>2
    DEF BoughtInv, DropsAreEmpty, PhaseInv, PostPhases, TypeOK, ControlOK
  <2>4. dump[chunk][CidOf(c)] = 0
    BY <1>1, <2>1, <2>2, <2>3 DEF BoughtInv, DropsAreEmpty, UsesBatchP1
  <2>5. c[1] \in InChunk(chunk)
    BY <2>1, <2>2, <2>3, ChunkIsFixed DEF PhaseInv, WithinChunk
  <2>6. PICK k \in Chunks : CidOf(c)[1] \in InChunk(k) /\ dump[k][CidOf(c)] # 0
    BY <1>1, <2>1, <2>2 DEF TextsHeld
  <2>7. k = chunk
    BY <2>5, <2>6, ChunksAreApart DEF CidOf
  <2>. QED
    BY <2>4, <2>6, <2>7
<1>2. BoughtInv /\ [Next]_vars =>
         [\A c \in Cells :
             (rows'[c].payload # rows[c].payload
                /\ rows'[c].payload.kind \in {"p1_error", "p1_lost"})
             => CidOf(c) \notin paid]_vars
  BY <1>1
<1>3. BoughtInv /\ [Next]_vars => BoughtInv'
  BY BoughtNext
<1>. QED
  BY BoughtInit, <1>2, <1>3, PTL DEF Spec, PaidTextsAreUsed


\* Where nothing has failed, a chunk is answered as a whole or not at all, and
\* so is every batch and dump of it.
CidsIn(k) == {cid \in Cids : cid[1] \in InChunk(k)}

Untouched(table, k) == \A c \in Cells : c[1] \in InChunk(k) => table[c].status = "absent"
Settled(table, k)   == \A c \in Cells : c[1] \in InChunk(k) => table[c].status # "absent"

RowsUnharmed ==
    \A c \in Cells : /\ rows[c].status \in {"absent", "done", "posted"}
                     /\ rows[c].payload.kind # "p1_lost"

ChunksEven ==
    \A k \in Chunks : Untouched(rows, k) \/ Settled(rows, k) \/ (pc = "tail" /\ k = chunk)

Covers(text, k) == \A cid \in CidsIn(k) : text[cid] # 0

KeptWhole ==
    \A k \in Chunks : /\ dump[k] = NoTexts \/ Covers(dump[k], k)
                      /\ kv1[k] \in {{}, CidsIn(k)}
                      /\ kv2[k] = NoTexts \/ Covers(kv2[k], k)

InPasses == pc \in {"pass1", "p1save", "p1poll", "p1dump", "p1drop",
                    "pass2", "p2save", "p2poll", "p2drop"}

WorkWhole ==
    /\ toMark = {}
    /\ pc \in {"noocr", "p1drop", "p2drop"} => todo = {}
    /\ pc = "noocr" => texts = InChunk(chunk)
    /\ InPasses => \/ pending = {} /\ Settled(rows, chunk)
                   \/ pending = CidsIn(chunk) /\ Untouched(rows, chunk)
    /\ AtPass1Batch \/ AtPass2Batch => pending # {}
    /\ pc = "p1poll" => kv1[chunk] # {}
    /\ pc = "p2poll" => kv2[chunk] # NoTexts
    /\ (InPasses /\ pc \notin {"pass1", "p1save", "p1poll"}) => \A cid \in pending : p1[cid] # 0
    /\ pc = "p2drop" => \A cid \in pending : p2[cid] # 0
    /\ pc = "tail" =>
          \A c \in Cells : (c[1] \in InChunk(chunk) /\ rows[c].status = "absent") => c \in todo

NoLoss == RowsUnharmed /\ ChunksEven /\ KeptWhole /\ WorkWhole

NoLossInv == BoughtInv /\ (setbacks + crashes = 0 => NoLoss)

\* Steps of the passes leave the table alone.
LEMMA PassKeepsTable ==
    ASSUME NoLoss, UNCHANGED <<rows, chunk>>, pc # "tail", KeptWhole', WorkWhole'
    PROVE  NoLoss'
BY DEF NoLoss, RowsUnharmed, ChunksEven

\* Outside the passes no call is pending.
LEMMA LossAway ==
    ASSUME NoLoss, UNCHANGED <<kv1, kv2, dump>>, toMark' = {}, RowsUnharmed', ChunksEven',
           pc' \in {"idle", "boundary", "post", "send", "ack", "reformat", "rewrite"}
    PROVE  NoLoss'
BY DEF NoLoss, KeptWhole, WorkWhole, InPasses, AtPass1Batch, AtPass2Batch

LEMMA EvenStays ==
    ASSUME ChunksEven, pc # "tail",
           \A c \in Cells : rows'[c].status = "absent" <=> rows[c].status = "absent"
    PROVE  ChunksEven'
BY DEF ChunksEven, Untouched, Settled

\* An invocation finds all of its chunk settled, or asks for all of it.
LEMMA LossPass1 ==
    ASSUME OneScope, BoughtInv, NoLoss, setbacks = 0, setbacks' = 0,
           ResolveTexts \/ BeginPass1 \/ Pass1Step
    PROVE  NoLoss'
<1>. USE DEF Mishap, NoteQuota, EndPass1, ForgetBatchP1
<1>0. ~Pass1Aborts /\ ~BatchP1Fails
  BY DEF Pass1Aborts, BatchP1Fails
<1>1. /\ pc \in {"boundary", "noocr", "pass1", "p1save", "p1poll", "p1dump"}
      /\ UNCHANGED <<rows, chunk, kv2, toMark>>
  BY <1>0
  DEF ResolveTexts, BeginPass1, Pass1Step, Pass1Online, Pass1FromDump, Pass1Nothing, SubmitP1,
      SaveP1Id, ResumeP1, CollectP1, DumpP1
<1>2. /\ chunk \in Chunks /\ scope \in Scopes /\ inv # 0 /\ ChunkPaperSet = InChunk(chunk)
      /\ kv1 \in [Chunks -> SUBSET Cids] /\ dump \in [Chunks -> [Cids -> Nat]]
      /\ pending \subseteq Cids
  BY <1>1, ChunkIsFixed DEF BoughtInv, PhaseInv, TypeOK, StoreOK, ControlOK, LocalsOK
<1>3. RowsUnharmed /\ ChunksEven /\ KeptWhole /\ WorkWhole
  BY DEF NoLoss
<1>4. CASE ResolveTexts
  <2>1. /\ ChunkPaperSet \subseteq ocr' /\ texts' = ChunkPaperSet \cap ocr'
        /\ todo' = {c \in Cells : c[1] \in ChunkPaperSet \ ocr'} /\ pc' = "noocr"
        /\ UNCHANGED <<kv1, dump, chunk>> /\ pc = "boundary"
    BY <1>4 DEF ResolveTexts
  <2>2. texts' = InChunk(chunk) /\ todo' = {}
    BY <1>2, <2>1
  <2>3. KeptWhole' /\ WorkWhole'
    BY <1>1, <1>3, <2>1, <2>2 DEF KeptWhole, WorkWhole, InPasses, AtPass1Batch, AtPass2Batch
  <2>. QED
    BY <1>1, <2>1, <2>3, PassKeepsTable
<1>5. CASE BeginPass1
  <2>1. /\ pc = "noocr" /\ texts = InChunk(chunk) /\ pc' = "pass1"
        /\ pending' = {cid \in Cids : /\ cid[1] \in texts
                                      /\ \E c \in CellsOf(cid) : ~ShouldSkip(rows[c])}
        /\ UNCHANGED <<kv1, dump, chunk>>
    BY <1>3, <1>5 DEF BeginPass1, WorkWhole
  <2>2. \A cid \in Cids : \E c \in Cells : c \in CellsOf(cid)
    <3>1. SUFFICES ASSUME NEW cid \in Cids PROVE \E c \in Cells : c \in CellsOf(cid)
      OBVIOUS
    <3>2. PICK p \in Papers, g \in Groups : cid = <<p, g>>
      BY DEF Cids
    <3>3. PICK q \in Questions : g = GroupOf[q]
      BY DEF Groups
    <3>4. <<p, q>> \in Cells /\ CidOf(<<p, q>>) = cid
      BY <3>2, <3>3 DEF Cells, CidOf
    <3>. QED
      BY <3>4 DEF CellsOf
  <2>3. \A cid \in Cids : \A c \in CellsOf(cid) : c \in Cells /\ c[1] = cid[1]
    BY DEF CellsOf, CidOf
  <2>4. CASE Untouched(rows, chunk)
    <3>1. ASSUME NEW cid \in CidsIn(chunk) PROVE cid \in pending'
      <4>1. PICK c \in Cells : c \in CellsOf(cid)
        BY <2>2 DEF CidsIn
      <4>2. c[1] \in InChunk(chunk)
        BY <2>3, <4>1 DEF CidsIn
      <4>3. ~ShouldSkip(rows[c])
        BY <2>4, <4>2 DEF Untouched, ShouldSkip
      <4>. QED
        BY <2>1, <4>1, <4>3 DEF CidsIn
    <3>2. pending' = CidsIn(chunk)
      BY <2>1, <3>1 DEF CidsIn
    <3>. QED
      BY <1>1, <1>3, <2>1, <2>4, <3>2, PassKeepsTable
      DEF KeptWhole, WorkWhole, InPasses, AtPass1Batch, AtPass2Batch
  <2>5. CASE Settled(rows, chunk)
    <3>1. ASSUME NEW cid \in Cids, cid[1] \in InChunk(chunk), NEW c \in CellsOf(cid)
          PROVE  ShouldSkip(rows[c])
      <4>1. c \in Cells /\ c[1] \in InChunk(chunk)
        BY <2>3, <3>1
      <4>. QED
        BY <1>3, <2>5, <4>1 DEF Settled, RowsUnharmed, ShouldSkip
    <3>2. pending' = {}
      BY <2>1, <3>1
    <3>. QED
      BY <1>1, <1>3, <2>1, <2>5, <3>2, PassKeepsTable
      DEF KeptWhole, WorkWhole, InPasses, AtPass1Batch, AtPass2Batch
  <2>. QED
    BY <1>2, <1>3, <2>1, <2>4, <2>5 DEF ChunksEven
<1>6. CASE Pass1Online \/ Pass1FromDump \/ Pass1Nothing
  <2>1. /\ UNCHANGED <<kv1, dump, pending>> /\ pc = "pass1" /\ pc' = "p1drop"
        /\ todo' = CellsIn({cid \in pending : p1'[cid] = 0})
    BY <1>6 DEF Pass1Online, Pass1FromDump, Pass1Nothing
  <2>2. \A cid \in pending : p1'[cid] # 0
    <3>1. CASE Pass1Online
      BY <1>2, <3>1 DEF Pass1Online
    <3>2. CASE Pass1FromDump
      BY <1>2, <1>3, <2>1, <3>2 DEF Pass1FromDump, KeptWhole, Covers, WorkWhole, InPasses
    <3>3. CASE Pass1Nothing
      BY <3>3 DEF Pass1Nothing
    <3>. QED
      BY <1>6, <3>1, <3>2, <3>3
  <2>3. todo' = {}
    BY <2>1, <2>2 DEF CellsIn
  <2>. QED
    BY <1>1, <1>3, <2>1, <2>2, <2>3, PassKeepsTable
    DEF KeptWhole, WorkWhole, InPasses, AtPass1Batch, AtPass2Batch
<1>7. CASE SubmitP1 \/ ResumeP1
  <2>1. /\ UNCHANGED <<kv1, dump, pending>> /\ pc = "pass1" /\ pending # {}
        /\ pc' = "p1save" \/ (pc' = "p1poll" /\ kv1[chunk] # {})
    BY <1>7 DEF SubmitP1, ResumeP1
  <2>. QED
    BY <1>1, <1>3, <2>1, PassKeepsTable
    DEF KeptWhole, WorkWhole, InPasses, AtPass1Batch, AtPass2Batch
<1>8. CASE SaveP1Id
  <2>1. /\ UNCHANGED <<dump, pending>> /\ pc = "p1save" /\ pc' = "p1poll"
        /\ kv1' = [kv1 EXCEPT ![chunk] = pending]
    BY <1>8 DEF SaveP1Id
  <2>2. pending = CidsIn(chunk) /\ pending # {}
    BY <1>3, <2>1 DEF WorkWhole, InPasses, AtPass1Batch
  <2>3. KeptWhole' /\ kv1'[chunk] # {}
    BY <1>1, <1>2, <1>3, <2>1, <2>2 DEF KeptWhole
  <2>. QED
    BY <1>1, <1>3, <2>1, <2>3, PassKeepsTable
    DEF WorkWhole, InPasses, AtPass1Batch, AtPass2Batch
<1>9. CASE CollectP1
  <2>1. /\ UNCHANGED <<dump, pending>> /\ pc = "p1poll" /\ pc' = "p1dump"
        /\ kv1' = [kv1 EXCEPT ![chunk] = {}]
        /\ p1' = [cid \in Cids |-> IF cid \in kv1[chunk] THEN inv ELSE 0]
    BY <1>9 DEF CollectP1
  <2>2. pending = CidsIn(chunk) /\ kv1[chunk] = CidsIn(chunk)
    BY <1>2, <1>3, <2>1 DEF KeptWhole, WorkWhole, InPasses, AtPass1Batch
  <2>3. \A cid \in pending : p1'[cid] # 0
    BY <1>2, <2>1, <2>2
  <2>4. KeptWhole'
    BY <1>1, <1>2, <1>3, <2>1 DEF KeptWhole
  <2>. QED
    BY <1>1, <1>3, <2>1, <2>3, <2>4, PassKeepsTable
    DEF WorkWhole, InPasses, AtPass1Batch, AtPass2Batch
<1>10. CASE DumpP1
  <2>1. /\ UNCHANGED <<kv1, pending, p1>> /\ pc = "p1dump" /\ pc' = "p1drop"
        /\ dump' = [dump EXCEPT ![chunk] = p1]
        /\ todo' = CellsIn({cid \in pending : p1[cid] = 0})
    BY <1>10 DEF DumpP1
  <2>2. pending = CidsIn(chunk) /\ \A cid \in pending : p1[cid] # 0
    BY <1>3, <2>1 DEF WorkWhole, InPasses, AtPass1Batch
  <2>3. Covers(p1, chunk) /\ todo' = {}
    BY <2>1, <2>2 DEF Covers, CellsIn
  <2>4. KeptWhole'
    BY <1>1, <1>2, <1>3, <2>1, <2>3 DEF KeptWhole
  <2>. QED
    BY <1>1, <1>3, <2>1, <2>2, <2>3, <2>4, PassKeepsTable
    DEF WorkWhole, InPasses, AtPass1Batch, AtPass2Batch
<1>. QED
  BY <1>0, <1>4, <1>5, <1>6, <1>7, <1>8, <1>9, <1>10 DEF Pass1Step

LEMMA LossPass2 ==
    ASSUME OneScope, BoughtInv, NoLoss, setbacks = 0, setbacks' = 0, Pass2Step \/ BeginTail
    PROVE  NoLoss'
<1>. USE DEF Mishap, NoteQuota, EndPass2, ForgetBatchP2
<1>0. ~BatchP2Fails
  BY DEF BatchP2Fails
<1>1. /\ pc \in {"p1drop", "pass2", "p2save", "p2poll", "p2drop"}
      /\ UNCHANGED <<rows, chunk, kv1, dump, toMark, pending, p1>>
  BY <1>0
  DEF BeginTail, Pass2Step, BeginPass2, Pass2Online, Pass2Nothing, SubmitP2, SaveP2Id, ResumeP2,
      CollectP2
<1>2. /\ chunk \in Chunks /\ kv2 \in [Chunks -> [Cids -> Nat]] /\ pending \subseteq Cids
      /\ p1 \in [Cids -> Nat] /\ \A cid \in Cids : NoTexts[cid] = 0
  BY DEF BoughtInv, PhaseInv, TypeOK, StoreOK, ControlOK, LocalsOK, NoTexts
<1>3. RowsUnharmed /\ ChunksEven /\ KeptWhole /\ WorkWhole
  BY DEF NoLoss
<1>4. ToFormat = pending
  BY <1>1, <1>3 DEF WorkWhole, InPasses, ToFormat
<1>5. CASE BeginPass2 \/ SubmitP2 \/ ResumeP2
  <2>1. /\ kv2' = kv2 /\ todo' = todo
        /\ \/ pc' = "pass2"
           \/ pending # {} /\ pc' = "p2save"
           \/ pending # {} /\ pc' = "p2poll" /\ kv2[chunk] # NoTexts
    BY <1>4, <1>5 DEF BeginPass2, SubmitP2, ResumeP2
  <2>. QED
    BY <1>1, <1>3, <2>1, PassKeepsTable
    DEF KeptWhole, WorkWhole, InPasses, AtPass1Batch, AtPass2Batch
<1>6. CASE Pass2Online \/ Pass2Nothing
  <2>1. /\ kv2' = kv2 /\ pc' = "p2drop"
        /\ todo' = {} /\ \A cid \in pending : p2'[cid] # 0
    <3>1. CASE Pass2Online
      BY <1>2, <1>4, <3>1 DEF Pass2Online, CellsIn, ToFormat
    <3>2. CASE Pass2Nothing
      BY <1>4, <3>2 DEF Pass2Nothing, CellsIn
    <3>. QED
      BY <1>6, <3>1, <3>2
  <2>. QED
    BY <1>1, <1>3, <2>1, PassKeepsTable
    DEF KeptWhole, WorkWhole, InPasses, AtPass1Batch, AtPass2Batch
<1>7. CASE SaveP2Id
  <2>. DEFINE asked == [cid \in Cids |-> IF cid \in ToFormat THEN p1[cid] ELSE 0]
  <2>1. pc = "p2save" /\ pc' = "p2poll" /\ kv2' = [kv2 EXCEPT ![chunk] = asked]
    BY <1>7 DEF SaveP2Id
  <2>2. /\ pending # {} /\ pending = CidsIn(chunk)
        /\ \A cid \in pending : p1[cid] # 0
    BY <1>3, <2>1 DEF WorkWhole, InPasses, AtPass2Batch
  <2>3. \A cid \in pending : asked[cid] # 0
    BY <1>2, <1>4, <2>2
  <2>4. Covers(asked, chunk) /\ asked # NoTexts
    BY <1>2, <2>2, <2>3 DEF Covers
  <2>. HIDE DEF asked
  <2>5. KeptWhole' /\ kv2'[chunk] # NoTexts
    BY <1>1, <1>2, <1>3, <2>1, <2>4 DEF KeptWhole
  <2>. QED
    BY <1>1, <1>3, <2>1, <2>2, <2>5, PassKeepsTable
    DEF WorkWhole, InPasses, AtPass1Batch, AtPass2Batch
<1>8. CASE CollectP2
  <2>1. /\ pc = "p2poll" /\ pc' = "p2drop" /\ kv2' = [kv2 EXCEPT ![chunk] = NoTexts]
    BY <1>8 DEF CollectP2
  <2>. DEFINE requests == {cid \in Cids : kv2[chunk][cid] # 0}
  <2>2. PICK ok \in SUBSET requests : \E errors \in SUBSET (requests \ ok) :
           /\ Mishap(ok # requests)
           /\ p2' = [cid \in Cids |-> IF cid \in ok THEN kv2[chunk][cid] ELSE 0]
           /\ todo' = CellsIn(errors \cap pending)
    BY <1>8 DEF CollectP2
  <2>3. ok = requests /\ todo' = {}
    BY <2>2 DEF CellsIn
  <2>4. pending = CidsIn(chunk) /\ Covers(kv2[chunk], chunk)
    BY <1>2, <1>3, <2>1 DEF KeptWhole, WorkWhole, InPasses, AtPass2Batch
  <2>5. \A cid \in pending : p2'[cid] # 0
    BY <1>2, <2>2, <2>3, <2>4 DEF Covers
  <2>6. KeptWhole'
    BY <1>1, <1>2, <1>3, <2>1 DEF KeptWhole
  <2>. QED
    BY <1>1, <1>3, <2>1, <2>3, <2>5, <2>6, PassKeepsTable
    DEF WorkWhole, InPasses, AtPass1Batch, AtPass2Batch
<1>9. CASE BeginTail
  <2>1. /\ pc = "p2drop" /\ pc' = "tail" /\ kv2' = kv2
        /\ todo' = CellsIn({cid \in pending : p2[cid] # 0})
    BY <1>9 DEF BeginTail
  <2>2. \A c \in Cells : (c[1] \in InChunk(chunk) /\ rows[c].status = "absent") => c \in todo'
    <3>1. SUFFICES ASSUME NEW c \in Cells, c[1] \in InChunk(chunk), rows[c].status = "absent"
                   PROVE  c \in todo'
      OBVIOUS
    <3>2. pending = CidsIn(chunk) /\ \A cid \in pending : p2[cid] # 0
      BY <1>3, <2>1, <3>1 DEF WorkWhole, InPasses, Settled
    <3>3. CidOf(c) \in CidsIn(chunk)
      BY <3>1, CidOfType DEF CidsIn, CidOf
    <3>. QED
      BY <2>1, <3>2, <3>3 DEF CellsIn
  <2>. QED
    BY <1>1, <1>3, <2>1, <2>2, PassKeepsTable
    DEF KeptWhole, WorkWhole, InPasses, AtPass1Batch, AtPass2Batch
<1>. QED
  BY <1>0, <1>5, <1>6, <1>7, <1>8, <1>9 DEF Pass2Step

\* The error loops have nothing to write; a reply settles its cell.
LEMMA LossWrite ==
    ASSUME OneScope, BoughtInv, NoLoss, setbacks = 0, setbacks' = 0,
           \E c \in Cells : \/ SaveNoOcr(c) \/ DropP1(c) \/ DropP2(c) \/ MarkDropped(c)
                            \/ SaveReply(c) \/ ReplyRefused(c)
    PROVE  NoLoss'
<1>1. RowsUnharmed /\ ChunksEven /\ KeptWhole /\ WorkWhole
  BY DEF NoLoss
<1>2. PICK c \in Cells : SaveReply(c)
  BY <1>1 DEF SaveNoOcr, DropP1, DropP2, MarkDropped, ReplyRefused, Mishap, FirstOf, WorkWhole
<1>3. /\ pc = "tail" /\ c \in todo /\ todo' = todo \ {c}
      /\ UNCHANGED <<kv1, kv2, dump, pc, chunk, toMark>>
  BY <1>2 DEF SaveReply
<1>4. PICK kind \in {"dummy", "answer", "parse_error"} :
         Save(c, NewPayload(kind, p1[CidOf(c)], p2[CidOf(c)]))
  BY <1>2 DEF SaveReply
<1>5. /\ rows'[c].status = "done" /\ rows'[c].payload.kind # "p1_lost"
      /\ \A d \in Cells : d # c => rows'[d] = rows[d]
  BY <1>4, SavedRow DEF BoughtInv, PhaseInv, NewPayload
<1>6. c[1] \in InChunk(chunk) /\ chunk \in Chunks
  BY <1>3, ChunkIsFixed DEF BoughtInv, PhaseInv, WithinChunk, TypeOK, ControlOK, PostPhases
<1>7. RowsUnharmed'
  BY <1>1, <1>5 DEF RowsUnharmed
<1>8. \A k \in Chunks : k # chunk =>
         /\ Untouched(rows, k) => Untouched(rows', k)
         /\ Settled(rows, k) => Settled(rows', k)
  BY <1>5, <1>6, ChunksAreApart DEF Untouched, Settled
<1>9. ChunksEven'
  BY <1>1, <1>3, <1>8 DEF ChunksEven
<1>10. KeptWhole'
  BY <1>1, <1>3 DEF KeptWhole
<1>11. WorkWhole'
  BY <1>1, <1>3, <1>5 DEF WorkWhole, InPasses, AtPass1Batch, AtPass2Batch
<1>. QED
  BY <1>7, <1>9, <1>10, <1>11 DEF NoLoss

\* The steps before the passes, after them and beside them.
LEMMA LossElsewhere ==
    ASSUME OneScope, BoughtInv, NoLoss, setbacks = 0, setbacks' = 0,
           \/ Cancel \/ Park \/ PostStep \/ ReformatStep \/ UserStep
           \/ \E c \in Cells : RewriteRow(c)
    PROVE  NoLoss'
<1>. USE DEF Mishap, EndProcess
<1>1. TypeOK /\ RowsUnharmed /\ ChunksEven /\ WorkWhole /\ toMark = {}
  BY DEF NoLoss, WorkWhole, BoughtInv, PhaseInv
<1>2. ~Cancel /\ ~Park
  BY DEF Cancel, Park
<1>3. CASE BeginPost
  <2>1. /\ UNCHANGED <<rows, kv1, kv2, dump, toMark>> /\ pc' = "post"
        /\ pc = "tail" /\ todo = {}
    BY <1>3 DEF BeginPost
  <2>2. Settled(rows, chunk)
    BY <1>1, <2>1 DEF WorkWhole, Settled
  <2>3. ChunksEven' /\ RowsUnharmed'
    BY <1>1, <2>1, <2>2 DEF ChunksEven, RowsUnharmed
  <2>. QED
    BY <1>1, <2>1, <2>3, LossAway
<1>4. CASE \/ SendPaper \/ NextChunk \/ FinishRun \/ FinishRepost \/ ReformatStep
           \/ \E p \in Papers : ReadPaper(p) \/ PrintPaper(p) \/ SendFails(p)
  <2>1. /\ UNCHANGED <<rows, kv1, kv2, dump>> /\ toMark' \in {toMark, {}} /\ pc # "tail"
        /\ pc' \in {"idle", "boundary", "post", "send", "ack", "reformat", "rewrite"}
    BY <1>4
    DEF SendPaper, NextChunk, FinishRun, FinishRepost, ReformatStep, ReformatFails,
        ReformatGroup, IsReformatting, FinishReformat, ReadPaper, PrintPaper, SendFails
  <2>2. ChunksEven' /\ RowsUnharmed'
    BY <1>1, <2>1, EvenStays DEF RowsUnharmed
  <2>. QED
    BY <1>1, <2>1, <2>2, LossAway
<1>5. CASE \E p \in Papers : MarkPaper(p)
  <2>1. /\ UNCHANGED <<kv1, kv2, dump, toMark>> /\ pc = "ack" /\ pc' = "post"
    BY <1>5 DEF MarkPaper
  <2>2. ASSUME NEW c \in Cells
        PROVE  /\ rows'[c].payload = rows[c].payload
               /\ rows'[c].status \in {rows[c].status, "posted"}
               /\ rows'[c].status = "absent" <=> rows[c].status = "absent"
    BY <1>1, <1>5, MarkPaperRow
  <2>3. RowsUnharmed'
    BY <1>1, <2>2 DEF RowsUnharmed
  <2>4. ChunksEven'
    BY <1>1, <2>1, <2>2, EvenStays
  <2>. QED
    BY <1>1, <2>1, <2>3, <2>4, LossAway
<1>6. CASE \E c \in Cells : RewriteRow(c)
  <2>1. PICK c \in Cells : RewriteRow(c)
    BY <1>6
  <2>2. /\ UNCHANGED <<kv1, kv2, dump, toMark>> /\ pc = "rewrite" /\ pc' \in {"reformat", "rewrite"}
    BY <2>1 DEF RewriteRow
  <2>3. /\ \A d \in Cells : d # c => rows'[d] = rows[d]
        /\ \/ rows'[c] = rows[c]
           \/ /\ rows[c].status # "absent"
              /\ rows'[c].status = "done" /\ rows'[c].payload.kind = "answer"
    <3>1. CASE rows[c].status = "absent"
      BY <1>1, <2>1, <3>1, RewrittenRow
    <3>2. CASE rows[c].status # "absent"
      <4>1. rows'[c].payload = NewPayload("answer", rows[c].payload.p1, p1[CidOf(c)])
        BY <1>1, <2>1, <3>2, RewrittenRow
      <4>2. rows'[c].payload.kind = "answer"
        BY <4>1 DEF NewPayload
      <4>. QED
        BY <1>1, <2>1, <3>2, <4>2, RewrittenRow
    <3>. QED
      BY <3>1, <3>2
  <2>4. RowsUnharmed'
    BY <1>1, <2>3 DEF RowsUnharmed
  <2>5. ChunksEven'
    BY <1>1, <2>2, <2>3, EvenStays
  <2>. QED
    BY <1>1, <2>2, <2>4, <2>5, LossAway
<1>7. CASE UserStep
  <2>1. /\ UNCHANGED <<kv1, kv2, dump, toMark>> /\ pc = "idle"
        /\ pc' \in {"boundary", "post", "reformat"}
        /\ rows' = rows \/ rows' = [c \in Cells |-> NoRow]
    BY <1>7 DEF UserStep, StartRun, StartRepost, StartReformat
  <2>2. RowsUnharmed'
    BY <1>1, <2>1 DEF RowsUnharmed, NoRow, NoPayload
  <2>3. ChunksEven'
    <3>1. CASE rows' = rows
      BY <1>1, <2>1, <3>1, EvenStays
    <3>2. CASE rows' = [c \in Cells |-> NoRow]
      BY <3>2 DEF ChunksEven, Untouched, NoRow
    <3>. QED
      BY <2>1, <3>1, <3>2
  <2>. QED
    BY <1>1, <2>1, <2>2, <2>3, LossAway
<1>. QED
  BY <1>2, <1>3, <1>4, <1>5, <1>6, <1>7 DEF PostStep

\* Failures and crashes are only ever counted up.
LEMMA SetbacksAdd ==
    ASSUME [Next]_vars
    PROVE  /\ setbacks' = setbacks \/ setbacks' = setbacks + 1
           /\ crashes' = crashes \/ crashes' = crashes + 1
<1>. USE DEF Mishap
<1>1. CASE \/ Cancel \/ ResolveTexts \/ BeginPass1 \/ Park \/ BeginTail
  BY <1>1 DEF Cancel, ResolveTexts, BeginPass1, Park, BeginTail
<1>2. CASE Pass1Step
  BY <1>2 DEF Pass1Step, Pass1Online, Pass1Aborts, Pass1FromDump, Pass1Nothing, SubmitP1,
              SaveP1Id, ResumeP1, BatchP1Fails, CollectP1, DumpP1
<1>3. CASE Pass2Step
  BY <1>3 DEF Pass2Step, BeginPass2, Pass2Online, Pass2Nothing, SubmitP2, SaveP2Id, ResumeP2,
              BatchP2Fails, CollectP2
<1>4. CASE WriteStep
  BY <1>4 DEF WriteStep, SaveNoOcr, DropP1, DropP2, MarkDropped, SaveReply, ReplyRefused,
              RewriteRow
<1>5. CASE PostStep
  BY <1>5 DEF PostStep, BeginPost, SendPaper, NextChunk, FinishRun, FinishRepost, ReadPaper,
              PrintPaper, SendFails, MarkPaper
<1>6. CASE ReformatStep
  BY <1>6 DEF ReformatStep, ReformatFails, ReformatGroup, FinishReformat
<1>7. CASE UserStep
  BY <1>7 DEF UserStep, StartRun, StartRepost, StartReformat
<1>8. CASE UNCHANGED vars
  BY <1>8 DEF vars
<1>9. CASE Crash
  BY <1>9 DEF Crash
<1>. QED
  BY <1>1, <1>2, <1>3, <1>4, <1>5, <1>6, <1>7, <1>8, <1>9 DEF Next, ProgramStep

LEMMA NoLossNext == ASSUME OneScope, NoLossInv, [Next]_vars PROVE NoLossInv'
<1>1. BoughtInv /\ BoughtInv'
  BY BoughtNext DEF NoLossInv
<1>2. SUFFICES ASSUME setbacks' + crashes' = 0 PROVE NoLoss'
  BY <1>1 DEF NoLossInv
<1>3. setbacks \in Nat /\ crashes \in Nat
  BY <1>1 DEF BoughtInv, PhaseInv, TypeOK, GhostsOK
<1>4. setbacks = 0 /\ setbacks' = 0 /\ crashes = 0 /\ crashes' = 0
  BY <1>2, <1>3, SetbacksAdd
<1>5. NoLoss /\ ~Crash
  BY <1>4 DEF NoLossInv, Crash
<1>6. CASE ResolveTexts \/ BeginPass1 \/ Pass1Step
  BY <1>1, <1>4, <1>5, <1>6, LossPass1
<1>7. CASE Pass2Step \/ BeginTail
  BY <1>1, <1>4, <1>5, <1>7, LossPass2
<1>8. CASE \E c \in Cells : \/ SaveNoOcr(c) \/ DropP1(c) \/ DropP2(c) \/ MarkDropped(c)
                            \/ SaveReply(c) \/ ReplyRefused(c)
  BY <1>1, <1>4, <1>5, <1>8, LossWrite
<1>9. CASE \/ Cancel \/ Park \/ PostStep \/ ReformatStep \/ UserStep
           \/ \E c \in Cells : RewriteRow(c)
  BY <1>1, <1>4, <1>5, <1>9, LossElsewhere
<1>10. CASE UNCHANGED vars
  BY <1>5, <1>10
  DEF vars, NoLoss, RowsUnharmed, ChunksEven, KeptWhole, WorkWhole, InPasses, AtPass1Batch,
      AtPass2Batch
<1>. QED
  BY <1>5, <1>6, <1>7, <1>8, <1>9, <1>10 DEF Next, ProgramStep, WriteStep

LEMMA NoLossInit == Init => NoLossInv
<1>1. Init => NoLoss
  BY DEF Init, NoLoss, RowsUnharmed, ChunksEven, KeptWhole, WorkWhole, InPasses, AtPass1Batch,
         AtPass2Batch, Untouched, NoRow, NoPayload
<1>. QED
  BY <1>1, BoughtInit DEF NoLossInv

\* Online, a call without a text always has an error of its own.
LEMMA NeverLostOnline ==
    ASSUME OnlineInv, \A c \in Cells : rows[c].payload.kind # "p1_lost", [Next]_vars
    PROVE  \A c \in Cells : rows'[c].payload.kind # "p1_lost"
BY DropsWithoutText DEF OnlineInv, WithoutText

\* Where no provider, no store and no SEER fails, nothing is interrupted and no
\* process dies, no answer says that its text was lost, in any sequence of runs,
\* dry runs, resets, reposts and reformats: a dump found under a chunk's number
\* is of the chunk's very papers and has all of their texts
\* (batch_runner.py:886-976, orchestrator.py:842-891).  Online this needs no
\* single filter: there a call without a text has an error of its own.
THEOREM LossNeedsFailure ==
    ASSUME OneScope \/ ~BatchP1
    PROVE  Spec => []LostOnlyAfterFailure
<1>1. CASE OneScope
  <2>1. NoLossInv /\ [Next]_vars => NoLossInv'
    BY <1>1, NoLossNext
  <2>2. NoLossInv => LostOnlyAfterFailure
    BY DEF NoLossInv, NoLoss, RowsUnharmed, LostOnlyAfterFailure
  <2>. QED
    BY NoLossInit, <2>1, <2>2, PTL DEF Spec
<1>2. CASE ~BatchP1
  <2>. DEFINE NoneLost == \A c \in Cells : rows[c].payload.kind # "p1_lost"
  <2>1. Init => OnlineInv /\ NoneLost
    BY OnlineInit DEF Init, NoRow, NoPayload
  <2>2. (OnlineInv /\ NoneLost) /\ [Next]_vars => (OnlineInv /\ NoneLost)'
    BY <1>2, OnlineNext, NeverLostOnline
  <2>3. NoneLost => LostOnlyAfterFailure
    BY DEF LostOnlyAfterFailure
  <2>. HIDE DEF NoneLost
  <2>. QED
    BY <2>1, <2>2, <2>3, PTL DEF Spec
<1>. QED
  BY <1>1, <1>2
=============================================================================
