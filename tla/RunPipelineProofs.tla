------------------------- MODULE RunPipelineProofs -------------------------
(***************************************************************************)
(* Theorems about RunPipeline for every number of papers and questions,    *)
(* every grouping, chunk size, configuration, set of commands and bound.   *)
(***************************************************************************)
EXTENDS RunPipeline, FiniteSetTheorems, TLAPS

---------------------------------------------------------------------------
(* Rows and payloads.                                                      *)

LEMMA SaveAnswerIsRow ==
    ASSUME NEW payload \in Payload
    PROVE  SaveAnswer(payload) \in Row
BY DEF SaveAnswer, Row, Statuses

LEMMA MarkFailedIsRow ==
    ASSUME NEW row \in Row
    PROVE  MarkFailed(row) \in Row
BY DEF MarkFailed, Row, Statuses

LEMMA MarkPostedIsRow ==
    ASSUME NEW row \in Row
    PROVE  MarkPosted(row) \in Row
BY DEF MarkPosted, Row, Statuses

LEMMA UpdateReformattedIsRow ==
    ASSUME NEW row \in Row, NEW payload \in Payload
    PROVE  UpdateReformatted(row, payload) \in Row
BY DEF UpdateReformatted, Row, Statuses

LEMMA NewPayloadIsPayload ==
    ASSUME inv \in Nat, NEW kind \in Kinds, NEW text \in Nat, NEW formatted \in Nat
    PROVE  NewPayload(kind, text, formatted) \in Payload
BY DEF NewPayload, Payload

LEMMA NoRowIsRow == NoRow \in Row
BY DEF NoRow, Row, Statuses

---------------------------------------------------------------------------
(* Types.                                                                  *)

USE DEF durable, seer, control, passes, flags, counts, ghosts, bounds,
        StoreOK, ControlOK, LocalsOK, GhostsOK, Locations, Endings


LEMMA CellsAreFinite == IsFiniteSet(Cells)
<1>1. IsFiniteSet(1..NPapers) /\ IsFiniteSet(1..NQuestions)
  BY SizesAreNat, FS_Interval
<1>2. QED
  BY <1>1, FS_Product DEF Cells, Papers, Questions

LEMMA CountIsNat ==
    ASSUME NEW S \in SUBSET Cells
    PROVE  Cardinality(S) \in Nat
BY CellsAreFinite, FS_Subset, FS_CardinalityType

\* Chunks are numbered within 1..NPapers.
LEMMA ChunkOfPaper ==
    ASSUME scope \subseteq Papers, NEW p \in Papers
    PROVE  ChunkOf(p) \in Nat /\ ChunkOf(p) <= NPapers
<1>1. CASE ChunkPapers = 0
  BY <1>1, SizesAreNat DEF ChunkOf
<1>2. CASE ChunkPapers # 0
  <2> DEFINE earlier == {x \in scope : x < p}
  <2>1. p - 1 \in Int /\ earlier \subseteq 1..(p - 1)
    <3>1. NPapers \in Nat /\ p \in 1..NPapers /\ scope \subseteq 1..NPapers
      BY SizesAreNat DEF Papers
    <3>2. ASSUME NEW x \in earlier PROVE x \in 1..(p - 1)
      BY <3>1
    <3>3. earlier \subseteq 1..(p - 1)
      BY <3>2
    <3>4. QED
      BY <3>1, <3>3
  <2>2. IsFiniteSet(1..(p - 1)) /\ Cardinality(1..(p - 1)) = p - 1
    BY <2>1, SizesAreNat, FS_Interval DEF Papers
  <2>3. Cardinality(earlier) \in Nat /\ Cardinality(earlier) <= p - 1
    BY <2>1, <2>2, FS_Subset, FS_CardinalityType
  <2>4. \A n \in Nat : n \div ChunkPapers \in Nat /\ n \div ChunkPapers <= n
    BY <1>2, SizesAreNat
  <2>5. ChunkOf(p) = (Cardinality(earlier) \div ChunkPapers) + 1
    BY <1>2 DEF ChunkOf
  <2>6. QED
    BY <2>3, <2>4, <2>5, SizesAreNat DEF Papers
<1>3. QED
  BY <1>1, <1>2

LEMMA EndProcessType ==
    ASSUME TypeOK, NEW how \in Endings, EndProcess(how)
    PROVE  ControlOK' /\ LocalsOK' /\ verdict' \in Endings /\ inv' = inv
BY DEF EndProcess, TypeOK, NoTexts, EmptyOutbox

LEMMA SaveType ==
    ASSUME TypeOK, NEW c \in Cells, NEW payload \in Payload, Save(c, payload)
    PROVE  /\ rows' \in [Cells -> Row]
           /\ seen' \in [Cells -> {"new", "ok", "error"}]
           /\ cellsDone' \in Int
           /\ cellsError' \in Int
<1>1. rows' \in [Cells -> Row]
  BY SaveAnswerIsRow DEF Save, TypeOK
<1>2. QED
  BY <1>1 DEF Save, CountPayload, Verdict, TypeOK

LEMMA CidOfType == \A c \in Cells : CidOf(c) \in Cids
BY DEF Cells, Cids, CidOf, Groups

LEMMA CancelType ==
    ASSUME TypeOK, Cancel
    PROVE  TypeOK'
<1>1. ControlOK' /\ LocalsOK' /\ verdict' \in Endings /\ inv' = inv
  BY EndProcessType DEF Cancel
<1>2. QED
  BY <1>1 DEF Cancel, Mishap, TypeOK

LEMMA ResolveTextsType ==
    ASSUME TypeOK, ResolveTexts
    PROVE  TypeOK'
BY DEF ResolveTexts, Mishap, ChunkPaperSet, TypeOK

LEMMA SaveNoOcrType ==
    ASSUME TypeOK, NEW c \in Cells, SaveNoOcr(c)
    PROVE  TypeOK'
<1> DEFINE payload == NewPayload("no_ocr", 0, 0)
<1>1. payload \in Payload
  BY NewPayloadIsPayload, CidOfType DEF TypeOK, Kinds, ProviderErrors, FinalErrors
<1>2. Save(c, payload)
  BY DEF SaveNoOcr
<1>3. /\ rows' \in [Cells -> Row]
      /\ seen' \in [Cells -> {"new", "ok", "error"}]
      /\ cellsDone' \in Int
      /\ cellsError' \in Int
  BY <1>1, <1>2, SaveType
<1>4. QED
  BY <1>3 DEF SaveNoOcr, TypeOK

LEMMA BeginPass1Type ==
    ASSUME TypeOK, BeginPass1
    PROVE  TypeOK'
BY DEF BeginPass1, TypeOK

LEMMA Pass1OnlineType ==
    ASSUME TypeOK, Pass1Online
    PROVE  TypeOK'
BY DEF Pass1Online, Mishap, EndPass1, NoteQuota, CellsIn, TypeOK

LEMMA Pass1AbortsType ==
    ASSUME TypeOK, Pass1Aborts
    PROVE  TypeOK'
<1>1. p1' \in [Cids -> Nat] /\ todo' \subseteq Cells /\ p1err' \subseteq Cids /\ pc' \in Locations
  BY DEF Pass1Aborts, EndPass1, CellsIn, NoTexts, TypeOK
<1>2. hadFatal' \in BOOLEAN /\ quota' \in BOOLEAN /\ firstErr' \in BOOLEAN
  BY DEF Pass1Aborts, EndPass1, TypeOK
<1>3. QED
  BY <1>1, <1>2 DEF Pass1Aborts, Mishap, EndPass1, TypeOK

LEMMA Pass1FromDumpType ==
    ASSUME TypeOK, Pass1FromDump
    PROVE  TypeOK'
BY DEF Pass1FromDump, EndPass1, CellsIn, TypeOK

LEMMA Pass1NothingType ==
    ASSUME TypeOK, Pass1Nothing
    PROVE  TypeOK'
BY DEF Pass1Nothing, EndPass1, CellsIn, NoTexts, TypeOK

LEMMA SubmitP1Type ==
    ASSUME TypeOK, SubmitP1
    PROVE  TypeOK'
BY DEF SubmitP1, TypeOK

LEMMA SaveP1IdType ==
    ASSUME TypeOK, SaveP1Id
    PROVE  TypeOK'
BY DEF SaveP1Id, TypeOK

LEMMA ResumeP1Type ==
    ASSUME TypeOK, ResumeP1
    PROVE  TypeOK'
BY DEF ResumeP1, TypeOK

LEMMA ParkType ==
    ASSUME TypeOK, Park
    PROVE  TypeOK'
<1>1. ControlOK' /\ LocalsOK' /\ verdict' \in Endings /\ inv' = inv
  BY EndProcessType DEF Park
<1>2. QED
  BY <1>1 DEF Park, Mishap, TypeOK

LEMMA BatchP1FailsType ==
    ASSUME TypeOK, BatchP1Fails
    PROVE  TypeOK'
<1>1. ControlOK' /\ LocalsOK' /\ verdict' \in Endings /\ inv' = inv
  BY EndProcessType DEF BatchP1Fails
<1>2. QED
  BY <1>1 DEF BatchP1Fails, Mishap, ForgetBatchP1, NoTexts, TypeOK

LEMMA CollectP1Type ==
    ASSUME TypeOK, CollectP1
    PROVE  TypeOK'
BY DEF CollectP1, Mishap, NoteQuota, ForgetBatchP1, TypeOK

LEMMA DumpP1Type ==
    ASSUME TypeOK, DumpP1
    PROVE  TypeOK'
BY DEF DumpP1, EndPass1, CellsIn, TypeOK

LEMMA DropP1Type ==
    ASSUME TypeOK, NEW c \in Cells, DropP1(c)
    PROVE  TypeOK'
<1> DEFINE payload == NewPayload(IF CidOf(c) \in p1err THEN "p1_error" ELSE "p1_lost", 0, 0)
<1>1. payload \in Payload
  BY NewPayloadIsPayload DEF TypeOK, Kinds, ProviderErrors, FinalErrors
<1>2. Save(c, payload)
  BY DEF DropP1
<1>3. /\ rows' \in [Cells -> Row]
      /\ seen' \in [Cells -> {"new", "ok", "error"}]
      /\ cellsDone' \in Int
      /\ cellsError' \in Int
  BY <1>1, <1>2, SaveType
<1>4. QED
  BY <1>3 DEF DropP1, TypeOK

LEMMA MarkDroppedType ==
    ASSUME TypeOK, NEW c \in Cells, MarkDropped(c)
    PROVE  TypeOK'
<1>1. rows' \in [Cells -> Row]
  BY MarkFailedIsRow DEF MarkDropped, TypeOK
<1>2. QED
  BY <1>1 DEF MarkDropped, TypeOK

LEMMA BeginPass2Type ==
    ASSUME TypeOK, BeginPass2
    PROVE  TypeOK'
BY DEF BeginPass2, TypeOK

LEMMA Pass2OnlineType ==
    ASSUME TypeOK, Pass2Online
    PROVE  TypeOK'
BY DEF Pass2Online, Mishap, EndPass2, NoteQuota, CellsIn, TypeOK

LEMMA Pass2NothingType ==
    ASSUME TypeOK, Pass2Nothing
    PROVE  TypeOK'
BY DEF Pass2Nothing, EndPass2, CellsIn, NoTexts, TypeOK

LEMMA SubmitP2Type ==
    ASSUME TypeOK, SubmitP2
    PROVE  TypeOK'
BY DEF SubmitP2, TypeOK

LEMMA SaveP2IdType ==
    ASSUME TypeOK, SaveP2Id
    PROVE  TypeOK'
BY DEF SaveP2Id, TypeOK

LEMMA ResumeP2Type ==
    ASSUME TypeOK, ResumeP2
    PROVE  TypeOK'
BY DEF ResumeP2, TypeOK

LEMMA BatchP2FailsType ==
    ASSUME TypeOK, BatchP2Fails
    PROVE  TypeOK'
<1>1. ControlOK' /\ LocalsOK' /\ verdict' \in Endings /\ inv' = inv
  BY EndProcessType DEF BatchP2Fails
<1>2. QED
  BY <1>1 DEF BatchP2Fails, Mishap, ForgetBatchP2, NoTexts, TypeOK

LEMMA CollectP2Type ==
    ASSUME TypeOK, CollectP2
    PROVE  TypeOK'
BY DEF CollectP2, Mishap, NoteQuota, ForgetBatchP2, EndPass2, CellsIn, NoTexts,
       TypeOK

LEMMA DropP2Type ==
    ASSUME TypeOK, NEW c \in Cells, DropP2(c)
    PROVE  TypeOK'
<1> DEFINE payload == NewPayload("p2_error", p1[CidOf(c)], 0)
<1>1. payload \in Payload
  BY NewPayloadIsPayload, CidOfType DEF TypeOK, Kinds, ProviderErrors, FinalErrors
<1>2. Save(c, payload)
  BY DEF DropP2
<1>3. /\ rows' \in [Cells -> Row]
      /\ seen' \in [Cells -> {"new", "ok", "error"}]
      /\ cellsDone' \in Int
      /\ cellsError' \in Int
  BY <1>1, <1>2, SaveType
<1>4. QED
  BY <1>3 DEF DropP2, TypeOK

LEMMA BeginTailType ==
    ASSUME TypeOK, BeginTail
    PROVE  TypeOK'
BY DEF BeginTail, CellsIn, TypeOK

LEMMA SaveReplyType ==
    ASSUME TypeOK, NEW c \in Cells, SaveReply(c)
    PROVE  TypeOK'
<1>1. PICK kind \in Kinds : Save(c, NewPayload(kind, p1[CidOf(c)], p2[CidOf(c)]))
  BY DEF SaveReply, Kinds, FinalErrors
<1>2. NewPayload(kind, p1[CidOf(c)], p2[CidOf(c)]) \in Payload
  BY NewPayloadIsPayload, CidOfType DEF TypeOK
<1>3. /\ rows' \in [Cells -> Row]
      /\ seen' \in [Cells -> {"new", "ok", "error"}]
      /\ cellsDone' \in Int
      /\ cellsError' \in Int
  BY <1>1, <1>2, SaveType
<1>4. firstErr' \in BOOLEAN
  BY FlagsAreBool DEF SaveReply
<1>5. QED
  BY <1>3, <1>4 DEF SaveReply, TypeOK

LEMMA ReplyRefusedType ==
    ASSUME TypeOK, NEW c \in Cells, ReplyRefused(c)
    PROVE  TypeOK'
BY DEF ReplyRefused, Mishap, TypeOK

LEMMA BeginPostType ==
    ASSUME TypeOK, BeginPost
    PROVE  TypeOK'
BY DEF BeginPost, ChunkPaperSet, TypeOK

LEMMA ReadPaperType ==
    ASSUME TypeOK, NEW p \in Papers, ReadPaper(p)
    PROVE  TypeOK'
<1>1. outbox' \in [Cells -> Payload \union {NoPayload}]
  BY DEF ReadPaper, TypeOK, Row
<1>2. pc' \in Locations /\ papersLeft' \subseteq Papers
  BY DEF ReadPaper, TypeOK
<1>3. QED
  BY <1>1, <1>2 DEF ReadPaper, TypeOK

LEMMA PrintPaperType ==
    ASSUME TypeOK, NEW p \in Papers, PrintPaper(p)
    PROVE  TypeOK'
BY DEF PrintPaper, EmptyOutbox, TypeOK

LEMMA SendPaperType ==
    ASSUME TypeOK, SendPaper
    PROVE  TypeOK'
BY DEF SendPaper, Deliver, TypeOK

LEMMA SendFailsType ==
    ASSUME TypeOK, NEW p \in Papers, SendFails(p)
    PROVE  TypeOK'
<1>1. sent' \in [Cells -> Payload \union {NoPayload}]
  BY DEF SendFails, Deliver, TypeOK
<1>2. ControlOK' /\ LocalsOK' /\ verdict' \in Endings /\ inv' = inv
  <2>1. CASE EndProcess("failed")
    BY <2>1, EndProcessType
  <2>2. CASE ~EndProcess("failed")
    BY <2>2 DEF SendFails, EmptyOutbox, TypeOK
  <2>3. QED
    BY <2>1, <2>2
<1>3. QED
  BY <1>1, <1>2 DEF SendFails, Mishap, TypeOK

LEMMA MarkPaperType ==
    ASSUME TypeOK, NEW p \in Papers, MarkPaper(p)
    PROVE  TypeOK'
<1>1. rows' \in [Cells -> Row]
  BY MarkPostedIsRow DEF MarkPaper, TypeOK
<1>2. QED
  BY <1>1 DEF MarkPaper, EmptyOutbox, TypeOK

LEMMA NextChunkType ==
    ASSUME TypeOK, NextChunk
    PROVE  TypeOK'
<1>1. PICK p \in scope : ~(ChunkOf(p) <= chunk)
  BY DEF NextChunk, IsLastChunk
<1>2. chunk + 1 \in Chunks
  BY <1>1, ChunkOfPaper, SizesAreNat DEF TypeOK, Chunks
<1>3. QED
  BY <1>2 DEF NextChunk, NoTexts, TypeOK

LEMMA FinishRunType ==
    ASSUME TypeOK, FinishRun
    PROVE  TypeOK'
<1>1. (IF MustStop THEN "failed" ELSE "succeeded") \in Endings
  OBVIOUS
<1>2. ControlOK' /\ LocalsOK' /\ verdict' \in Endings /\ inv' = inv
  BY <1>1, EndProcessType DEF FinishRun
<1>3. QED
  BY <1>2 DEF FinishRun, TypeOK

LEMMA StartRepostType ==
    ASSUME TypeOK, NEW papers \in Scopes, StartRepost(papers)
    PROVE  TypeOK'
<1>1. papers \subseteq Papers
  BY ScopesArePapers
<1>2. ControlOK'
  BY <1>1 DEF StartRepost, TypeOK
<1>3. postFailed' \in BOOLEAN
  BY DEF StartRepost
<1>4. GhostsOK'
  BY <1>3 DEF StartRepost, TypeOK
<1>5. QED
  BY <1>2, <1>4 DEF StartRepost, TypeOK

LEMMA FinishRepostType ==
    ASSUME TypeOK, FinishRepost
    PROVE  TypeOK'
<1>1. ControlOK' /\ LocalsOK' /\ verdict' \in Endings /\ inv' = inv
  BY EndProcessType DEF FinishRepost
<1>2. QED
  BY <1>1 DEF FinishRepost, TypeOK

LEMMA StartReformatType ==
    ASSUME TypeOK, NEW papers \in Scopes, StartReformat(papers)
    PROVE  TypeOK'
<1>1. papers \subseteq Papers
  BY ScopesArePapers
<1>2. ControlOK'
  BY <1>1 DEF StartReformat, TypeOK
<1>3. postFailed' \in BOOLEAN
  BY DEF StartReformat
<1>4. GhostsOK'
  BY <1>3 DEF StartReformat, TypeOK
<1>5. QED
  BY <1>2, <1>4 DEF StartReformat, TypeOK

LEMMA ReformatFailsType ==
    ASSUME TypeOK, NEW cid \in Cids, ReformatFails(cid)
    PROVE  TypeOK'
BY DEF ReformatFails, Mishap, TypeOK

LEMMA ReformatGroupType ==
    ASSUME TypeOK, NEW cid \in Cids, ReformatGroup(cid)
    PROVE  TypeOK'
<1>1. GroupTexts(cid) \subseteq Nat
  BY DEF GroupTexts, TypeOK, Row, Payload, NoPayload
<1>2. p1' \in [Cids -> Nat]
  BY <1>1 DEF ReformatGroup, NoTexts
<1>3. QED
  BY <1>2 DEF ReformatGroup, TypeOK

LEMMA RewriteRowType ==
    ASSUME TypeOK, NEW c \in Cells, RewriteRow(c)
    PROVE  TypeOK'
<1> DEFINE payload == NewPayload("answer", rows[c].payload.p1, p1[CidOf(c)])
<1>1. rows[c].payload.p1 \in Nat /\ p1[CidOf(c)] \in Nat
  BY CidOfType DEF TypeOK, Row, Payload, NoPayload
<1>2. payload \in Payload
  BY <1>1, NewPayloadIsPayload DEF TypeOK, Kinds
<1>3. rows' = [rows EXCEPT ![c] = UpdateReformatted(rows[c], payload)]
  BY DEF RewriteRow, TypeOK
<1>4. rows' \in [Cells -> Row]
  BY <1>2, <1>3, UpdateReformattedIsRow DEF TypeOK
<1>5. p1' \in [Cids -> Nat] /\ pending' \subseteq Cids /\ pc' \in Locations /\ todo' \subseteq Cells
  BY DEF RewriteRow, NoTexts, TypeOK
<1>6. QED
  BY <1>4, <1>5 DEF RewriteRow, TypeOK

LEMMA FinishReformatType ==
    ASSUME TypeOK, FinishReformat
    PROVE  TypeOK'
<1>1. ControlOK' /\ LocalsOK' /\ verdict' \in Endings /\ inv' = inv
  BY EndProcessType DEF FinishReformat
<1>2. QED
  BY <1>1 DEF FinishReformat, TypeOK

LEMMA CrashType ==
    ASSUME TypeOK, Crash
    PROVE  TypeOK'
<1>1. ControlOK' /\ LocalsOK' /\ verdict' \in Endings /\ inv' = inv
  BY EndProcessType DEF Crash
<1>2. QED
  BY <1>1 DEF Crash, TypeOK

LEMMA StartRunType ==
    ASSUME TypeOK, NEW papers \in Scopes, NEW command \in Commands, StartRun(command, papers)
    PROVE  TypeOK'
<1> DEFINE table == IF command = "reset" THEN [c \in Cells |-> NoRow] ELSE rows
<1>1. table \in [Cells -> Row]
  BY NoRowIsRow DEF TypeOK
<1>2. rows' = table /\ SeedCounters(table, papers)
  BY DEF StartRun
<1> HIDE DEF table
<1>3. seen' \in [Cells -> {"new", "ok", "error"}]
  BY <1>2 DEF SeedCounters, Verdict
<1>4. cellsDone' \in Int /\ cellsError' \in Int
  BY <1>2, CountIsNat DEF SeedCounters
<1>5. papers \subseteq Papers /\ 1 \in Chunks
  BY ScopesArePapers, SizesAreNat DEF Chunks
<1>6. StoreOK'
  BY <1>1, <1>2 DEF StartRun, TypeOK
<1>7. ControlOK'
  BY <1>5 DEF StartRun, TypeOK
<1>8. LocalsOK'
  BY <1>3, <1>4 DEF StartRun, TypeOK
<1>9. GhostsOK'
  <2>1. postFailed' \in BOOLEAN
    BY DEF StartRun
  <2>2. freshFrom' \in [Cids -> Nat]
    <3>1. StartAfresh \in [Cids -> Nat]
      BY DEF StartAfresh, TypeOK
    <3>. HIDE DEF StartAfresh
    <3>2. freshFrom' \in {StartAfresh, freshFrom}
      BY DEF StartRun
    <3>. QED
      BY <3>1, <3>2 DEF TypeOK
  <2>3. /\ paid' \subseteq Cids /\ inv' \in Nat /\ verdict' \in Endings /\ refused' \subseteq Cells
        /\ UNCHANGED <<setbacks, crashes, live1, live2>>
    BY DEF StartRun, TypeOK
  <2>4. QED
    BY <2>1, <2>2, <2>3 DEF TypeOK
<1>10. QED
  BY <1>6, <1>7, <1>8, <1>9 DEF TypeOK

LEMMA InitType == Init => TypeOK
<1> SUFFICES ASSUME Init PROVE TypeOK
  OBVIOUS
<1>1. StoreOK
  BY NoRowIsRow DEF Init, NoTexts
<1>2. ControlOK
  BY SizesAreNat DEF Init, Chunks
<1>3. {hadFatal, quota, firstErr, postFailed} \subseteq BOOLEAN
  BY DEF Init
<1>4. LocalsOK
  BY <1>3 DEF Init, NoTexts, EmptyOutbox
<1>5. GhostsOK
  BY <1>3 DEF Init
<1>6. QED
  BY <1>1, <1>2, <1>4, <1>5 DEF TypeOK

LEMMA TypeNext ==
    ASSUME TypeOK, [Next]_vars
    PROVE  TypeOK'
<1>1. CASE Cancel
  BY <1>1, CancelType
<1>2. CASE ResolveTexts
  BY <1>2, ResolveTextsType
<1>3. CASE \E c \in Cells : SaveNoOcr(c)
  BY <1>3, SaveNoOcrType
<1>4. CASE BeginPass1
  BY <1>4, BeginPass1Type
<1>5. CASE Pass1Online
  BY <1>5, Pass1OnlineType
<1>6. CASE Pass1Aborts
  BY <1>6, Pass1AbortsType
<1>7. CASE Pass1FromDump
  BY <1>7, Pass1FromDumpType
<1>8. CASE Pass1Nothing
  BY <1>8, Pass1NothingType
<1>9. CASE SubmitP1
  BY <1>9, SubmitP1Type
<1>10. CASE SaveP1Id
  BY <1>10, SaveP1IdType
<1>11. CASE ResumeP1
  BY <1>11, ResumeP1Type
<1>12. CASE Park
  BY <1>12, ParkType
<1>13. CASE BatchP1Fails
  BY <1>13, BatchP1FailsType
<1>14. CASE CollectP1
  BY <1>14, CollectP1Type
<1>15. CASE DumpP1
  BY <1>15, DumpP1Type
<1>16. CASE \E c \in Cells : DropP1(c)
  BY <1>16, DropP1Type
<1>17. CASE \E c \in Cells : MarkDropped(c)
  BY <1>17, MarkDroppedType
<1>18. CASE BeginPass2
  BY <1>18, BeginPass2Type
<1>19. CASE Pass2Online
  BY <1>19, Pass2OnlineType
<1>20. CASE Pass2Nothing
  BY <1>20, Pass2NothingType
<1>21. CASE SubmitP2
  BY <1>21, SubmitP2Type
<1>22. CASE SaveP2Id
  BY <1>22, SaveP2IdType
<1>23. CASE ResumeP2
  BY <1>23, ResumeP2Type
<1>24. CASE BatchP2Fails
  BY <1>24, BatchP2FailsType
<1>25. CASE CollectP2
  BY <1>25, CollectP2Type
<1>26. CASE \E c \in Cells : DropP2(c)
  BY <1>26, DropP2Type
<1>27. CASE BeginTail
  BY <1>27, BeginTailType
<1>28. CASE \E c \in Cells : SaveReply(c)
  BY <1>28, SaveReplyType
<1>29. CASE \E c \in Cells : ReplyRefused(c)
  BY <1>29, ReplyRefusedType
<1>30. CASE BeginPost
  BY <1>30, BeginPostType
<1>31. CASE \E p \in Papers : ReadPaper(p)
  BY <1>31, ReadPaperType
<1>32. CASE \E p \in Papers : PrintPaper(p)
  BY <1>32, PrintPaperType
<1>33. CASE SendPaper
  BY <1>33, SendPaperType
<1>34. CASE \E p \in Papers : SendFails(p)
  BY <1>34, SendFailsType
<1>35. CASE \E p \in Papers : MarkPaper(p)
  BY <1>35, MarkPaperType
<1>36. CASE NextChunk
  BY <1>36, NextChunkType
<1>37. CASE FinishRun
  BY <1>37, FinishRunType
<1>38. CASE \E papers \in Scopes : StartRepost(papers)
  BY <1>38, StartRepostType
<1>39. CASE FinishRepost
  BY <1>39, FinishRepostType
<1>40. CASE \E papers \in Scopes : StartReformat(papers)
  BY <1>40, StartReformatType
<1>41. CASE \E cid \in Cids : ReformatFails(cid)
  BY <1>41, ReformatFailsType
<1>42. CASE \E cid \in Cids : ReformatGroup(cid)
  BY <1>42, ReformatGroupType
<1>43. CASE \E c \in Cells : RewriteRow(c)
  BY <1>43, RewriteRowType
<1>44. CASE FinishReformat
  BY <1>44, FinishReformatType
<1>45. CASE Crash
  BY <1>45, CrashType
<1>46. CASE \E papers \in Scopes, command \in Commands : StartRun(command, papers)
  BY <1>46, StartRunType
<1>47. CASE UNCHANGED vars
  BY <1>47 DEF TypeOK, vars
<1>48. QED
  BY <1>1, <1>2, <1>3, <1>4, <1>5, <1>6, <1>7, <1>8, <1>9, <1>10, <1>11, <1>12,
     <1>13, <1>14, <1>15, <1>16, <1>17, <1>18, <1>19, <1>20, <1>21, <1>22, <1>23,
     <1>24, <1>25, <1>26, <1>27, <1>28, <1>29, <1>30, <1>31, <1>32, <1>33, <1>34,
     <1>35, <1>36, <1>37, <1>38, <1>39, <1>40, <1>41, <1>42, <1>43, <1>44, <1>45,
     <1>46, <1>47
  DEF Next, ProgramStep, UserStep, Pass1Step, Pass2Step, WriteStep, PostStep,
      ReformatStep

\* Types hold in every reachable state.
THEOREM TypeCorrect == Spec => []TypeOK
BY InitType, TypeNext, PTL DEF Spec

---------------------------------------------------------------------------
(* Most steps neither write an answer nor touch the outbox: the two        *)
(* invariants about answers get through all of those in the same way.      *)

Quiet ==
    \/ Cancel \/ ResolveTexts \/ BeginPass1 \/ Park \/ BeginTail
    \/ Pass1Step \/ Pass2Step
    \/ BeginPost \/ NextChunk \/ FinishRun \/ FinishRepost

LEMMA QuietFrame ==
    ASSUME Quiet
    PROVE  /\ rows' = rows
           /\ sent' = sent
           /\ pc' \notin {"send", "ack", "reformat", "rewrite"}
           /\ pc \in {"p1drop", "p2drop"} => toMark = {}
           /\ toMark' \in {toMark, {}}
<1> USE DEF Mishap, EndProcess, EndPass1, EndPass2, NoteQuota, ForgetBatchP1, ForgetBatchP2
<1>1. CASE Cancel
  BY <1>1 DEF Cancel
<1>2. CASE ResolveTexts
  BY <1>2 DEF ResolveTexts
<1>3. CASE BeginPass1
  BY <1>3 DEF BeginPass1
<1>4. CASE Park
  BY <1>4 DEF Park
<1>5. CASE BeginTail
  BY <1>5 DEF BeginTail
<1>6. CASE Pass1Online
  BY <1>6 DEF Pass1Online
<1>7. CASE Pass1Aborts
  BY <1>7 DEF Pass1Aborts
<1>8. CASE Pass1FromDump
  BY <1>8 DEF Pass1FromDump
<1>9. CASE Pass1Nothing
  BY <1>9 DEF Pass1Nothing
<1>10. CASE SubmitP1
  BY <1>10 DEF SubmitP1
<1>11. CASE SaveP1Id
  BY <1>11 DEF SaveP1Id
<1>12. CASE ResumeP1
  BY <1>12 DEF ResumeP1
<1>13. CASE BatchP1Fails
  BY <1>13 DEF BatchP1Fails
<1>14. CASE CollectP1
  BY <1>14 DEF CollectP1
<1>15. CASE DumpP1
  BY <1>15 DEF DumpP1
<1>16. CASE BeginPass2
  BY <1>16 DEF BeginPass2
<1>17. CASE Pass2Online
  BY <1>17 DEF Pass2Online
<1>18. CASE Pass2Nothing
  BY <1>18 DEF Pass2Nothing
<1>19. CASE SubmitP2
  BY <1>19 DEF SubmitP2
<1>20. CASE SaveP2Id
  BY <1>20 DEF SaveP2Id
<1>21. CASE ResumeP2
  BY <1>21 DEF ResumeP2
<1>22. CASE BatchP2Fails
  BY <1>22 DEF BatchP2Fails
<1>23. CASE CollectP2
  BY <1>23 DEF CollectP2
<1>24. CASE BeginPost
  BY <1>24 DEF BeginPost
<1>25. CASE NextChunk
  BY <1>25 DEF NextChunk
<1>26. CASE FinishRun
  BY <1>26 DEF FinishRun
<1>27. CASE FinishRepost
  BY <1>27 DEF FinishRepost
<1>28. QED
  BY <1>1, <1>2, <1>3, <1>4, <1>5, <1>6, <1>7, <1>8, <1>9, <1>10, <1>11, <1>12,
     <1>13, <1>14, <1>15, <1>16, <1>17, <1>18, <1>19, <1>20, <1>21, <1>22,
     <1>23, <1>24, <1>25, <1>26, <1>27
  DEF Quiet, Pass1Step, Pass2Step


---------------------------------------------------------------------------
(* What a step may do to the answers.                                      *)

Saving(c) == SaveNoOcr(c) \/ DropP1(c) \/ DropP2(c) \/ SaveReply(c)

LEMMA RowsWritten ==
    ASSUME [Next]_vars
    PROVE  \/ rows' = rows
           \/ rows' = [c \in Cells |-> NoRow] /\ inv' = inv + 1 /\ pc = "idle"
           \/ \E c \in Cells : Saving(c) \/ MarkDropped(c) \/ RewriteRow(c)
           \/ \E p \in Papers : MarkPaper(p)
<1>. USE DEF Mishap, EndProcess, EndPass1, EndPass2, NoteQuota
<1>1. CASE \/ Cancel \/ ResolveTexts \/ BeginPass1 \/ Park \/ BeginTail \/ Pass1Step \/ Pass2Step
  BY <1>1
  DEF Cancel, ResolveTexts, BeginPass1, Park, BeginTail, Pass1Step, Pass1Online, Pass1Aborts,
      Pass1FromDump, Pass1Nothing, SubmitP1, SaveP1Id, ResumeP1, BatchP1Fails, CollectP1, DumpP1,
      Pass2Step, BeginPass2, Pass2Online, Pass2Nothing, SubmitP2, SaveP2Id, ResumeP2,
      BatchP2Fails, CollectP2
<1>2. CASE WriteStep
  BY <1>2 DEF WriteStep, Saving, ReplyRefused
<1>3. CASE PostStep
  BY <1>3 DEF PostStep, BeginPost, SendPaper, ReadPaper, PrintPaper, SendFails, NextChunk,
              FinishRun, FinishRepost
<1>4. CASE ReformatStep \/ Crash
  BY <1>4 DEF ReformatStep, ReformatFails, ReformatGroup, FinishReformat, Crash
<1>5. CASE UserStep
  BY <1>5 DEF UserStep, StartRun, StartRepost, StartReformat
<1>6. CASE UNCHANGED vars
  BY <1>6 DEF vars
<1>. QED
  BY <1>1, <1>2, <1>3, <1>4, <1>5, <1>6 DEF Next, ProgramStep

LEMMA SavedRow ==
    ASSUME TypeOK, NEW c \in Cells, NEW payload, Save(c, payload)
    PROVE  /\ rows'[c].status = "done" /\ rows'[c].payload = payload /\ ~rows'[c].posted
           /\ \A d \in Cells : d # c => rows'[d] = rows[d]
BY DEF Save, SaveAnswer, TypeOK

LEMMA MarkDroppedRow ==
    ASSUME TypeOK, NEW c \in Cells, MarkDropped(c)
    PROVE  /\ \A d \in Cells : /\ rows'[d].payload = rows[d].payload
                               /\ rows'[d].posted = rows[d].posted
           /\ rows'[c].status \in {"absent", "failed"}
           /\ rows'[c].status = "absent" <=> rows[c].status = "absent"
           /\ \A d \in Cells : d # c => rows'[d] = rows[d]
BY DEF MarkDropped, MarkFailed, TypeOK, Row

LEMMA MarkPaperRow ==
    ASSUME TypeOK, NEW p \in Papers, MarkPaper(p)
    PROVE  \A c \in Cells :
              /\ rows'[c].payload = rows[c].payload
              /\ \/ rows'[c].status = rows[c].status
                 \/ (rows[c].status = "done" /\ rows'[c].status = "posted")
              /\ (c \in InOutbox /\ rows[c].status # "absent") => rows'[c].posted
              /\ (c \notin InOutbox \/ rows[c].status = "absent") => rows'[c] = rows[c]
<1>1. rows' = [c \in Cells |-> IF c \in InOutbox THEN MarkPosted(rows[c]) ELSE rows[c]]
  BY DEF MarkPaper
<1>. SUFFICES ASSUME NEW c \in Cells
              PROVE  /\ rows'[c].payload = rows[c].payload
                     /\ \/ rows'[c].status = rows[c].status
                        \/ (rows[c].status = "done" /\ rows'[c].status = "posted")
                     /\ (c \in InOutbox /\ rows[c].status # "absent") => rows'[c].posted
                     /\ (c \notin InOutbox \/ rows[c].status = "absent") => rows'[c] = rows[c]
  OBVIOUS
<1>2. rows[c] \in Row /\ rows'[c] = IF c \in InOutbox THEN MarkPosted(rows[c]) ELSE rows[c]
  BY <1>1 DEF TypeOK
<1>3. CASE c \notin InOutbox \/ rows[c].status = "absent"
  BY <1>2, <1>3 DEF MarkPosted
<1>4. CASE c \in InOutbox /\ rows[c].status # "absent"
  <2>1. rows'[c] = [rows[c] EXCEPT !.posted = TRUE,
                                   !.status = IF @ = "done" THEN "posted" ELSE @]
    BY <1>2, <1>4 DEF MarkPosted
  <2>. QED
    BY <1>2, <1>4, <2>1 DEF Row
<1>. QED
  BY <1>3, <1>4

\* A reformatted row keeps all but its reply.
LEMMA RewrittenRow ==
    ASSUME TypeOK, NEW c \in Cells, RewriteRow(c)
    PROVE  /\ \A d \in Cells : d # c => rows'[d] = rows[d]
           /\ rows'[c].posted = rows[c].posted
           /\ rows'[c].payload.p1 = rows[c].payload.p1
           /\ IF rows[c].status = "absent"
              THEN rows'[c] = rows[c]
              ELSE /\ rows'[c].status = "done"
                   /\ rows'[c].payload
                         = NewPayload("answer", rows[c].payload.p1, p1[CidOf(c)])
BY DEF RewriteRow, UpdateReformatted, NewPayload, TypeOK, Row

---------------------------------------------------------------------------
(* The phases of an invocation: what each may have in hand.                *)

PassPhases == {"noocr", "pass1", "p1save", "p1poll", "p1dump", "p1drop",
               "pass2", "p2save", "p2poll", "p2drop", "tail"}
PostPhases == {"post", "send", "ack"}

\* A run works on the papers of its chunk and no others.
WithinChunk ==
    /\ texts \subseteq ChunkPaperSet
    /\ papersLeft \subseteq ChunkPaperSet
    /\ \A cid \in pending : cid[1] \in ChunkPaperSet
    /\ \A c \in todo \union toMark : c[1] \in ChunkPaperSet

PhaseInv ==
    /\ TypeOK
    /\ verdict # "none" => pc = "idle"
    /\ pc \in {"reformat", "rewrite"} <=> (mode = "reformat" /\ pc # "idle")
    /\ mode = "repost" => pc \in PostPhases \union {"idle"}
    /\ pc \notin {"p1drop", "p2drop"} => toMark = {}
    /\ pc \notin PostPhases => papersLeft = {}
    /\ pc \in PostPhases => todo = {}
    /\ pc \in {"idle", "boundary"} => todo = {} /\ texts = {} /\ pending = {}
    /\ (mode \in {"run", "dry"} /\ pc # "idle") => WithinChunk

LEMMA ChunkPapersKept ==
    ASSUME UNCHANGED <<scope, chunk>>
    PROVE  ChunkPaperSet' = ChunkPaperSet /\ \A p \in Papers : ChunkOf(p)' = ChunkOf(p)
BY DEF ChunkPaperSet, ChunkOf

LEMMA CellsInChunk ==
    ASSUME NEW S, \A cid \in S : cid[1] \in ChunkPaperSet
    PROVE  \A c \in CellsIn(S) : c[1] \in ChunkPaperSet
BY DEF CellsIn, CidOf

LEMMA PhaseEnds ==
    ASSUME TypeOK', NEW how, EndProcess(how)
    PROVE  PhaseInv'
BY DEF EndProcess, PhaseInv, PassPhases, PostPhases

\* A step within the passes: what is left to write is of the pending calls.
LEMMA PhaseStays ==
    ASSUME PhaseInv, TypeOK', UNCHANGED <<mode, scope, chunk, verdict, papersLeft, texts, pending>>,
           pc \in PassPhases, pc' \in PassPhases,
           todo' \subseteq todo \union CellsIn(pending), toMark' \subseteq todo,
           pc' \notin {"p1drop", "p2drop"} => toMark' = {}
    PROVE  PhaseInv'
<1>1. mode \in {"run", "dry"} /\ WithinChunk /\ papersLeft = {}
  BY DEF PhaseInv, PassPhases, PostPhases, TypeOK
<1>2. ChunkPaperSet' = ChunkPaperSet
  BY ChunkPapersKept
<1>3. \A c \in CellsIn(pending) : c[1] \in ChunkPaperSet
  BY <1>1, CellsInChunk DEF WithinChunk
<1>4. WithinChunk'
  BY <1>1, <1>2, <1>3 DEF WithinChunk
<1>. QED
  BY <1>1, <1>4 DEF PhaseInv, PassPhases, PostPhases

LEMMA PhasePasses ==
    ASSUME PhaseInv, TypeOK', BeginPass1 \/ Pass1Step \/ Pass2Step \/ BeginTail \/ Park
    PROVE  PhaseInv'
<1>. USE DEF EndPass1, EndPass2
<1>1. CASE BatchP1Fails \/ BatchP2Fails \/ Park
  BY <1>1, PhaseEnds DEF BatchP1Fails, BatchP2Fails, Park
<1>2. CASE BeginPass1
  <2>1. pc = "noocr" /\ todo = {} /\ toMark = {} /\ WithinChunk /\ papersLeft = {}
        /\ mode \in {"run", "dry"}
    BY <1>2 DEF BeginPass1, PhaseInv, PostPhases, TypeOK
  <2>2. ChunkPaperSet' = ChunkPaperSet
    BY <1>2, ChunkPapersKept DEF BeginPass1
  <2>3. WithinChunk'
    BY <1>2, <2>1, <2>2 DEF BeginPass1, WithinChunk
  <2>. QED
    BY <1>2, <2>1, <2>3 DEF BeginPass1, PhaseInv, PostPhases
<1>3. CASE Pass1Online \/ Pass1Aborts \/ Pass1FromDump \/ Pass1Nothing \/ DumpP1
  <2>1. pc \in {"pass1", "p1dump"} /\ pc' = "p1drop" /\ toMark = {}
        /\ UNCHANGED <<mode, scope, chunk, verdict, papersLeft, texts, pending, toMark>>
    BY <1>3 DEF Pass1Online, Pass1Aborts, Pass1FromDump, Pass1Nothing, DumpP1, PhaseInv
  <2>2. todo' \subseteq CellsIn(pending)
    BY <1>3 DEF Pass1Online, Pass1Aborts, Pass1FromDump, Pass1Nothing, DumpP1, CellsIn
  <2>. QED
    BY <2>1, <2>2, PhaseStays DEF PassPhases
<1>4. CASE \/ SubmitP1 \/ SaveP1Id \/ ResumeP1 \/ CollectP1
           \/ SubmitP2 \/ SaveP2Id \/ ResumeP2
  <2>1. pc \in PassPhases /\ pc' \in PassPhases \ {"p1drop", "p2drop"}
        /\ UNCHANGED <<mode, scope, chunk, verdict, papersLeft, texts, pending, todo, toMark>>
        /\ toMark = {}
    BY <1>4 DEF SubmitP1, SaveP1Id, ResumeP1, CollectP1, SubmitP2, SaveP2Id, ResumeP2,
                PassPhases, PhaseInv
  <2>. QED
    BY <2>1, PhaseStays
<1>5. CASE Pass2Online \/ Pass2Nothing \/ CollectP2
  <2>1. pc \in {"pass2", "p2poll"} /\ pc' = "p2drop" /\ toMark = {}
        /\ UNCHANGED <<mode, scope, chunk, verdict, papersLeft, texts, pending, toMark>>
    BY <1>5 DEF Pass2Online, Pass2Nothing, CollectP2, PhaseInv
  <2>2. todo' \subseteq CellsIn(pending)
    BY <1>5 DEF Pass2Online, Pass2Nothing, CollectP2, CellsIn
  <2>. QED
    BY <2>1, <2>2, PhaseStays DEF PassPhases
<1>6. CASE BeginPass2 \/ BeginTail
  <2>1. pc \in {"p1drop", "p2drop"} /\ pc' \in {"pass2", "tail"} /\ toMark = {}
        /\ UNCHANGED <<mode, scope, chunk, verdict, papersLeft, texts, pending, toMark>>
        /\ todo = {}
    BY <1>6 DEF BeginPass2, BeginTail
  <2>2. todo' \subseteq CellsIn(pending)
    BY <1>6, <2>1 DEF BeginPass2, BeginTail, CellsIn
  <2>. QED
    BY <2>1, <2>2, PhaseStays DEF PassPhases
<1>. QED
  BY <1>1, <1>2, <1>3, <1>4, <1>5, <1>6 DEF Pass1Step, Pass2Step

LEMMA PhaseWrites ==
    ASSUME PhaseInv, TypeOK', WriteStep
    PROVE  PhaseInv'
<1>. PICK c \in Cells : \/ SaveNoOcr(c) \/ DropP1(c) \/ DropP2(c) \/ MarkDropped(c)
                        \/ SaveReply(c) \/ ReplyRefused(c) \/ RewriteRow(c)
  BY DEF WriteStep
<1>1. CASE SaveNoOcr(c) \/ SaveReply(c) \/ ReplyRefused(c)
  <2>1. pc \in {"noocr", "tail"} /\ pc' = pc /\ toMark' = toMark /\ toMark = {}
        /\ UNCHANGED <<mode, scope, chunk, verdict, papersLeft, texts, pending>>
        /\ todo' \subseteq todo
    BY <1>1 DEF SaveNoOcr, SaveReply, ReplyRefused, PhaseInv
  <2>. QED
    BY <2>1, PhaseStays DEF PassPhases
<1>2. CASE DropP1(c) \/ DropP2(c)
  <2>1. pc \in {"p1drop", "p2drop"} /\ pc' = pc /\ c \in todo /\ toMark' \subseteq {c}
        /\ UNCHANGED <<mode, scope, chunk, verdict, papersLeft, texts, pending>>
        /\ todo' \subseteq todo
    BY <1>2 DEF DropP1, DropP2, FirstOf
  <2>. QED
    BY <2>1, PhaseStays DEF PassPhases
<1>3. CASE MarkDropped(c)
  <2>1. toMark # {} /\ toMark' = {}
        /\ UNCHANGED <<pc, mode, scope, chunk, verdict, papersLeft, texts, pending, todo>>
    BY <1>3 DEF MarkDropped
  <2>. QED
    BY <2>1, PhaseStays DEF PassPhases, PhaseInv
<1>4. CASE RewriteRow(c)
  <2>1. mode = "reformat" /\ pc = "rewrite" /\ pc' \in {"reformat", "rewrite"}
        /\ toMark' = {} /\ papersLeft' = {} /\ UNCHANGED <<mode, verdict>>
    BY <1>4 DEF RewriteRow, PhaseInv, PostPhases
  <2>. QED
    BY <2>1 DEF PhaseInv, PostPhases
<1>. QED
  BY <1>1, <1>2, <1>3, <1>4

LEMMA PhasePosts ==
    ASSUME PhaseInv, TypeOK', PostStep
    PROVE  PhaseInv'
<1>1. CASE BeginPost
  <2>1. pc = "tail" /\ todo = {} /\ toMark = {} /\ WithinChunk /\ mode \in {"run", "dry"}
        /\ verdict = "none"
    BY <1>1 DEF BeginPost, PhaseInv, PostPhases, TypeOK
  <2>2. WithinChunk'
    BY <1>1, <2>1, ChunkPapersKept DEF BeginPost, WithinChunk
  <2>. QED
    BY <1>1, <2>1, <2>2 DEF BeginPost, PhaseInv, PostPhases
<1>2. CASE \/ SendPaper
           \/ \E p \in Papers : ReadPaper(p) \/ PrintPaper(p) \/ MarkPaper(p)
           \/ \E p \in Papers : SendFails(p) /\ mode # "repost"
  <2>1. pc \in PostPhases /\ pc' \in PostPhases /\ papersLeft' \subseteq papersLeft
        /\ UNCHANGED <<mode, scope, chunk, verdict, texts, pending, todo, toMark>>
    BY <1>2 DEF SendPaper, ReadPaper, PrintPaper, MarkPaper, SendFails, PostPhases
  <2>2. ChunkPaperSet' = ChunkPaperSet
    BY <2>1, ChunkPapersKept
  <2>3. WithinChunk => WithinChunk'
    BY <2>1, <2>2 DEF WithinChunk
  <2>. QED
    BY <2>1, <2>3 DEF PhaseInv, PostPhases
<1>3. CASE \/ FinishRun \/ FinishRepost
           \/ \E p \in Papers : SendFails(p) /\ mode = "repost"
  BY <1>3, PhaseEnds DEF FinishRun, FinishRepost, SendFails
<1>4. CASE NextChunk
  <2>1. pc' = "boundary" /\ todo' = {} /\ toMark' = {} /\ papersLeft' = {} /\ texts' = {}
        /\ pending' = {} /\ verdict' = "none" /\ mode' = mode /\ mode \in {"run", "dry"}
    BY <1>4 DEF NextChunk, PhaseInv, PostPhases, TypeOK
  <2>. QED
    BY <2>1 DEF PhaseInv, PostPhases, WithinChunk
<1>. QED
  BY <1>1, <1>2, <1>3, <1>4 DEF PostStep

LEMMA PhaseNext == ASSUME PhaseInv, [Next]_vars PROVE PhaseInv'
<1>1. TypeOK'
  BY TypeNext DEF PhaseInv
<1>2. CASE Cancel \/ Crash \/ FinishReformat
  BY <1>1, <1>2, PhaseEnds DEF Cancel, Crash, FinishReformat
<1>3. CASE ResolveTexts
  <2>1. toMark' = {} /\ papersLeft' = {} /\ pending' = {} /\ pc' = "noocr" /\ verdict' = "none"
        /\ mode' = mode /\ mode \in {"run", "dry"}
    BY <1>3 DEF ResolveTexts, PhaseInv, PostPhases, TypeOK
  <2>2. ChunkPaperSet' = ChunkPaperSet
    BY <1>3, ChunkPapersKept DEF ResolveTexts
  <2>3. texts' \subseteq ChunkPaperSet /\ \A c \in todo' : c[1] \in ChunkPaperSet
    BY <1>3 DEF ResolveTexts
  <2>. QED
    BY <1>1, <2>1, <2>2, <2>3 DEF PhaseInv, PostPhases, WithinChunk
<1>4. CASE \E cid \in Cids : ReformatFails(cid) \/ ReformatGroup(cid)
  <2>1. pc = "reformat" /\ pc' \in {"reformat", "rewrite"}
        /\ UNCHANGED <<mode, verdict, toMark, papersLeft>>
    BY <1>4 DEF ReformatFails, ReformatGroup, IsReformatting
  <2>. QED
    BY <1>1, <2>1 DEF PhaseInv, PostPhases
<1>5. CASE \E papers \in Scopes, command \in Commands : StartRun(command, papers)
  <2>1. pc = "idle" /\ pc' = "boundary" /\ verdict' = "none" /\ mode' \in {"run", "dry"}
        /\ UNCHANGED <<texts, pending, todo, toMark, papersLeft>>
    BY <1>5 DEF StartRun
  <2>. QED
    BY <1>1, <2>1 DEF PhaseInv, PostPhases, WithinChunk
<1>6. CASE \E papers \in Scopes : StartRepost(papers) \/ StartReformat(papers)
  <2>1. pc = "idle" /\ verdict' = "none" /\ toMark' = toMark
        /\ \/ mode' = "repost" /\ pc' = "post" /\ todo' = todo
           \/ mode' = "reformat" /\ pc' = "reformat" /\ papersLeft' = papersLeft
    BY <1>6 DEF StartRepost, StartReformat
  <2>. QED
    BY <1>1, <2>1 DEF PhaseInv, PostPhases
<1>7. CASE UNCHANGED vars
  BY <1>1, <1>7, ChunkPapersKept DEF vars, PhaseInv, PostPhases, WithinChunk
<1>. QED
  BY <1>1, <1>2, <1>3, <1>4, <1>5, <1>6, <1>7, PhasePasses, PhaseWrites, PhasePosts
  DEF Next, ProgramStep, ReformatStep, UserStep

LEMMA PhasesHold == Spec => []PhaseInv
<1>1. Init => PhaseInv
  BY InitType DEF Init, PhaseInv, PostPhases, WithinChunk
<1>. QED
  BY <1>1, PhaseNext, PTL DEF Spec

---------------------------------------------------------------------------
(* The table.                                                              *)

LEMMA NoPayloadIsNone == NoPayload \notin Payload
BY DEF NoPayload, Payload, Kinds, ProviderErrors, FinalErrors

\* Every row holds an answer, and only a delivered one is 'posted'.
RowsSound ==
    \A c \in Cells : /\ rows[c].status # "pass1_done"
                     /\ rows[c].status = "absent" <=> rows[c].payload = NoPayload
                     /\ rows[c].status = "posted" => rows[c].posted

\* What a saving step saves.
LEMMA SavingSaves ==
    ASSUME NEW c \in Cells, Saving(c)
    PROVE  \E kind, text, fmt : kind \in Kinds /\ Save(c, NewPayload(kind, text, fmt))
<1>1. CASE SaveNoOcr(c) \/ DropP2(c)
  BY <1>1 DEF SaveNoOcr, DropP2, Kinds, ProviderErrors, FinalErrors
<1>2. CASE DropP1(c)
  <2>. DEFINE kind == IF CidOf(c) \in p1err THEN "p1_error" ELSE "p1_lost"
  <2>1. kind \in Kinds /\ Save(c, NewPayload(kind, 0, 0))
    BY <1>2 DEF DropP1, Kinds, ProviderErrors, FinalErrors
  <2>. QED
    BY <2>1
<1>3. CASE SaveReply(c)
  BY <1>3 DEF SaveReply, Kinds, FinalErrors
<1>. QED
  BY <1>1, <1>2, <1>3 DEF Saving

LEMMA RowsStaySound == ASSUME TypeOK, RowsSound, [Next]_vars PROVE RowsSound'
<1>1. CASE rows' = rows
  BY <1>1 DEF RowsSound
<1>2. CASE rows' = [c \in Cells |-> NoRow]
  BY <1>2 DEF RowsSound, NoRow
<1>3. CASE \E c \in Cells : Saving(c)
  <2>1. PICK c, kind, text, fmt :
           c \in Cells /\ kind \in Kinds /\ Save(c, NewPayload(kind, text, fmt))
    BY <1>3, SavingSaves
  <2>2. NewPayload(kind, text, fmt) # NoPayload
    BY <2>1 DEF NewPayload, NoPayload, Kinds, ProviderErrors, FinalErrors
  <2>. QED
    BY <2>1, <2>2, SavedRow DEF RowsSound
<1>4. CASE \E c \in Cells : MarkDropped(c)
  <2>1. PICK c \in Cells : MarkDropped(c)
    BY <1>4
  <2>. QED
    BY <2>1, MarkDroppedRow DEF RowsSound
<1>5. CASE \E c \in Cells : RewriteRow(c)
  <2>1. PICK c \in Cells : RewriteRow(c)
    BY <1>5
  <2>2. NewPayload("answer", rows[c].payload.p1, p1[CidOf(c)]) # NoPayload
    BY DEF NewPayload, NoPayload
  <2>. QED
    BY <2>1, <2>2, RewrittenRow DEF RowsSound
<1>6. CASE \E p \in Papers : MarkPaper(p)
  <2>1. PICK p \in Papers : MarkPaper(p)
    BY <1>6
  <2>2. SUFFICES ASSUME NEW c \in Cells
                 PROVE  /\ rows'[c].status # "pass1_done"
                        /\ rows'[c].status = "absent" <=> rows'[c].payload = NoPayload
                        /\ rows'[c].status = "posted" => rows'[c].posted
    BY DEF RowsSound
  <2>3. CASE c \in InOutbox /\ rows[c].status # "absent"
    BY <2>1, <2>3, MarkPaperRow DEF RowsSound
  <2>4. CASE c \notin InOutbox \/ rows[c].status = "absent"
    BY <2>1, <2>4, MarkPaperRow DEF RowsSound
  <2>. QED
    BY <2>3, <2>4
<1>. QED
  BY <1>1, <1>2, <1>3, <1>4, <1>5, <1>6, RowsWritten

LEMMA RowsAreSound == Spec => [](TypeOK /\ RowsSound)
<1>1. Init => TypeOK /\ RowsSound
  BY InitType DEF Init, RowsSound, NoRow
<1>2. TypeOK /\ RowsSound /\ [Next]_vars => (TypeOK /\ RowsSound)'
  BY TypeNext, RowsStaySound
<1>. QED
  BY <1>1, <1>2, PTL DEF Spec

---------------------------------------------------------------------------
(* What the steps of a run have in common.                                 *)

\* Chunks are numbered from 1, whatever papers the user gives.
LEMMA ChunkNumbers ==
    ASSUME NEW S \in SUBSET Papers, NEW p
    PROVE  LET n == IF ChunkPapers = 0
                    THEN 1
                    ELSE (Cardinality({x \in S : x < p}) \div ChunkPapers) + 1
           IN  n \in Nat /\ n >= 1
<1>1. IsFiniteSet(Papers)
  BY SizesAreNat, FS_Interval DEF Papers
<1>2. Cardinality({x \in S : x < p}) \in Nat
  BY <1>1, FS_Subset, FS_CardinalityType
<1>3. \A n \in Nat : ChunkPapers # 0 => n \div ChunkPapers \in Nat
  BY SizesAreNat
<1>. QED
  BY <1>2, <1>3

\* The passes write no answer, and go on or end.
LEMMA PassFrame ==
    ASSUME \/ Cancel \/ ResolveTexts \/ BeginPass1 \/ Park \/ BeginTail
           \/ Pass1Step \/ Pass2Step
    PROVE  /\ UNCHANGED <<rows, sent, mode, scope, chunk, seen, cellsDone, cellsError, inv,
                          postFailed, refused>>
           /\ pc \in PassPhases \union {"boundary"}
           /\ \/ pc' \in PassPhases /\ UNCHANGED <<verdict, firstErr>>
              \/ pc' = "idle" /\ verdict' \in {"canceled", "parked", "failed"}
<1>. USE DEF EndProcess, EndPass1, EndPass2, PassPhases
<1>1. CASE \/ Cancel \/ ResolveTexts \/ BeginPass1 \/ Park \/ BeginTail
  BY <1>1 DEF Cancel, ResolveTexts, BeginPass1, Park, BeginTail
<1>2. CASE Pass1Step
  BY <1>2
  DEF Pass1Step, Pass1Online, Pass1Aborts, Pass1FromDump, Pass1Nothing, SubmitP1, SaveP1Id,
      ResumeP1, BatchP1Fails, CollectP1, DumpP1
<1>3. CASE Pass2Step
  BY <1>3
  DEF Pass2Step, BeginPass2, Pass2Online, Pass2Nothing, SubmitP2, SaveP2Id, ResumeP2,
      BatchP2Fails, CollectP2
<1>. QED
  BY <1>1, <1>2, <1>3

\* A run writes one answer at a time, of a paper of its chunk.
LEMMA WriteFrame ==
    ASSUME PhaseInv, mode \in {"run", "dry"}, WriteStep
    PROVE  /\ UNCHANGED <<sent, pc, mode, scope, chunk, inv, verdict, postFailed>>
           /\ pc \in PassPhases
           /\ \E c \in Cells : /\ c[1] \in ChunkPaperSet
                               /\ \A d \in Cells : d # c => rows'[d] = rows[d]
<1>1. PICK c \in Cells : \/ SaveNoOcr(c) \/ DropP1(c) \/ DropP2(c) \/ MarkDropped(c)
                         \/ SaveReply(c) \/ ReplyRefused(c) \/ RewriteRow(c)
  BY DEF WriteStep
<1>2. ~RewriteRow(c)
  BY DEF PhaseInv, RewriteRow
<1>3. c \in todo \union toMark /\ pc \in PassPhases
  BY <1>1, <1>2
  DEF SaveNoOcr, DropP1, DropP2, MarkDropped, SaveReply, ReplyRefused, FirstOf, PassPhases, PhaseInv
<1>4. c[1] \in ChunkPaperSet
  BY <1>3 DEF PhaseInv, WithinChunk, PassPhases
<1>5. UNCHANGED <<sent, pc, mode, scope, chunk, inv, verdict, postFailed>>
  BY <1>1, <1>2 DEF SaveNoOcr, DropP1, DropP2, MarkDropped, SaveReply, ReplyRefused
<1>6. CASE ReplyRefused(c)
  BY <1>3, <1>4, <1>5, <1>6 DEF ReplyRefused
<1>7. CASE MarkDropped(c)
  BY <1>3, <1>4, <1>5, <1>7, MarkDroppedRow DEF PhaseInv
<1>8. CASE Saving(c)
  <2>1. \A d \in Cells : d # c => rows'[d] = rows[d]
    BY <1>8, SavingSaves, SavedRow DEF PhaseInv
  <2>. QED
    BY <1>3, <1>4, <1>5, <2>1
<1>. QED
  BY <1>1, <1>2, <1>6, <1>7, <1>8 DEF Saving
=============================================================================
