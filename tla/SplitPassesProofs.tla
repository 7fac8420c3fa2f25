------------------------- MODULE SplitPassesProofs -------------------------
(***************************************************************************)
(* Theorems about SplitPasses for every number of papers and questions,    *)
(* every grouping, every script of commands and every bound.               *)
(***************************************************************************)
EXTENDS SplitPasses, WellFoundedInduction, TLAPS

---------------------------------------------------------------------------
(* Rows and payloads.                                                      *)

LEMMA SavedIsRow ==
    ASSUME NEW payload \in Payload
    PROVE  SaveAnswer(payload) \in Row /\ SavePass1(payload) \in Row
BY DEF SaveAnswer, SavePass1, Row, Statuses

LEMMA MarkPostedIsRow ==
    ASSUME NEW row \in Row
    PROVE  MarkPosted(row) \in Row
BY DEF MarkPosted, Row, Statuses

LEMMA NoRowIsRow == NoRow \in Row
BY DEF NoRow, Row, Statuses

LEMMA NoPayloadIsNone == NoPayload \notin Payload
BY DEF NoPayload, Payload, Kinds, ProviderErrors, FinalErrors

LEMMA CidOfType == \A c \in Cells : CidOf(c) \in Cids
BY DEF Cells, Cids, CidOf

---------------------------------------------------------------------------
(* The order of the loops.                                                 *)

\* A set of numbers has a smallest, since there is no infinite way down.
LEMMA SmallestOf ==
    ASSUME NEW S, S \subseteq Nat, S # {}
    PROVE  \E n \in S : \A m \in S : n <= m
<1>. DEFINE R == {ss \in Nat \X Nat : ss[1] < ss[2]}
<1>1. IsWellFoundedOn(R, Nat)
  BY NatLessThanWellFounded DEF OpToRel
<1>2. PICK n \in S : \A m \in S : ~(<<m, n>> \in R)
  <2>. HIDE DEF R
  <2>. QED
    BY <1>1, WFMin
<1>3. \A m \in S : ~(m < n)
  BY <1>2
<1>. QED
  BY <1>3

\* Some row of a group comes first, whichever of its rows are looked at.
LEMMA FirstOfGroup ==
    ASSUME NEW cid \in Cids, NEW S, S \subseteq CellsOf(cid), S # {}
    PROVE  \E c \in S : FirstOf(c, S)
<1>. DEFINE Q == {c[2] : c \in S}
<1>1. \A c \in S : /\ c \in Papers \X Questions
                    /\ CidOf(c) = cid
  BY DEF CellsOf, Cells
<1>2. Q \subseteq Nat /\ Q # {}
  BY <1>1, SizesAreNat DEF Questions
<1>3. PICK q \in Q : \A r \in Q : q <= r
  <2>. HIDE DEF Q
  <2>. QED
    BY <1>2, SmallestOf
<1>4. PICK c \in S : c[2] = q
  OBVIOUS
<1>5. \A d \in S : ~Before(d, c)
  <2>1. TAKE d \in S
  <2>2. d[1] = c[1] /\ GroupOf[d[2]] = GroupOf[c[2]]
    BY <1>1 DEF CidOf
  <2>3. /\ c[1] \in Nat /\ c[2] \in Nat /\ d[2] \in Nat
        /\ GroupOf[c[2]] \in Nat
    BY <1>1, SizesAreNat, GroupsAreNat DEF Questions, Papers
  <2>4. c[2] <= d[2]
    BY <1>3, <1>4
  <2>. QED
    BY <2>2, <2>3, <2>4 DEF Before
<1>. QED
  BY <1>5 DEF FirstOf

---------------------------------------------------------------------------
(* Types.                                                                  *)

USE DEF durable, locals, bounds

LEMMA InitType == Init => TypeOK
BY NoRowIsRow DEF Init, TypeOK, NoTexts, EmptyOutbox

LEMMA EndProcessType ==
    ASSUME TypeOK, EndProcess
    PROVE  /\ {p1', p2'} \subseteq [Cids -> Nat]
           /\ outbox' \in [Cells -> Payload \union {NoPayload}]
           /\ pc' = "idle"
           /\ papersLeft' \subseteq Papers /\ todo' \subseteq Cells /\ pending' \subseteq Cids
BY DEF EndProcess, NoTexts, EmptyOutbox

LEMMA NextPaperType ==
    ASSUME TypeOK, NEW p \in Papers, NextPaper(p)
    PROVE  /\ {p1', p2'} \subseteq [Cids -> Nat]
           /\ outbox' \in [Cells -> Payload \union {NoPayload}]
           /\ pc' = "paper"
           /\ papersLeft' \subseteq Papers /\ todo' \subseteq Cells /\ pending' \subseteq Cids
BY DEF NextPaper, NoTexts, EmptyOutbox, TypeOK

LEMMA StartCommandType ==
    ASSUME TypeOK, NEW command \in {"pass1", "pass2", "pass2nopost", "repost"},
           StartCommand(command)
    PROVE  TypeOK'
BY DEF StartCommand, TypeOK

LEMMA ResolveTextsType == ASSUME TypeOK, ResolveTexts PROVE TypeOK'
BY DEF ResolveTexts, Mishap, TypeOK

LEMMA Pass1OnlineType == ASSUME TypeOK, Pass1Online PROVE TypeOK'
BY DEF Pass1Online, Mishap, EndPass1, CellsIn, TypeOK

LEMMA Pass1NoCallType == ASSUME TypeOK, Pass1NoCall PROVE TypeOK'
BY DEF Pass1NoCall, EndPass1, CellsIn, TypeOK

LEMMA Pass1BatchType == ASSUME TypeOK, Pass1Batch PROVE TypeOK'
BY DEF Pass1Batch, TypeOK

LEMMA CollectP1Type == ASSUME TypeOK, CollectP1 PROVE TypeOK'
BY DEF CollectP1, Mishap, EndPass1, CellsIn, TypeOK

LEMMA SaveTextType == ASSUME TypeOK, NEW c \in Cells, SaveText(c) PROVE TypeOK'
<1>. DEFINE payload == [kind |-> "answer", inv |-> inv,
                        p1 |-> IF FirstOf(c, CellsOf(CidOf(c))) THEN p1[CidOf(c)] ELSE 0,
                        fmt |-> 0]
<1>1. payload \in Payload
  BY CidOfType DEF TypeOK, Payload, Kinds, ProviderErrors, FinalErrors
<1>2. rows' = [rows EXCEPT ![c] = SavePass1(payload)]
  BY DEF SaveText, StoreText
<1>3. rows' \in [Cells -> Row]
  BY <1>1, <1>2, SavedIsRow DEF TypeOK
<1>. QED
  BY <1>3 DEF SaveText, TypeOK

LEMMA FinishPass1Type == ASSUME TypeOK, FinishPass1 PROVE TypeOK'
BY EndProcessType DEF FinishPass1, TypeOK

LEMMA GroupTextType == ASSUME TypeOK, NEW cid \in Cids PROVE GroupText(cid) \in Nat
<1>1. CASE Waiting(cid) = {}
  BY <1>1 DEF GroupText
<1>2. CASE Waiting(cid) # {}
  <2>1. Waiting(cid) \subseteq CellsOf(cid)
    BY DEF Waiting
  <2>2. \E c \in Waiting(cid) : FirstOf(c, Waiting(cid))
    BY <1>2, <2>1, FirstOfGroup
  <2>. DEFINE first == CHOOSE c \in Waiting(cid) : FirstOf(c, Waiting(cid))
  <2>3. first \in Waiting(cid)
    BY <2>2
  <2>4. rows[first] \in Row /\ rows[first].payload.p1 = GroupText(cid)
    BY <1>2, <2>1, <2>3 DEF GroupText, CellsOf, TypeOK
  <2>5. rows[first].payload.p1 \in Nat
    BY <2>4 DEF Row, Payload, NoPayload
  <2>. QED
    BY <2>4, <2>5
<1>. QED
  BY <1>1, <1>2

LEMMA ReadTextsType == ASSUME TypeOK, NEW p \in Papers, ReadTexts(p) PROVE TypeOK'
BY GroupTextType DEF ReadTexts, TypeOK

LEMMA Pass2OnlineType == ASSUME TypeOK, Pass2Online PROVE TypeOK'
BY DEF Pass2Online, Mishap, EndPass2, TypeOK

LEMMA Pass2BatchType == ASSUME TypeOK, Pass2Batch PROVE TypeOK'
BY DEF Pass2Batch, TypeOK

LEMMA CollectP2Type == ASSUME TypeOK, CollectP2 PROVE TypeOK'
BY DEF CollectP2, Mishap, EndPass2, NoTexts, TypeOK

LEMMA TakeReplyType == ASSUME TypeOK, NEW cid \in Cids, TakeReply(cid) PROVE TypeOK'
BY DEF TakeReply, Waiting, CellsOf, TypeOK

LEMMA SaveReplyType == ASSUME TypeOK, NEW c \in Cells, SaveReply(c) PROVE TypeOK'
<1>1. PICK kind \in {"answer", "parse_error"} :
         rows' = [rows EXCEPT ![c] = SaveAnswer([kind |-> kind, inv |-> inv,
                                                 p1 |-> p1[CidOf(c)], fmt |-> p2[CidOf(c)]])]
  BY DEF SaveReply
<1>2. [kind |-> kind, inv |-> inv, p1 |-> p1[CidOf(c)], fmt |-> p2[CidOf(c)]] \in Payload
  BY CidOfType DEF TypeOK, Payload, Kinds, ProviderErrors, FinalErrors
<1>3. rows' \in [Cells -> Row]
  BY <1>1, <1>2, SavedIsRow DEF TypeOK
<1>. QED
  BY <1>3 DEF SaveReply, TypeOK

LEMMA ReadType ==
    ASSUME TypeOK, NEW p \in Papers, NEW picked \in SUBSET Cells, Read(p, picked)
    PROVE  /\ {p1', p2'} \subseteq [Cids -> Nat]
           /\ outbox' \in [Cells -> Payload \union {NoPayload}]
           /\ pc' \in {"paper", "send"}
           /\ papersLeft' \subseteq Papers /\ todo' \subseteq Cells /\ pending' \subseteq Cids
<1>1. CASE picked = {}
  BY <1>1, NextPaperType DEF Read
<1>2. CASE picked # {}
  BY <1>2 DEF Read, TypeOK, Row
<1>. QED
  BY <1>1, <1>2

LEMMA ReadUnpostedType == ASSUME TypeOK, NEW p \in Papers, ReadUnposted(p) PROVE TypeOK'
BY ReadType DEF ReadUnposted, TypeOK

LEMMA ReadPostableType == ASSUME TypeOK, NEW p \in Papers, ReadPostable(p) PROVE TypeOK'
BY ReadType DEF ReadPostable, TypeOK

LEMMA SendType == ASSUME TypeOK, Send PROVE TypeOK'
BY DEF Send, Deliver, TypeOK

LEMMA SendFailsType == ASSUME TypeOK, NEW p \in Papers, SendFails(p) PROVE TypeOK'
<1>1. sent' \in [Cells -> Payload \union {NoPayload}]
  BY DEF SendFails, Deliver, TypeOK
<1>2. /\ {p1', p2'} \subseteq [Cids -> Nat]
      /\ outbox' \in [Cells -> Payload \union {NoPayload}]
      /\ pc' \in {"idle", "paper"}
      /\ papersLeft' \subseteq Papers /\ todo' \subseteq Cells /\ pending' \subseteq Cids
  BY EndProcessType, NextPaperType DEF SendFails
<1>. QED
  BY <1>1, <1>2 DEF SendFails, Mishap, TypeOK

LEMMA MarkType == ASSUME TypeOK, NEW p \in Papers, Mark(p) PROVE TypeOK'
<1>1. rows' \in [Cells -> Row]
  BY MarkPostedIsRow DEF Mark, TypeOK
<1>. QED
  BY <1>1, NextPaperType DEF Mark, TypeOK

LEMMA FinishPapersType == ASSUME TypeOK, FinishPapers PROVE TypeOK'
BY EndProcessType DEF FinishPapers, TypeOK

LEMMA ParkType == ASSUME TypeOK, Park PROVE TypeOK'
BY EndProcessType DEF Park, Mishap, TypeOK

LEMMA BatchFailsType == ASSUME TypeOK, BatchFails PROVE TypeOK'
<1>1. kv1' \subseteq Cids /\ kv2' \in [Cids -> Nat]
  BY DEF BatchFails, NoTexts, TypeOK
<1>. QED
  BY <1>1, EndProcessType DEF BatchFails, Mishap, TypeOK

LEMMA CrashType == ASSUME TypeOK, Crash PROVE TypeOK'
BY EndProcessType, BoundsAreNat DEF Crash, TypeOK

LEMMA TypeNext == ASSUME TypeOK, [Next]_vars PROVE TypeOK'
<1>1. CASE Pass1Step
  BY <1>1, ResolveTextsType, Pass1OnlineType, Pass1NoCallType, Pass1BatchType, CollectP1Type,
     FinishPass1Type, SaveTextType DEF Pass1Step
<1>2. CASE Pass2Step
  BY <1>2, Pass2OnlineType, Pass2BatchType, CollectP2Type, ReadTextsType, TakeReplyType,
     SaveReplyType DEF Pass2Step
<1>3. CASE PostStep
  BY <1>3, SendType, FinishPapersType, ReadUnpostedType, ReadPostableType, SendFailsType,
     MarkType DEF PostStep
<1>4. CASE Park \/ BatchFails \/ Crash
  BY <1>4, ParkType, BatchFailsType, CrashType
<1>5. CASE UserStep
  BY <1>5, StartCommandType DEF UserStep
<1>6. CASE UNCHANGED vars
  BY <1>6 DEF vars, TypeOK
<1>. QED
  BY <1>1, <1>2, <1>3, <1>4, <1>5, <1>6 DEF Next, ProgramStep

\* The store, the provider's batches, SEER and the command keep their types
\* through every sequence of pass1, pass2 and repost (orchestrator.py:1063-1631).
THEOREM SplitTypeCorrect == Spec => []TypeOK
<1>. QED
  BY InitType, TypeNext, PTL DEF Spec

---------------------------------------------------------------------------
(* Texts and the groups they belong to.  A row of pass1_done means nothing *)
(* by itself: the text stands in the first row of its group, so that the   *)
(* rows of a group must be written, and answered, all or none.             *)

\* All rows of the group wait, and the first of them holds a text.
Whole(cid) ==
    \A c \in CellsOf(cid) :
        /\ rows[c].status = "pass1_done"
        /\ FirstOf(c, CellsOf(cid)) => rows[c].payload.p1 # 0

\* All rows of the group wait for this text.
WaitsFor(cid, text) ==
    \A c \in CellsOf(cid) :
        /\ rows[c].status = "pass1_done"
        /\ FirstOf(c, CellsOf(cid)) => rows[c].payload.p1 = text

\* A group nobody writes is whole or does not wait; in the one that is written,
\* the rows still to write are those of before.
GroupSound(cid) ==
    IF CellsOf(cid) \cap todo = {}
    THEN Whole(cid) \/ Waiting(cid) = {}
    ELSE /\ pc = "store" =>
              /\ p1[cid] # 0
              /\ \A c \in CellsOf(cid) :
                    /\ c \in todo <=> rows[c].status # "pass1_done"
                    /\ (c \notin todo /\ FirstOf(c, CellsOf(cid))) => rows[c].payload.p1 # 0
         /\ pc = "tail" =>
              \A c \in CellsOf(cid) : c \in todo <=> rows[c].status = "pass1_done"

GroupsSound == \A cid \in Cids : GroupSound(cid)

\* What a saved batch formats is what its groups wait for.
SavedTexts == \A cid \in Cids : kv2[cid] # 0 => WaitsFor(cid, kv2[cid])

\* And so is what a paper of `pass2` has in hand.
TextsInHand ==
    pc \in {"pass2", "p2poll"} => \A cid \in Cids : p1[cid] # 0 => WaitsFor(cid, p1[cid])

RepliesInHand ==
    pc = "tail" => \A cid \in Cids : (p1[cid] # 0 /\ p2[cid] # 0) => p1[cid] = p2[cid]

RowsFormatted ==
    \A c \in Cells : rows[c].payload.fmt # 0 => rows[c].payload.fmt = rows[c].payload.p1

\* Where the loops stand, whatever has crashed.
LoopsSound ==
    /\ pc \notin {"store", "tail"} => todo = {}
    /\ pc = "tail" \/ "p2" \notin batched => kv2 = NoTexts
    /\ pc \in {"pass2", "p2poll", "tail"} => \A cid \in pending : p1[cid] # 0
    /\ pc = "tail" => \A c \in todo : p1[CidOf(c)] # 0

TextsSound == GroupsSound /\ SavedTexts /\ TextsInHand /\ RepliesInHand /\ RowsFormatted

TextInv == TypeOK /\ LoopsSound /\ (crashes = 0 => TextsSound)

\* A whole group's text is what its first row holds.
LEMMA TextOfWhole ==
    ASSUME NEW cid \in Cids, NEW text, WaitsFor(cid, text), GroupText(cid) # 0
    PROVE  GroupText(cid) = text
<1>1. Waiting(cid) # {}
  BY DEF GroupText
<1>2. Waiting(cid) = CellsOf(cid)
  BY DEF Waiting, WaitsFor
<1>3. \E c \in Waiting(cid) : FirstOf(c, Waiting(cid))
  BY <1>1, <1>2, FirstOfGroup
<1>4. PICK c \in Waiting(cid) : FirstOf(c, Waiting(cid)) /\ GroupText(cid) = rows[c].payload.p1
  BY <1>1, <1>3 DEF GroupText
<1>. QED
  BY <1>2, <1>4 DEF WaitsFor

LEMMA WholeWaits ==
    ASSUME NEW cid \in Cids, Whole(cid), Waiting(cid) # {}
    PROVE  WaitsFor(cid, GroupText(cid)) /\ GroupText(cid) # 0
<1>1. Waiting(cid) = CellsOf(cid)
  BY DEF Waiting, Whole
<1>2. \E c \in Waiting(cid) : FirstOf(c, Waiting(cid))
  BY <1>1, FirstOfGroup
<1>3. PICK c \in Waiting(cid) : FirstOf(c, Waiting(cid)) /\ GroupText(cid) = rows[c].payload.p1
  BY <1>2 DEF GroupText
<1>4. \A d \in CellsOf(cid) : FirstOf(d, CellsOf(cid)) => d = c
  <2>1. TAKE d \in CellsOf(cid)
  <2>2. HAVE FirstOf(d, CellsOf(cid))
  <2>3. ~Before(c, d) /\ ~Before(d, c)
    BY <1>1, <1>3, <2>2 DEF FirstOf
  <2>4. /\ c \in Papers \X Questions /\ d \in Papers \X Questions
        /\ CidOf(c) = cid /\ CidOf(d) = cid
    BY <1>1, <1>3 DEF CellsOf, Cells
  <2>5. c[1] = d[1] /\ c[2] \in Nat /\ d[2] \in Nat
    BY <2>4, SizesAreNat DEF CidOf, Questions
  <2>6. c[2] = d[2]
    BY <2>3, <2>4, <2>5 DEF Before
  <2>. QED
    BY <2>4, <2>5, <2>6
<1>. QED
  BY <1>1, <1>3, <1>4 DEF WaitsFor, Whole

\* Steps that write no row, outside the loops.
LEMMA QuietGroups ==
    ASSUME GroupsSound, RowsFormatted, rows' = rows, todo = {}, todo' = {}
    PROVE  GroupsSound' /\ RowsFormatted'
<1>1. ASSUME NEW cid \in Cids PROVE GroupSound(cid)'
  <2>1. Whole(cid) \/ Waiting(cid) = {}
    BY DEF GroupsSound, GroupSound
  <2>2. Whole(cid)' \/ Waiting(cid)' = {}
    BY <2>1 DEF Whole, Waiting, FirstOf
  <2>. QED
    BY <2>2 DEF GroupSound
<1>. QED
  BY <1>1 DEF GroupsSound, RowsFormatted

LEMMA QuietSaved ==
    ASSUME SavedTexts, rows' = rows, kv2' \in {kv2, NoTexts}
    PROVE  SavedTexts'
BY DEF SavedTexts, WaitsFor, NoTexts

LEMMA QuietStep ==
    ASSUME TextInv, TypeOK', rows' = rows, kv2' \in {kv2, NoTexts}, batched' = batched,
           crashes' = crashes, todo = {}, todo' = {},
           pc' \notin {"store", "pass2", "p2poll", "tail"}
    PROVE  TextInv'
<1>1. LoopsSound'
  BY DEF TextInv, LoopsSound
<1>2. ASSUME crashes = 0 PROVE TextsSound'
  BY <1>2, QuietGroups, QuietSaved
  DEF TextInv, TextsSound, TextsInHand, RepliesInHand
<1>. QED
  BY <1>1, <1>2 DEF TextInv

LEMMA StartCommandText ==
    ASSUME TextInv, NEW command \in {"pass1", "pass2", "pass2nopost", "repost"},
           StartCommand(command)
    PROVE  TextInv'
BY StartCommandType, QuietStep DEF StartCommand, TextInv, LoopsSound

LEMMA ResolveTextsText == ASSUME TextInv, ResolveTexts PROVE TextInv'
BY ResolveTextsType, QuietStep DEF ResolveTexts, TextInv, LoopsSound

LEMMA Pass1BatchText == ASSUME TextInv, Pass1Batch PROVE TextInv'
BY Pass1BatchType, QuietStep DEF Pass1Batch, TextInv, LoopsSound

LEMMA FinishPass1Text == ASSUME TextInv, FinishPass1 PROVE TextInv'
BY FinishPass1Type, QuietStep DEF FinishPass1, EndProcess, TextInv

LEMMA FinishPapersText == ASSUME TextInv, FinishPapers PROVE TextInv'
BY FinishPapersType, QuietStep DEF FinishPapers, EndProcess, TextInv, LoopsSound

LEMMA ParkText == ASSUME TextInv, Park PROVE TextInv'
BY ParkType, QuietStep DEF Park, EndProcess, TextInv, LoopsSound

LEMMA BatchFailsText == ASSUME TextInv, BatchFails PROVE TextInv'
BY BatchFailsType, QuietStep DEF BatchFails, EndProcess, TextInv, LoopsSound

LEMMA ReadUnpostedText ==
    ASSUME TextInv, NEW p \in Papers, ReadUnposted(p)
    PROVE  TextInv'
BY ReadUnpostedType, QuietStep DEF ReadUnposted, Read, NextPaper, TextInv

LEMMA ReadPostableText ==
    ASSUME TextInv, NEW p \in Papers, ReadPostable(p)
    PROVE  TextInv'
BY ReadPostableType, QuietStep DEF ReadPostable, Read, NextPaper, TextInv, LoopsSound

LEMMA SendText == ASSUME TextInv, Send PROVE TextInv'
BY SendType, QuietStep DEF Send, TextInv, LoopsSound

LEMMA SendFailsText == ASSUME TextInv, NEW p \in Papers, SendFails(p) PROVE TextInv'
BY SendFailsType, QuietStep DEF SendFails, EndProcess, NextPaper, TextInv, LoopsSound

\* A crash leaves nothing to claim.
LEMMA CrashText == ASSUME TextInv, Crash PROVE TextInv'
<1>1. TypeOK' /\ crashes' # 0
  BY CrashType DEF Crash, TextInv, TypeOK
<1>2. LoopsSound'
  BY DEF Crash, EndProcess, TextInv, LoopsSound
<1>. QED
  BY <1>1, <1>2 DEF TextInv

\* Marking touches no row that waits, and no text.
LEMMA MarkText == ASSUME TextInv, NEW p \in Papers, Mark(p) PROVE TextInv'
<1>1. /\ TypeOK' /\ rows \in [Cells -> Row]
      /\ rows' = [c \in Cells |-> IF c \in InOutbox THEN MarkPosted(rows[c]) ELSE rows[c]]
      /\ todo = {} /\ todo' = {} /\ pc' = "paper"
      /\ UNCHANGED <<kv2, batched, crashes>>
  BY MarkType DEF Mark, NextPaper, TextInv, LoopsSound, TypeOK
<1>2. \A c \in Cells : /\ rows'[c].payload = rows[c].payload
                       /\ rows'[c].status = "pass1_done" <=> rows[c].status = "pass1_done"
  BY <1>1 DEF MarkPosted, Row
<1>3. LoopsSound'
  BY <1>1 DEF TextInv, LoopsSound
<1>4. ASSUME crashes = 0 PROVE TextsSound'
  <2>1. GroupsSound /\ SavedTexts /\ RowsFormatted
    BY <1>4 DEF TextInv, TextsSound
  <2>2. ASSUME NEW cid \in Cids PROVE GroupSound(cid)'
    <3>1. Whole(cid) \/ Waiting(cid) = {}
      BY <1>1, <2>1 DEF GroupsSound, GroupSound
    <3>2. Whole(cid)' \/ Waiting(cid)' = {}
      BY <1>2, <3>1 DEF Whole, Waiting, CellsOf
    <3>. QED
      BY <1>1, <3>2 DEF GroupSound
  <2>3. SavedTexts'
    BY <1>1, <1>2, <2>1 DEF SavedTexts, WaitsFor, CellsOf
  <2>4. RowsFormatted'
    BY <1>2, <2>1 DEF RowsFormatted
  <2>. QED
    BY <1>1, <2>2, <2>3, <2>4 DEF TextsSound, GroupsSound, TextsInHand, RepliesInHand
<1>. QED
  BY <1>1, <1>3, <1>4 DEF TextInv

\* The loop over the texts begins with groups of which no row waits.
LEMMA EndPass1Text ==
    ASSUME TextInv, TypeOK', NEW got, EndPass1(got), pending \subseteq Cids, todo = {},
           UNCHANGED <<rows, kv2, batched, crashes>>
    PROVE  TextInv'
<1>1. LoopsSound'
  BY DEF EndPass1, TextInv, LoopsSound
<1>2. ASSUME crashes = 0 PROVE TextsSound'
  <2>1. GroupsSound /\ SavedTexts /\ RowsFormatted
    BY <1>2 DEF TextInv, TextsSound
  <2>2. ASSUME NEW cid \in Cids PROVE GroupSound(cid)'
    <3>1. Whole(cid) \/ Waiting(cid) = {}
      BY <2>1 DEF GroupsSound, GroupSound
    <3>2. CASE cid \in ToStore(got)
      <4>1. got[cid] # 0 /\ Waiting(cid) = {}
        BY <3>1, <3>2 DEF ToStore, Whole
      <4>2. \A c \in CellsOf(cid) : c \in todo' /\ rows[c].status # "pass1_done"
        BY <3>2, <4>1 DEF EndPass1, CellsIn, CellsOf, Waiting
      <4>. QED
        BY <4>1, <4>2 DEF GroupSound, EndPass1, Waiting
    <3>3. CASE cid \notin ToStore(got)
      <4>1. CellsOf(cid) \cap todo' = {}
        BY <3>3 DEF EndPass1, CellsIn, CellsOf
      <4>2. Whole(cid)' \/ Waiting(cid)' = {}
        BY <3>1 DEF Whole, Waiting
      <4>. QED
        BY <4>1, <4>2 DEF GroupSound
    <3>. QED
      BY <3>2, <3>3
  <2>3. SavedTexts' /\ RowsFormatted'
    BY <2>1 DEF SavedTexts, WaitsFor, RowsFormatted
  <2>. QED
    BY <2>2, <2>3 DEF TextsSound, GroupsSound, TextsInHand, RepliesInHand, EndPass1
<1>. QED
  BY <1>1, <1>2 DEF TextInv

LEMMA Pass1OnlineText == ASSUME TextInv, Pass1Online PROVE TextInv'
BY Pass1OnlineType, EndPass1Text DEF Pass1Online, TextInv, LoopsSound, TypeOK

LEMMA Pass1NoCallText == ASSUME TextInv, Pass1NoCall PROVE TextInv'
BY Pass1NoCallType, EndPass1Text DEF Pass1NoCall, TextInv, LoopsSound, TypeOK

LEMMA CollectP1Text == ASSUME TextInv, CollectP1 PROVE TextInv'
BY CollectP1Type, EndPass1Text DEF CollectP1, TextInv, LoopsSound, TypeOK

\* One more row of the group waits; with the last one the group is whole.
LEMMA SaveTextText == ASSUME TextInv, NEW c \in Cells, SaveText(c) PROVE TextInv'
<1>. DEFINE cid0 == CidOf(c)
            payload == [kind |-> "answer", inv |-> inv,
                        p1 |-> IF FirstOf(c, CellsOf(cid0)) THEN p1[cid0] ELSE 0, fmt |-> 0]
<1>1. /\ TypeOK' /\ rows \in [Cells -> Row] /\ cid0 \in Cids
      /\ rows' = [rows EXCEPT ![c] = SavePass1(payload)]
      /\ pc = "store" /\ pc' = "store" /\ c \in todo /\ todo' = todo \ {c}
      /\ UNCHANGED <<kv2, batched, p1, crashes>>
  BY SaveTextType, CidOfType DEF SaveText, StoreText, FirstOf, TextInv, TypeOK
<1>2. LoopsSound'
  BY <1>1 DEF TextInv, LoopsSound
<1>3. ASSUME crashes = 0 PROVE TextsSound'
  <2>1. GroupsSound /\ SavedTexts /\ RowsFormatted
    BY <1>3 DEF TextInv, TextsSound
  <2>2. /\ rows'[c].status = "pass1_done" /\ rows'[c].payload = payload
        /\ \A d \in Cells : d # c => rows'[d] = rows[d]
    BY <1>1 DEF SavePass1
  <2>3. c \in CellsOf(cid0) \cap todo /\ CellsOf(cid0) \subseteq Cells
    BY <1>1 DEF CellsOf
  <2>4. /\ p1[cid0] # 0
        /\ \A d \in CellsOf(cid0) :
              /\ d \in todo <=> rows[d].status # "pass1_done"
              /\ (d \notin todo /\ FirstOf(d, CellsOf(cid0))) => rows[d].payload.p1 # 0
    BY <1>1, <2>1, <2>3 DEF GroupsSound, GroupSound
  <2>5. \A d \in CellsOf(cid0) :
            /\ d \in todo' <=> rows'[d].status # "pass1_done"
            /\ (d \notin todo' /\ FirstOf(d, CellsOf(cid0))) => rows'[d].payload.p1 # 0
    BY <1>1, <2>2, <2>3, <2>4
  <2>6. GroupSound(cid0)'
    BY <1>1, <2>4, <2>5 DEF GroupSound, Whole
  <2>7. ASSUME NEW cid \in Cids, cid # cid0 PROVE GroupSound(cid)'
    <3>1. \A d \in CellsOf(cid) : d # c /\ d \in Cells
      BY <2>7 DEF CellsOf
    <3>2. \A d \in CellsOf(cid) : rows'[d] = rows[d] /\ (d \in todo' <=> d \in todo)
      BY <1>1, <2>2, <3>1
    <3>3. GroupSound(cid)
      BY <2>1 DEF GroupsSound
    <3>. QED
      BY <1>1, <3>2, <3>3 DEF GroupSound, Whole, Waiting
  <2>8. SavedTexts'
    <3>1. SUFFICES ASSUME NEW cid \in Cids, kv2[cid] # 0 PROVE WaitsFor(cid, kv2[cid])'
      BY <1>1 DEF SavedTexts
    <3>2. WaitsFor(cid, kv2[cid])
      BY <2>1, <3>1 DEF SavedTexts
    <3>3. cid # cid0
      BY <2>3, <2>4, <3>2 DEF WaitsFor
    <3>4. \A d \in CellsOf(cid) : d \in Cells /\ d # c
      BY <3>3 DEF CellsOf
    <3>. QED
      BY <1>1, <2>2, <3>2, <3>4 DEF WaitsFor
  <2>9. RowsFormatted'
    BY <2>1, <2>2 DEF RowsFormatted
  <2>. QED
    BY <1>1, <2>6, <2>7, <2>8, <2>9 DEF TextsSound, GroupsSound, TextsInHand, RepliesInHand
<1>. QED
  BY <1>1, <1>2, <1>3 DEF TextInv

\* Steps of `pass2` that write no row.
LEMMA QuietPass2 ==
    ASSUME TextInv, TypeOK', rows' = rows, batched' = batched, crashes' = crashes,
           todo = {}, todo' = {}, pc' # "store",
           pc' = "tail" \/ "p2" \notin batched => kv2' = NoTexts,
           pc' \in {"pass2", "p2poll", "tail"} => \A cid \in pending' : p1'[cid] # 0,
           crashes = 0 => (SavedTexts /\ TextsInHand /\ RepliesInHand)'
    PROVE  TextInv'
<1>1. LoopsSound'
  BY DEF TextInv, LoopsSound
<1>2. ASSUME crashes = 0 PROVE TextsSound'
  BY <1>2, QuietGroups DEF TextInv, TextsSound
<1>. QED
  BY <1>1, <1>2 DEF TextInv

LEMMA ReadTextsText == ASSUME TextInv, NEW p \in Papers, ReadTexts(p) PROVE TextInv'
<1>1. CASE papersLeft' = papersLeft \ {p} /\ UNCHANGED <<pc, pending, p1>>
  BY <1>1, ReadTextsType, QuietStep DEF ReadTexts, TextInv, LoopsSound
<1>. DEFINE found == {cid \in Cids : cid[1] = p /\ GroupText(cid) # 0}
<1>2. CASE /\ pending' = found
           /\ p1' = [cid \in Cids |-> IF cid \in found THEN GroupText(cid) ELSE 0]
           /\ pc' = "pass2"
  <2>1. /\ TypeOK' /\ todo = {} /\ todo' = {} /\ kv2' = kv2
        /\ UNCHANGED <<rows, batched, crashes>>
    BY ReadTextsType DEF ReadTexts, TextInv, LoopsSound
  <2>2. "p2" \notin batched => kv2' = NoTexts
    BY <2>1 DEF TextInv, LoopsSound
  <2>3. \A cid \in pending' : p1'[cid] # 0
    BY <1>2
  <2>4. ASSUME crashes = 0 PROVE (SavedTexts /\ TextsInHand /\ RepliesInHand)'
    <3>1. GroupsSound /\ SavedTexts
      BY <2>4 DEF TextInv, TextsSound
    <3>2. ASSUME NEW cid \in Cids, p1'[cid] # 0 PROVE WaitsFor(cid, p1[cid])'
      <4>1. p1'[cid] = GroupText(cid) /\ GroupText(cid) # 0
        BY <1>2, <3>2
      <4>2. Waiting(cid) # {}
        BY <4>1 DEF GroupText
      <4>3. Whole(cid)
        BY <2>1, <3>1, <4>2 DEF GroupsSound, GroupSound
      <4>4. WaitsFor(cid, GroupText(cid))
        BY <4>2, <4>3, WholeWaits
      <4>. QED
        BY <2>1, <4>1, <4>4 DEF WaitsFor
    <3>. QED
      BY <1>2, <2>1, <3>1, <3>2, QuietSaved DEF TextsInHand, RepliesInHand
  <2>. QED
    BY <1>2, <2>1, <2>2, <2>3, <2>4, QuietPass2
<1>. QED
  BY <1>1, <1>2 DEF ReadTexts

LEMMA Pass2OnlineText == ASSUME TextInv, Pass2Online PROVE TextInv'
<1>1. PICK ok \in SUBSET pending : p2' = [cid \in Cids |-> IF cid \in ok THEN p1[cid] ELSE 0]
  BY DEF Pass2Online, EndPass2
<1>2. /\ TypeOK' /\ todo = {} /\ todo' = {} /\ pc = "pass2" /\ pc' = "tail"
      /\ kv2 = NoTexts /\ kv2' = NoTexts
      /\ UNCHANGED <<rows, batched, crashes, pending, p1>>
  BY Pass2OnlineType DEF Pass2Online, EndPass2, TextInv, LoopsSound
<1>3. \A cid \in pending' : p1'[cid] # 0
  BY <1>2 DEF TextInv, LoopsSound
<1>4. ASSUME crashes = 0 PROVE (SavedTexts /\ TextsInHand /\ RepliesInHand)'
  BY <1>1, <1>2 DEF SavedTexts, NoTexts, TextsInHand, RepliesInHand
<1>. QED
  BY <1>2, <1>3, <1>4, QuietPass2

LEMMA Pass2BatchText == ASSUME TextInv, Pass2Batch PROVE TextInv'
<1>1. /\ TypeOK' /\ todo = {} /\ todo' = {} /\ pc = "pass2" /\ pc' = "p2poll"
      /\ "p2" \in batched /\ kv2' = IF kv2 = NoTexts THEN p1 ELSE kv2
      /\ UNCHANGED <<rows, batched, crashes, pending, p1>>
  BY Pass2BatchType DEF Pass2Batch, TextInv, LoopsSound
<1>2. \A cid \in pending' : p1'[cid] # 0
  BY <1>1 DEF TextInv, LoopsSound
<1>3. ASSUME crashes = 0 PROVE (SavedTexts /\ TextsInHand /\ RepliesInHand)'
  <2>1. SavedTexts /\ TextsInHand
    BY <1>3 DEF TextInv, TextsSound
  <2>2. SavedTexts'
    BY <1>1, <2>1 DEF SavedTexts, TextsInHand, WaitsFor
  <2>3. TextsInHand'
    BY <1>1, <2>1 DEF TextsInHand, WaitsFor
  <2>. QED
    BY <1>1, <2>2, <2>3 DEF RepliesInHand
<1>. QED
  BY <1>1, <1>2, <1>3, QuietPass2

\* A group has rows, and the first of them holds one text.
LEMMA OneTextEach ==
    ASSUME NEW cid \in Cids, NEW a, NEW b, WaitsFor(cid, a), WaitsFor(cid, b)
    PROVE  a = b
<1>1. CellsOf(cid) # {}
  <2>1. PICK p \in Papers, q \in Questions : cid = <<p, GroupOf[q]>>
    BY DEF Cids
  <2>2. <<p, q>> \in CellsOf(cid)
    BY <2>1 DEF CellsOf, Cells, CidOf
  <2>. QED
    BY <2>2
<1>2. PICK c \in CellsOf(cid) : FirstOf(c, CellsOf(cid))
  BY <1>1, FirstOfGroup
<1>. QED
  BY <1>2 DEF WaitsFor

\* What comes back was asked for a text, and it is the one in hand.
LEMMA CollectP2Text == ASSUME TextInv, CollectP2 PROVE TextInv'
<1>1. PICK ok \in SUBSET {cid \in Cids : kv2[cid] # 0} :
         p2' = [cid \in Cids |-> IF cid \in ok THEN kv2[cid] ELSE 0]
  BY DEF CollectP2, EndPass2
<1>2. /\ TypeOK' /\ todo = {} /\ todo' = {} /\ pc = "p2poll" /\ pc' = "tail"
      /\ kv2' = NoTexts
      /\ UNCHANGED <<rows, batched, crashes, pending, p1>>
  BY CollectP2Type DEF CollectP2, EndPass2, TextInv, LoopsSound
<1>3. \A cid \in pending' : p1'[cid] # 0
  BY <1>2 DEF TextInv, LoopsSound
<1>4. ASSUME crashes = 0 PROVE (SavedTexts /\ TextsInHand /\ RepliesInHand)'
  <2>1. SavedTexts /\ TextsInHand
    BY <1>4 DEF TextInv, TextsSound
  <2>2. ASSUME NEW cid \in Cids, p1[cid] # 0, p2'[cid] # 0 PROVE p1[cid] = p2'[cid]
    <3>1. p2'[cid] = kv2[cid] /\ kv2[cid] # 0
      BY <1>1, <2>2
    <3>2. WaitsFor(cid, p1[cid]) /\ WaitsFor(cid, kv2[cid])
      BY <1>2, <2>1, <2>2, <3>1 DEF SavedTexts, TextsInHand
    <3>. QED
      BY <3>1, <3>2, OneTextEach
  <2>. QED
    BY <1>2, <2>2 DEF SavedTexts, NoTexts, TextsInHand, RepliesInHand
<1>. QED
  BY <1>2, <1>3, <1>4, QuietPass2

LEMMA TakeReplyText == ASSUME TextInv, NEW cid \in Cids, TakeReply(cid) PROVE TextInv'
<1>1. /\ TypeOK' /\ pc = "tail" /\ pc' = "tail" /\ todo = {} /\ todo' = Waiting(cid)
      /\ cid \in pending /\ pending' \subseteq pending
      /\ UNCHANGED <<rows, kv2, batched, crashes, p1, p2>>
  BY TakeReplyType DEF TakeReply, TextInv
<1>2. LoopsSound'
  <2>1. \A c \in todo' : CidOf(c) = cid
    BY <1>1 DEF Waiting, CellsOf
  <2>. QED
    BY <1>1, <2>1 DEF TextInv, LoopsSound
<1>3. ASSUME crashes = 0 PROVE TextsSound'
  <2>1. GroupsSound /\ SavedTexts /\ RepliesInHand /\ RowsFormatted
    BY <1>3 DEF TextInv, TextsSound
  <2>2. ASSUME NEW d \in Cids PROVE GroupSound(d)'
    <3>1. Whole(d) \/ Waiting(d) = {}
      BY <1>1, <2>1 DEF GroupsSound, GroupSound
    <3>2. CASE d = cid
      BY <1>1, <3>1, <3>2 DEF GroupSound, Whole, Waiting
    <3>3. CASE d # cid
      <4>1. CellsOf(d) \cap todo' = {}
        BY <1>1, <3>3 DEF Waiting, CellsOf
      <4>2. Whole(d)' \/ Waiting(d)' = {}
        BY <1>1, <3>1 DEF Whole, Waiting
      <4>. QED
        BY <4>1, <4>2 DEF GroupSound
    <3>. QED
      BY <3>2, <3>3
  <2>3. SavedTexts' /\ RowsFormatted'
    BY <1>1, <2>1 DEF SavedTexts, WaitsFor, RowsFormatted
  <2>. QED
    BY <1>1, <2>1, <2>2, <2>3 DEF TextsSound, GroupsSound, TextsInHand, RepliesInHand
<1>. QED
  BY <1>1, <1>2, <1>3 DEF TextInv

\* One row less of the group waits; with the last one none does.
LEMMA SaveReplyText == ASSUME TextInv, NEW c \in Cells, SaveReply(c) PROVE TextInv'
<1>. DEFINE cid0 == CidOf(c)
<1>1. /\ TypeOK' /\ rows \in [Cells -> Row] /\ cid0 \in Cids
      /\ pc = "tail" /\ pc' = "tail" /\ c \in todo /\ todo' = todo \ {c}
      /\ UNCHANGED <<kv2, batched, p1, p2, pending, crashes>>
  BY SaveReplyType, CidOfType DEF SaveReply, FirstOf, TextInv, TypeOK
<1>2. PICK kind \in {"answer", "parse_error"} :
         rows' = [rows EXCEPT ![c] = SaveAnswer([kind |-> kind, inv |-> inv,
                                                 p1 |-> p1[cid0], fmt |-> p2[cid0]])]
  BY DEF SaveReply
<1>3. /\ rows'[c].status # "pass1_done"
      /\ rows'[c].payload.p1 = p1[cid0] /\ rows'[c].payload.fmt = p2[cid0]
      /\ \A d \in Cells : d # c => rows'[d] = rows[d]
  BY <1>1, <1>2 DEF SaveAnswer
<1>4. LoopsSound' /\ kv2' = NoTexts
  BY <1>1 DEF TextInv, LoopsSound
<1>5. ASSUME crashes = 0 PROVE TextsSound'
  <2>1. GroupsSound /\ SavedTexts /\ RepliesInHand /\ RowsFormatted
    BY <1>5 DEF TextInv, TextsSound
  <2>2. c \in CellsOf(cid0) \cap todo
    BY <1>1 DEF CellsOf
  <2>3. \A d \in CellsOf(cid0) : d \in todo <=> rows[d].status = "pass1_done"
    BY <1>1, <2>1, <2>2 DEF GroupsSound, GroupSound
  <2>4. \A d \in CellsOf(cid0) : d \in todo' <=> rows'[d].status = "pass1_done"
    BY <1>1, <1>3, <2>2, <2>3 DEF CellsOf
  <2>5. GroupSound(cid0)'
    BY <1>1, <2>4 DEF GroupSound, Waiting
  <2>6. ASSUME NEW cid \in Cids, cid # cid0 PROVE GroupSound(cid)'
    <3>1. \A d \in CellsOf(cid) : d # c /\ d \in Cells
      BY <2>6 DEF CellsOf
    <3>2. \A d \in CellsOf(cid) : rows'[d] = rows[d] /\ (d \in todo' <=> d \in todo)
      BY <1>1, <1>3, <3>1
    <3>3. GroupSound(cid)
      BY <2>1 DEF GroupsSound
    <3>. QED
      BY <1>1, <3>2, <3>3 DEF GroupSound, Whole, Waiting
  <2>7. RowsFormatted'
    <3>1. p1[cid0] # 0
      BY <1>1 DEF TextInv, LoopsSound
    <3>2. p2[cid0] # 0 => p2[cid0] = p1[cid0]
      BY <1>1, <2>1, <3>1 DEF RepliesInHand
    <3>. QED
      BY <1>3, <2>1, <3>2 DEF RowsFormatted
  <2>. QED
    BY <1>1, <1>4, <2>1, <2>5, <2>6, <2>7
    DEF TextsSound, GroupsSound, SavedTexts, NoTexts, TextsInHand, RepliesInHand
<1>. QED
  BY <1>1, <1>4, <1>5 DEF TextInv

LEMMA InitText == Init => TextInv
<1>1. SUFFICES ASSUME Init PROVE TextInv
  OBVIOUS
<1>2. \A cid \in Cids : Waiting(cid) = {} /\ kv2[cid] = 0
  BY <1>1 DEF Init, Waiting, CellsOf, NoRow, NoTexts
<1>3. RowsFormatted
  BY <1>1 DEF Init, RowsFormatted, NoRow, NoPayload
<1>4. LoopsSound
  BY <1>1 DEF Init, LoopsSound
<1>5. pc = "idle" /\ todo = {}
  BY <1>1 DEF Init
<1>. QED
  BY <1>1, <1>2, <1>3, <1>4, <1>5, InitType
  DEF TextInv, TextsSound, GroupsSound, GroupSound, SavedTexts, TextsInHand, RepliesInHand

LEMMA TextNext == ASSUME TextInv, [Next]_vars PROVE TextInv'
<1>1. CASE Pass1Step
  BY <1>1, ResolveTextsText, Pass1OnlineText, Pass1NoCallText, Pass1BatchText, CollectP1Text,
     FinishPass1Text, SaveTextText DEF Pass1Step
<1>2. CASE Pass2Step
  BY <1>2, Pass2OnlineText, Pass2BatchText, CollectP2Text, ReadTextsText, TakeReplyText,
     SaveReplyText DEF Pass2Step
<1>3. CASE PostStep
  BY <1>3, SendText, FinishPapersText, ReadUnpostedText, ReadPostableText, SendFailsText,
     MarkText DEF PostStep
<1>4. CASE Park \/ BatchFails \/ Crash
  BY <1>4, ParkText, BatchFailsText, CrashText
<1>5. CASE UserStep
  BY <1>5, StartCommandText DEF UserStep
<1>6. CASE UNCHANGED vars
  <2>1. TypeOK' /\ UNCHANGED vars
    BY <1>6, TypeNext DEF TextInv
  <2>. QED
    BY <2>1
    DEF vars, TextInv, LoopsSound, TextsSound, GroupsSound, GroupSound, Whole, Waiting, SavedTexts,
        TextsInHand, WaitsFor, RepliesInHand, RowsFormatted
<1>. QED
  BY <1>1, <1>2, <1>3, <1>4, <1>5, <1>6 DEF Next, ProgramStep

\* An answer carries the text its reply was asked to format, in any order of the
\* commands and with any batch left over from an earlier one, as long as no crash
\* has cut a group in two: pass1 rewrites a group only when none of its rows
\* waits, pass2 only when all do (orchestrator.py:1145-1201, 1424-1482).
THEOREM SplitFormatsItsText == Spec => []FormattedFromItsText
<1>1. TextInv => FormattedFromItsText
  BY DEF TextInv, TextsSound, RowsFormatted, FormattedFromItsText
<1>. QED
  BY <1>1, InitText, TextNext, PTL DEF Spec

\* Whatever pass1 leaves behind, pass2 finds the text of: a group of which a row
\* waits at the end of a command has its text in the row pass2 looks at, the first
\* (orchestrator.py:1207-1252).
THEOREM SplitLeavesTexts == Spec => []AwaitingHasText
<1>1. TextInv => AwaitingHasText
  <2>1. SUFFICES ASSUME TextInv, pc = "idle", crashes = 0, NEW cid \in Cids, Waiting(cid) # {}
                 PROVE  GroupText(cid) # 0
    BY DEF AwaitingHasText
  <2>2. Whole(cid)
    BY <2>1 DEF TextInv, LoopsSound, TextsSound, GroupsSound, GroupSound
  <2>. QED
    BY <2>1, <2>2, WholeWaits
<1>. QED
  BY <1>1, InitText, TextNext, PTL DEF Spec

---------------------------------------------------------------------------
(* Delivery.  What is marked is what was read, sent, and still stands.     *)

\* A row is there if it holds a payload.
RowsHeld == \A c \in Cells : rows[c].status = "absent" <=> rows[c].payload = NoPayload

\* Nothing is rewritten between reading the payloads and marking them.
OutboxCurrent ==
    pc \in {"send", "ack"} => \A c \in InOutbox : outbox[c] = rows[c].payload

\* Between the answer of SEER and mark_posted, SEER holds what was sent.
AckMeansSent ==
    pc = "ack" => \A c \in InOutbox : sent[c] = outbox[c]

DeliveryInv == TypeOK /\ RowsHeld /\ OutboxCurrent /\ AckMeansSent

\* What each step does to the invariant and to the promise.
DeliveryStep == DeliveryInv' /\ [Delivery!Next]_Delivery!vars

\* Steps that leave the rows and SEER alone, away from posting.
LEMMA IdleDelivers ==
    ASSUME DeliveryInv, TypeOK', rows' = rows, sent' = sent, pc' \notin {"send", "ack"}
    PROVE  DeliveryStep
<1>1. DeliveryInv'
  BY DEF DeliveryInv, RowsHeld, OutboxCurrent, AckMeansSent
<1>2. UNCHANGED Delivery!vars
  BY DEF Delivery!vars
<1>. QED
  BY <1>1, <1>2 DEF DeliveryStep

\* A new text or answer for one cell puts it in debt.
LEMMA BuildStep ==
    ASSUME DeliveryInv, TypeOK', NEW c \in Cells, NEW payload \in Payload,
           NEW status \in {"done", "pass1_done"},
           rows' = [rows EXCEPT ![c] = [status |-> status, payload |-> payload,
                                        posted |-> FALSE]],
           sent' = sent, pc' \notin {"send", "ack"}
    PROVE  DeliveryStep
<1>1. payload # NoPayload /\ rows \in [Cells -> Row]
  BY NoPayloadIsNone DEF DeliveryInv, TypeOK
<1>2. DeliveryInv'
  BY <1>1 DEF DeliveryInv, RowsHeld, OutboxCurrent, AckMeansSent
<1>3. [d \in Cells |-> rows'[d].payload]
         = [[d \in Cells |-> rows[d].payload] EXCEPT ![c] = payload]
  BY <1>1
<1>4. {d \in Cells : rows'[d].payload # NoPayload /\ ~rows'[d].posted}
         = {d \in Cells : rows[d].payload # NoPayload /\ ~rows[d].posted} \union {c}
  BY <1>1
<1>5. Delivery!Build(c)
  BY <1>3, <1>4 DEF Delivery!Build
<1>. QED
  BY <1>2, <1>5 DEF DeliveryStep, Delivery!Next

LEMMA SaveTextDelivers == ASSUME DeliveryInv, NEW c \in Cells, SaveText(c) PROVE DeliveryStep
<1>. DEFINE payload == [kind |-> "answer", inv |-> inv,
                        p1 |-> IF FirstOf(c, CellsOf(CidOf(c))) THEN p1[CidOf(c)] ELSE 0,
                        fmt |-> 0]
<1>1. payload \in Payload
  BY CidOfType DEF DeliveryInv, TypeOK, Payload, Kinds, ProviderErrors, FinalErrors
<1>2. rows' = [rows EXCEPT ![c] = [status |-> "pass1_done", payload |-> payload,
                                   posted |-> FALSE]]
  BY DEF SaveText, StoreText, SavePass1
<1>3. TypeOK' /\ sent' = sent /\ pc' = "store"
  BY SaveTextType DEF SaveText, DeliveryInv
<1>. QED
  BY <1>1, <1>2, <1>3, BuildStep

LEMMA SaveReplyDelivers == ASSUME DeliveryInv, NEW c \in Cells, SaveReply(c) PROVE DeliveryStep
<1>1. PICK kind \in {"answer", "parse_error"} :
         rows' = [rows EXCEPT ![c] = SaveAnswer([kind |-> kind, inv |-> inv,
                                                 p1 |-> p1[CidOf(c)], fmt |-> p2[CidOf(c)]])]
  BY DEF SaveReply
<1>2. [kind |-> kind, inv |-> inv, p1 |-> p1[CidOf(c)], fmt |-> p2[CidOf(c)]] \in Payload
  BY CidOfType DEF DeliveryInv, TypeOK, Payload, Kinds, ProviderErrors, FinalErrors
<1>3. TypeOK' /\ sent' = sent /\ pc' = "tail"
  BY SaveReplyType DEF SaveReply, DeliveryInv
<1>. QED
  BY <1>1, <1>2, <1>3, BuildStep DEF SaveAnswer

LEMMA ReadDelivers ==
    ASSUME DeliveryInv, TypeOK', NEW p \in Papers, NEW picked \in SUBSET Cells, Read(p, picked),
           rows' = rows, sent' = sent
    PROVE  DeliveryStep
<1>1. CASE picked = {}
  BY <1>1, IdleDelivers DEF Read, NextPaper
<1>2. CASE picked # {}
  <2>1. pc' = "send" /\ \A c \in Cells : outbox'[c] \in {rows[c].payload, NoPayload}
    BY <1>2 DEF Read
  <2>2. DeliveryInv'
    BY <2>1 DEF DeliveryInv, RowsHeld, OutboxCurrent, AckMeansSent, InOutbox
  <2>3. UNCHANGED Delivery!vars
    BY DEF Delivery!vars
  <2>. QED
    BY <2>2, <2>3 DEF DeliveryStep
<1>. QED
  BY <1>1, <1>2

LEMMA ReadUnpostedDelivers ==
    ASSUME DeliveryInv, NEW p \in Papers, ReadUnposted(p)
    PROVE  DeliveryStep
BY ReadUnpostedType, ReadDelivers DEF ReadUnposted, DeliveryInv

LEMMA ReadPostableDelivers ==
    ASSUME DeliveryInv, NEW p \in Papers, ReadPostable(p)
    PROVE  DeliveryStep
BY ReadPostableType, ReadDelivers DEF ReadPostable, DeliveryInv

\* A payload that reaches SEER is the row's current one.
LEMMA DeliverReceives ==
    ASSUME DeliveryInv, rows' = rows, Deliver, pc = "send"
    PROVE  /\ \A c \in InOutbox : sent'[c] = outbox[c]
           /\ [Delivery!Next]_Delivery!vars
<1>1. InOutbox \in SUBSET Cells
  BY DEF InOutbox
<1>2. \A c \in InOutbox : outbox[c] = rows[c].payload /\ outbox[c] # NoPayload
  BY DEF DeliveryInv, OutboxCurrent, InOutbox
<1>3. sent' = [c \in Cells |-> IF c \in InOutbox THEN rows[c].payload ELSE sent[c]]
  BY <1>2 DEF Deliver
<1>4. Delivery!Receive(InOutbox)
  BY <1>1, <1>2, <1>3 DEF Delivery!Receive
<1>. QED
  BY <1>1, <1>2, <1>3, <1>4 DEF Delivery!Next

LEMMA SendDelivers == ASSUME DeliveryInv, Send PROVE DeliveryStep
<1>1. TypeOK' /\ rows' = rows /\ outbox' = outbox /\ pc = "send" /\ pc' = "ack" /\ Deliver
  BY SendType DEF Send, DeliveryInv
<1>2. DeliveryInv'
  BY <1>1, DeliverReceives DEF DeliveryInv, RowsHeld, OutboxCurrent, AckMeansSent, InOutbox
<1>. QED
  BY <1>1, <1>2, DeliverReceives DEF DeliveryStep

LEMMA SendFailsDelivers == ASSUME DeliveryInv, NEW p \in Papers, SendFails(p) PROVE DeliveryStep
<1>1. TypeOK' /\ rows' = rows /\ pc = "send" /\ pc' \in {"idle", "paper"}
  BY SendFailsType DEF SendFails, EndProcess, NextPaper, DeliveryInv
<1>2. CASE sent' = sent
  BY <1>1, <1>2, IdleDelivers
<1>3. CASE Deliver
  <2>1. DeliveryInv'
    BY <1>1 DEF DeliveryInv, RowsHeld, OutboxCurrent, AckMeansSent
  <2>. QED
    BY <1>1, <1>3, <2>1, DeliverReceives DEF DeliveryStep
<1>. QED
  BY <1>2, <1>3 DEF SendFails

\* The debts written off are paid.
LEMMA MarkDelivers == ASSUME DeliveryInv, NEW p \in Papers, Mark(p) PROVE DeliveryStep
<1>1. TypeOK' /\ rows \in [Cells -> Row] /\ InOutbox \in SUBSET Cells
  BY MarkType DEF DeliveryInv, TypeOK, InOutbox
<1>2. /\ rows' = [c \in Cells |-> IF c \in InOutbox THEN MarkPosted(rows[c]) ELSE rows[c]]
      /\ sent' = sent /\ pc = "ack" /\ pc' = "paper"
  BY DEF Mark, NextPaper
<1>3. \A c \in InOutbox : /\ rows[c].payload # NoPayload
                          /\ sent[c] = rows[c].payload
                          /\ rows[c].status # "absent"
  BY <1>1, <1>2 DEF DeliveryInv, OutboxCurrent, AckMeansSent, RowsHeld, InOutbox
<1>4. \A c \in Cells : /\ rows'[c].payload = rows[c].payload
                       /\ c \in InOutbox => rows'[c].posted /\ rows'[c].status # "absent"
                       /\ c \notin InOutbox => rows'[c] = rows[c]
  BY <1>1, <1>2, <1>3 DEF MarkPosted, Row
<1>5. DeliveryInv'
  BY <1>1, <1>2, <1>3, <1>4 DEF DeliveryInv, RowsHeld, OutboxCurrent, AckMeansSent
<1>6. {c \in Cells : rows'[c].payload # NoPayload /\ ~rows'[c].posted}
         = {c \in Cells : rows[c].payload # NoPayload /\ ~rows[c].posted} \ InOutbox
  BY <1>4
<1>7. [c \in Cells |-> rows'[c].payload] = [c \in Cells |-> rows[c].payload]
  BY <1>4
<1>8. Delivery!Settle(InOutbox)
  BY <1>1, <1>2, <1>3, <1>6, <1>7 DEF Delivery!Settle
<1>9. Delivery!Next
  BY <1>1, <1>8 DEF Delivery!Next, Delivery!Settle
<1>. QED
  BY <1>5, <1>9 DEF DeliveryStep

LEMMA DeliveryInit == Init => DeliveryInv /\ Delivery!Init
<1>1. SUFFICES ASSUME Init PROVE DeliveryInv /\ Delivery!Init
  OBVIOUS
<1>2. rows = [c \in Cells |-> NoRow] /\ pc = "idle" /\ sent = [c \in Cells |-> NoPayload]
  BY <1>1 DEF Init
<1>. QED
  BY <1>1, <1>2, InitType
  DEF DeliveryInv, RowsHeld, OutboxCurrent, AckMeansSent, NoRow, Delivery!Init

LEMMA DeliveryNext == ASSUME DeliveryInv, [Next]_vars PROVE DeliveryStep
<1>. TypeOK /\ TypeOK'
  BY TypeNext DEF DeliveryInv
<1>1. CASE \/ ResolveTexts \/ Pass1Online \/ Pass1NoCall \/ Pass1Batch \/ CollectP1
           \/ FinishPass1 \/ Pass2Online \/ Pass2Batch \/ CollectP2
  BY <1>1, IdleDelivers
  DEF ResolveTexts, Pass1Online, Pass1NoCall, EndPass1, Pass1Batch, CollectP1, FinishPass1,
      EndProcess, Pass2Online, Pass2Batch, CollectP2, EndPass2
<1>2. CASE \/ \E p \in Papers : ReadTexts(p)
           \/ \E cid \in Cids : TakeReply(cid)
  BY <1>2, IdleDelivers DEF ReadTexts, TakeReply
<1>3. CASE \/ FinishPapers \/ Park \/ BatchFails \/ Crash \/ UserStep
  BY <1>3, IdleDelivers
  DEF FinishPapers, Park, BatchFails, Crash, EndProcess, UserStep, StartCommand
<1>4. CASE \E c \in Cells : SaveText(c) \/ SaveReply(c)
  BY <1>4, SaveTextDelivers, SaveReplyDelivers
<1>5. CASE \E p \in Papers : ReadUnposted(p) \/ ReadPostable(p) \/ SendFails(p) \/ Mark(p)
  BY <1>5, ReadUnpostedDelivers, ReadPostableDelivers, SendFailsDelivers, MarkDelivers
<1>6. CASE Send
  BY <1>6, SendDelivers
<1>7. CASE UNCHANGED vars
  <2>1. UNCHANGED Delivery!vars
    BY <1>7 DEF vars, Delivery!vars
  <2>. QED
    BY <1>7, <2>1
    DEF vars, DeliveryInv, RowsHeld, OutboxCurrent, AckMeansSent, InOutbox, DeliveryStep
<1>. QED
  BY <1>1, <1>2, <1>3, <1>4, <1>5, <1>6, <1>7
  DEF Next, ProgramStep, Pass1Step, Pass2Step, PostStep

\* pass1, pass2 and repost, in any order, with crashes, parked and failed batches
\* and failed posts, do to answers only what AnswerDelivery allows: no debt is
\* written off before SEER has what the store holds (orchestrator.py:1159-1201, 1617-1626,
\* cli.py:330-336).
THEOREM SplitDelivers == Spec => ImplementsDelivery
<1>1. DeliveryInv /\ [Next]_vars => DeliveryInv' /\ [Delivery!Next]_Delivery!vars
  BY DeliveryNext DEF DeliveryStep
<1>. QED
  BY DeliveryInit, <1>1, PTL DEF Spec, ImplementsDelivery, Delivery!Spec
=============================================================================
