------------------------- MODULE ArbitrationProofs -------------------------
(***************************************************************************)
(* Theorems about Arbitration for every number of disputed items, every    *)
(* division into papers and groups, every script of commands and every     *)
(* bound.                                                                  *)
(***************************************************************************)
EXTENDS Arbitration, FiniteSetTheorems, WellFoundedInduction, TLAPS

---------------------------------------------------------------------------
(* The walk along the path of the study.                                   *)

\* A set of numbers has a smallest, since there is no infinite way down.
LEMMA SmallestOf ==
    ASSUME NEW S, S \subseteq Nat, S # {}
    PROVE  \E n \in S : \A m \in S : n <= m
<1>. DEFINE R == {ss \in Nat \X Nat : ss[1] < ss[2]}
<1>1. IsWellFoundedOn(R, Nat)
  BY NatLessThanWellFounded DEF OpToRel
<1>2. PICK n \in S : \A m \in S : ~(<<m, n>> \in R)
  <2>. HIDE DEF R
  <2>. QED
    BY <1>1, WFMin
<1>3. \A m \in S : ~(m < n)
  BY <1>2
<1>. QED
  BY <1>3

\* What the walk makes of an item, given what it made of the ones before.
PassedOver(reply, at, i) ==
    \/ \E g \in DOMAIN reply \cap Gates :
          g < i /\ at[g] = "ok" /\ reply[g].value \in Failing
    \/ \E need \in Needs[i] :
          /\ need[1] \in DOMAIN reply /\ need[1] < i /\ at[need[1]] = "ok"
          /\ reply[need[1]].value \notin need[2]

WalkTo(reply, at, i) ==
    IF PassedOver(reply, at, i) THEN "not_applicable" ELSE Said(reply[i])

\* The walk comes to an end, item by item: Path is what its definition says.
LEMMA PathIsWalk ==
    ASSUME NEW reply, DOMAIN reply \subseteq Items
    PROVE  Path(reply) = [i \in DOMAIN reply |-> WalkTo(reply, Path(reply), i)]
<1>. DEFINE Upto(n) == {i \in DOMAIN reply : i <= n}
            Walked(n) == \E at : at = [i \in Upto(n) |-> WalkTo(reply, at, i)]
            Stuck == {n \in Nat : ~Walked(n)}
<1>1. Walked(0)
  <2>. DEFINE at0 == [i \in {} |-> "none"]
  <2>1. Upto(0) = {}
    BY DEF Items
  <2>2. at0 = [i \in Upto(0) |-> WalkTo(reply, at0, i)]
    BY <2>1
  <2>. QED
    BY <2>2
<1>2. ASSUME NEW n \in Nat, Walked(n) PROVE Walked(n + 1)
  <2>1. PICK at0 : at0 = [i \in Upto(n) |-> WalkTo(reply, at0, i)]
    BY <1>2
  <2>. DEFINE at1 == [i \in Upto(n + 1) |-> IF i = n + 1 THEN WalkTo(reply, at0, i) ELSE at0[i]]
  <2>2. \A i \in Upto(n + 1) : i \in Items /\ i \in Nat /\ (i # n + 1 => i \in Upto(n))
    BY DEF Items
  <2>3. \A i \in Upto(n + 1), g \in DOMAIN reply : g < i => at1[g] = at0[g]
    BY <2>2 DEF Items
  <2>4. ASSUME NEW i \in Upto(n + 1) PROVE WalkTo(reply, at1, i) = WalkTo(reply, at0, i)
    BY <2>3 DEF WalkTo, PassedOver
  <2>5. at1 = [i \in Upto(n + 1) |-> WalkTo(reply, at1, i)]
    <3>. HIDE DEF Upto
    <3>1. \A i \in Upto(n + 1) : at1[i] = WalkTo(reply, at0, i)
      BY <2>1, <2>2
    <3>. QED
      BY <2>4, <3>1
  <2>. HIDE DEF at1
  <2>. QED
    BY <2>5
<1>3. Stuck = {}
  <2>1. SUFFICES ASSUME Stuck # {} PROVE FALSE
    OBVIOUS
  <2>2. PICK n \in Stuck : \A m \in Stuck : n <= m
    <3>. HIDE DEF Stuck
    <3>1. Stuck \subseteq Nat
      BY DEF Stuck
    <3>. QED
      BY <2>1, <3>1, SmallestOf
  <2>. HIDE DEF Walked
  <2>3. n \in Nat /\ n # 0
    BY <1>1
  <2>4. Walked(n - 1)
    BY <2>2, <2>3
  <2>5. Walked(n)
    BY <1>2, <2>3, <2>4
  <2>. QED
    BY <2>5
<1>4. Walked(NItems)
  <2>. HIDE DEF Walked
  <2>. QED
    BY <1>3, ItemsHavePapers
<1>5. Upto(NItems) = DOMAIN reply
  BY DEF Items
<1>6. PICK at : at = [i \in DOMAIN reply |-> WalkTo(reply, at, i)]
  BY <1>4, <1>5
<1>. QED
  BY <1>6 DEF Path, WalkTo, PassedOver

LEMMA PathTells ==
    ASSUME NEW group \in SUBSET Items, NEW reply \in Replies(group), NEW i \in group
    PROVE  /\ Path(reply)[i] = WalkTo(reply, Path(reply), i)
           /\ Path(reply)[i] \in {"ok", "invalid", "omitted", "not_applicable"}
<1>1. DOMAIN reply = group /\ reply[i] \in ParsedItem(i)
  BY DEF Replies
<1>2. Path(reply)[i] = WalkTo(reply, Path(reply), i)
  BY <1>1, PathIsWalk
<1>3. reply[i].status \in {"ok", "unmappable", "absent"}
  BY <1>1 DEF ParsedItem
<1>. QED
  BY <1>2, <1>3 DEF WalkTo, Said

---------------------------------------------------------------------------
(* Resolutions and rows.                                                   *)

Values == (UNION {Readings[i] : i \in Items}) \union {NoValue}
Texts  == [inv : Nat, on : SUBSET Items]
Calls  == [on : SUBSET Items, text : Texts]
Held   == ResolutionType \union {NoPayload}

LEMMA ValuesHold ==
    NoValue \in Values /\ \A i \in Items : Readings[i] \subseteq Values
<1>2. NoValue \in Values
  BY Zenon DEF Values
<1>3. \A i \in Items : Readings[i] \in {Readings[j] : j \in Items}
  OBVIOUS
<1>4. \A i \in Items : \A value \in Readings[i] : value \in UNION {Readings[j] : j \in Items}
  BY <1>3, Zenon
<1>. QED
  BY <1>2, <1>4 DEF Values

\* What a reply, or the lack of one, makes of an item.
ReadingOK(resolution) ==
    /\ resolution \in ResolutionType
    /\ resolution.group = NoGroup
    /\ resolution.verdict # "ok" => resolution.value = NoValue

\* What the parser can make of an item.
ReplyReading(resolution) ==
    /\ ReadingOK(resolution)
    /\ resolution.verdict \in {"ok", "invalid", "omitted", "not_applicable", "damaged", "unreadable"}

\* A row that exists holds a resolution, and the group it was asked in while it
\* awaits Pass 2.
RowOK(row) ==
    /\ row \in [status : Statuses, payload : Held, posted : BOOLEAN]
    /\ row.status = "absent" <=> row.payload = NoPayload
    /\ row.payload # NoPayload =>
          /\ row.payload.verdict # "ok" => row.payload.value = NoValue
          /\ row.status = "pass1_done" <=> row.payload.group # NoGroup

LEMMA NoPayloadIsNone == NoPayload \notin ResolutionType
<1>1. \A r \in ResolutionType : DOMAIN r = {"verdict", "value", "inv", "text", "group"}
  BY DEF ResolutionType
<1>2. DOMAIN NoPayload = {"kind", "inv", "p1", "fmt"}
  BY DEF NoPayload
<1>. QED
  BY <1>1, <1>2

LEMMA NoTextIsText == NoText \in Texts
BY DEF NoText, Texts

LEMMA ResolutionIsType ==
    ASSUME inv \in Nat, NEW verdict \in Verdicts, NEW value \in Values, NEW text \in Texts,
           NEW group \in Nat \X Nat
    PROVE  /\ Resolution(verdict, value, text, group) \in ResolutionType
           /\ Resolution(verdict, value, text, group).verdict = verdict
           /\ Resolution(verdict, value, text, group).value = value
           /\ Resolution(verdict, value, text, group).inv = inv
           /\ Resolution(verdict, value, text, group).text = text
           /\ Resolution(verdict, value, text, group).group = group
BY DEF Resolution, ResolutionType, Values, Texts

LEMMA FailureIsReading ==
    ASSUME inv \in Nat, NEW verdict \in Verdicts
    PROVE  /\ ReadingOK(Failure(verdict, NoText))
           /\ Failure(verdict, NoText).verdict = verdict
<1>1. NoValue \in Values /\ NoText \in Texts /\ NoGroup \in Nat \X Nat
  BY NoTextIsText, ValuesHold DEF NoGroup
<1>2. Failure(verdict, NoText) = Resolution(verdict, NoValue, NoText, NoGroup)
  BY DEF Failure
<1>. QED
  BY <1>1, <1>2, ResolutionIsType DEF ReadingOK

LEMMA ReplyValue ==
    ASSUME NEW group \in SUBSET Items, NEW reply \in Replies(group), NEW i \in group
    PROVE  /\ reply[i].value \in Values
           /\ reply[i].status # "ok" => reply[i].value = NoValue
<1>1. reply[i] \in ParsedItem(i) /\ i \in Items
  BY DEF Replies
<1>2. \/ reply[i].status = "ok" /\ reply[i].value \in Readings[i]
      \/ reply[i].status # "ok" /\ reply[i].value = NoValue
  BY <1>1 DEF ParsedItem
<1>. QED
  BY <1>1, <1>2, ValuesHold

LEMMA ArbitratedIsReading ==
    ASSUME inv \in Nat, NEW group \in SUBSET Items, NEW reply \in Replies(group), NEW text \in Texts,
           NEW i \in group
    PROVE  DOMAIN Arbitrated(reply, text) = group /\ ReplyReading(Arbitrated(reply, text)[i])
<1>1. DOMAIN reply = group
  BY DEF Replies
<1>2. DOMAIN Arbitrated(reply, text) = group
  BY <1>1 DEF Arbitrated
<1>3. CASE reply[i].damage # "none"
  <2>1. Arbitrated(reply, text)[i] = Failure("damaged", NoText)
    BY <1>1, <1>3 DEF Arbitrated
  <2>. QED
    BY <1>2, <2>1, FailureIsReading DEF Verdicts, ReplyReading
<1>4. CASE reply[i].damage = "none"
  <2>. DEFINE at    == Path(reply)[i]
              value == IF at = "ok" THEN reply[i].value ELSE NoValue
  <2>1. Arbitrated(reply, text)[i] = Resolution(at, value, text, NoGroup)
    BY <1>1, <1>4 DEF Arbitrated
  <2>2. at \in Verdicts /\ at \in {"ok", "invalid", "omitted", "not_applicable"}
    BY PathTells DEF Verdicts
  <2>3. value \in Values /\ (at # "ok" => value = NoValue)
    <3>1. reply[i].value \in Values /\ NoValue \in Values
      BY ReplyValue, ValuesHold
    <3>. QED
      BY <3>1
  <2>4. NoGroup \in Nat \X Nat
    BY DEF NoGroup
  <2>. HIDE DEF at, value
  <2>. QED
    BY <1>2, <2>1, <2>2, <2>3, <2>4, ResolutionIsType DEF ReadingOK, ReplyReading
<1>. QED
  BY <1>3, <1>4

LEMMA UnreadableIsReading ==
    ASSUME inv \in Nat, NEW group \in SUBSET Items, NEW i \in group
    PROVE  DOMAIN Unreadable(group) = group /\ ReplyReading(Unreadable(group)[i])
BY FailureIsReading DEF Unreadable, Verdicts, ReplyReading

LEMMA FormattedIsReading ==
    ASSUME inv \in Nat, NEW group \in SUBSET Items, NEW reply \in Replies(group), NEW text \in Texts,
           NEW i \in group
    PROVE  DOMAIN Formatted(reply, text) = group /\ ReplyReading(Formatted(reply, text)[i])
<1>1. DOMAIN reply = group
  BY DEF Replies
<1>2. CASE \E j \in DOMAIN reply : reply[j].status = "absent"
  BY <1>1, <1>2, UnreadableIsReading DEF Formatted
<1>3. CASE ~\E j \in DOMAIN reply : reply[j].status = "absent"
  <2>1. DOMAIN Formatted(reply, text) = group
    BY <1>1, <1>3 DEF Formatted
  <2>2. CASE reply[i].damage = "cited"
    <3>1. Formatted(reply, text)[i] = Failure("damaged", NoText)
      BY <1>1, <1>3, <2>2 DEF Formatted
    <3>. QED
      BY <2>1, <3>1, FailureIsReading DEF Verdicts, ReplyReading
  <2>3. CASE reply[i].damage # "cited"
    <3>1. Formatted(reply, text)[i] = Resolution("ok", reply[i].value, text, NoGroup)
      BY <1>1, <1>3, <2>3 DEF Formatted
    <3>2. "ok" \in Verdicts /\ NoGroup \in Nat \X Nat
      BY DEF Verdicts, NoGroup
    <3>. QED
      BY <2>1, <3>1, <3>2, ReplyValue, ResolutionIsType DEF ReadingOK, ReplyReading
  <2>. QED
    BY <2>2, <2>3
<1>. QED
  BY <1>2, <1>3

\* What the methods of the table do to a row.
LEMMA SavedIsRow ==
    ASSUME NEW payload, ReadingOK(payload)
    PROVE  RowOK(SaveAnswer(payload))
BY NoPayloadIsNone DEF SaveAnswer, RowOK, ReadingOK, Held, Statuses

LEMMA StoredIsRow ==
    ASSUME NEW payload \in ResolutionType, payload.group # NoGroup,
           payload.verdict # "ok" => payload.value = NoValue
    PROVE  RowOK(SavePass1(payload))
BY NoPayloadIsNone DEF SavePass1, RowOK, Held, Statuses

LEMMA MarkFailedRow ==
    ASSUME NEW row, RowOK(row), row.status # "pass1_done"
    PROVE  RowOK(MarkFailed(row)) /\ MarkFailed(row).payload = row.payload
BY DEF MarkFailed, RowOK, Statuses

LEMMA MarkPostedRow ==
    ASSUME NEW row, RowOK(row)
    PROVE  RowOK(MarkPosted(row)) /\ MarkPosted(row).payload = row.payload
BY DEF MarkPosted, RowOK, Statuses

LEMMA NoRowIsRow == RowOK(NoRow)
BY DEF NoRow, RowOK, Held, Statuses

\* The id of a group names its paper, so it is no missing id.
LEMMA CidOfType ==
    ASSUME scope \subseteq Items, NEW group \in SUBSET Items, group # {}
    PROVE  CidOf(group) \in Nat \X Nat /\ CidOf(group) # NoGroup
<1>. DEFINE i == CHOOSE i \in group : TRUE
            p == PaperOf[i]
            before == {j \in ItemsOf({p}, scope) : \A k \in group : j < k}
<1>1. i \in group
  OBVIOUS
<1>2. p \in Nat /\ p # 0
  BY <1>1, ItemsHavePapers
<1>3. IsFiniteSet(before)
  <2>1. IsFiniteSet(Items)
    BY FS_Interval, ItemsHavePapers DEF Items
  <2>2. before \subseteq Items
    BY DEF ItemsOf
  <2>. QED
    BY <2>1, <2>2, FS_Subset
<1>4. Cardinality(before) \in Nat
  BY <1>3, FS_CardinalityType
<1>5. CidOf(group) = <<p, Cardinality(before)>>
  BY DEF CidOf
<1>. QED
  BY <1>2, <1>4, <1>5 DEF NoGroup

---------------------------------------------------------------------------
(* Types.  The table holds proper rows; a command has in hand what it can  *)
(* write.                                                                  *)

StoreInv ==
    /\ rows = [i \in Items |-> rows[i]]
    /\ \A i \in Items : RowOK(rows[i])
    /\ sent \in [Items -> Held]
    /\ ocr \subseteq Papers

ControlInv ==
    /\ pc \in {"idle", "chunk", "fetch", "store", "drop1", "drop2", "tail", "paper", "post",
               "send", "ack"}
    /\ mode \in Commands \ {"reset"}
    /\ scope \subseteq Items /\ todo \subseteq Items /\ toMark \subseteq Items
    /\ papersLeft \subseteq Papers /\ chunk \subseteq Papers /\ visit \subseteq Papers
    /\ calls \subseteq Calls /\ heard \subseteq Calls
    /\ outbox \in [Items -> Held]
    /\ reading = [i \in Items |-> reading[i]]
    /\ \A i \in Items : reading[i] = NoPayload \/ ReplyReading(reading[i])
    /\ trouble \in BOOLEAN
    /\ inv \in Nat /\ mishaps \in Nat /\ crashes \in Nat

\* Only a row that was saved a moment ago is marked; only what was heard is stored;
\* only what was read is saved.
HandInv ==
    /\ toMark # {} => pc \in {"drop1", "drop2"}
    /\ \A i \in toMark : rows[i].status = "done" /\ toMark = {i}
    /\ pc = "store" => todo \subseteq ItemsIn(heard)
    /\ pc = "tail" => \A i \in todo : reading[i] # NoPayload

TypeInv == StoreInv /\ ControlInv /\ HandInv

LEMMA TypeInvMeansTypeOK == TypeInv => TypeOK
<1>1. SUFFICES ASSUME TypeInv PROVE TypeOK
  OBVIOUS
<1>2. ASSUME NEW i \in Items
      PROVE  /\ rows[i].status \in Statuses /\ rows[i].posted \in BOOLEAN
             /\ rows[i].payload \in Held /\ sent[i] \in Held /\ reading[i] \in Held
             /\ outbox[i] \in Held
             /\ rows[i].payload # NoPayload =>
                   /\ rows[i].payload.verdict # "ok" => rows[i].payload.value = NoValue
                   /\ rows[i].status = "pass1_done" <=> rows[i].payload.group # NoGroup
  BY <1>1 DEF TypeInv, StoreInv, ControlInv, RowOK, ReadingOK, ReplyReading, Held
<1>. QED
  BY <1>1, <1>2 DEF TypeInv, StoreInv, ControlInv, TypeOK, Held, Calls, Texts

LEMMA EndProcessHands ==
    ASSUME EndProcess
    PROVE  /\ pc' = "idle" /\ trouble' = FALSE
           /\ scope' = {} /\ todo' = {} /\ toMark' = {}
           /\ papersLeft' = {} /\ chunk' = {} /\ visit' = {}
           /\ calls' = {} /\ heard' = {}
           /\ outbox' \in [Items -> Held]
           /\ reading' = [i \in Items |-> reading'[i]]
           /\ \A i \in Items : reading'[i] = NoPayload
BY DEF EndProcess, EmptyOutbox, NoReading, Held

USE DEF durable, passes, local, bounds

LEMMA MishapType ==
    ASSUME mishaps \in Nat, NEW b, Mishap(b)
    PROVE  mishaps' \in Nat
BY DEF Mishap

LEMMA EndProcessType ==
    ASSUME TypeInv, EndProcess, StoreInv', mode' = mode, inv' = inv, mishaps' \in Nat,
           crashes' \in Nat
    PROVE  TypeInv'
BY EndProcessHands DEF TypeInv, ControlInv, HandInv

LEMMA StartCommandType ==
    ASSUME TypeInv, NEW command \in Commands, NEW S \in SUBSET Items, StartCommand(command, S)
    PROVE  TypeInv'
<1>1. StoreInv'
  BY NoRowIsRow DEF StartCommand, TypeInv, StoreInv
<1>2. mode' \in Commands \ {"reset"} /\ papersLeft' \subseteq Papers
  BY DEF StartCommand, Commands, Papers
<1>3. ControlInv'
  BY <1>2 DEF StartCommand, TypeInv, ControlInv
<1>4. HandInv'
  <2>1. toMark = {} /\ toMark' = {} /\ pc' \in {"chunk", "paper"}
    BY DEF StartCommand, TypeInv, HandInv
  <2>. QED
    BY <2>1 DEF HandInv
<1>. QED
  BY <1>1, <1>3, <1>4 DEF TypeInv

LEMMA BeginChunkType == ASSUME TypeInv, BeginChunk PROVE TypeInv'
<1>1. chunk' \subseteq papersLeft
  BY DEF BeginChunk, ChunkOf
<1>. QED
  BY <1>1 DEF BeginChunk, TypeInv, StoreInv, ControlInv, HandInv

LEMMA CancelType == ASSUME TypeInv, Cancel PROVE TypeInv'
BY EndProcessType DEF Cancel, Mishap, TypeInv, StoreInv, ControlInv

LEMMA FinishRunType == ASSUME TypeInv, FinishRun PROVE TypeInv'
BY EndProcessType DEF FinishRun, TypeInv, StoreInv, ControlInv

LEMMA FinishPass1Type == ASSUME TypeInv, FinishPass1 PROVE TypeInv'
BY EndProcessType DEF FinishPass1, TypeInv, StoreInv, ControlInv

LEMMA FinishPass2Type == ASSUME TypeInv, FinishPass2 PROVE TypeInv'
BY EndProcessType DEF FinishPass2, TypeInv, StoreInv, ControlInv

LEMMA CrashType == ASSUME TypeInv, Crash PROVE TypeInv'
BY EndProcessType DEF Crash, TypeInv, StoreInv, ControlInv

LEMMA FetchTextType == ASSUME TypeInv, NEW p \in Papers, FetchText(p) PROVE TypeInv'
<1>1. ItemsOf({p}, scope) \subseteq scope
  BY DEF ItemsOf
<1>2. StoreInv'
  BY DEF FetchText, TypeInv, StoreInv
<1>3. todo' \in {{}, ItemsOf({p}, scope)} /\ mishaps' \in Nat
  BY MishapType DEF FetchText, TypeInv, ControlInv
<1>. QED
  BY <1>1, <1>2, <1>3 DEF FetchText, TypeInv, ControlInv, HandInv

\* The groups that are asked, as calls.
LEMMA PendingType == ASSUME TypeInv PROVE Pending \subseteq Calls
<1>1. ASSUME NEW p, NEW group \in Ask(p) PROVE group \in SUBSET Items
  <2>1. group \in GroupsOf(p) /\ scope \subseteq Items
    BY <1>1 DEF Ask, TypeInv, ControlInv
  <2>2. ItemsOf({p}, scope) \subseteq Items
    BY <2>1 DEF ItemsOf
  <2>. QED
    BY <2>1, <2>2 DEF GroupsOf
<1>. QED
  BY <1>1, NoTextIsText DEF Pending, Calls

LEMMA ItemsInType ==
    ASSUME NEW cs, cs \subseteq Calls
    PROVE  ItemsIn(cs) \subseteq Items
BY DEF ItemsIn, Calls

LEMMA Pass1Type == ASSUME TypeInv, Pass1 PROVE TypeInv'
<1>1. calls' \subseteq Calls
  <2>1. calls' = {[call EXCEPT !.text = [inv |-> inv, on |-> call.on]] : call \in Pending}
    BY DEF Pass1
  <2>2. inv \in Nat
    BY DEF TypeInv, ControlInv
  <2>. QED
    BY <2>1, <2>2, PendingType DEF Calls, Texts
<1>2. PICK ok \in SUBSET calls' :
         /\ Mishap(ok # calls')
         /\ heard' = ok
         /\ todo' = IF mode = "pass1" THEN ItemsIn(ToStore(ok)) ELSE Drops(calls' \ ok)
  BY DEF Pass1
<1>3. heard' \subseteq Calls /\ mishaps' \in Nat
  BY <1>1, <1>2 DEF Mishap, TypeInv, ControlInv
<1>4. ItemsIn(ToStore(ok)) \subseteq ItemsIn(ok)
  BY DEF ToStore, ItemsIn
<1>5. todo' \subseteq Items
  <2>1. ItemsIn(ok) \subseteq Items /\ ItemsIn(calls' \ ok) \subseteq Items
    BY <1>1, <1>2, ItemsInType
  <2>. QED
    BY <1>2, <1>4, <2>1 DEF Drops
<1>6. pc' = "store" => todo' \subseteq ItemsIn(heard')
  BY <1>2, <1>4 DEF Pass1
<1>7. StoreInv' /\ trouble' \in BOOLEAN /\ pc' \in {"store", "drop1"}
  BY DEF Pass1, TypeInv, StoreInv, ControlInv
<1>8. ControlInv'
  BY <1>1, <1>3, <1>5, <1>7 DEF Pass1, TypeInv, ControlInv
<1>9. HandInv'
  <2>1. toMark = {} /\ toMark' = {}
    BY DEF Pass1, TypeInv, HandInv
  <2>. QED
    BY <1>6, <1>7, <2>1 DEF HandInv
<1>. QED
  BY <1>7, <1>8, <1>9 DEF TypeInv

\* A row is written.
LEMMA WriteType ==
    ASSUME StoreInv, NEW i \in Items, NEW row, RowOK(row), rows' = [rows EXCEPT ![i] = row],
           UNCHANGED <<sent, ocr>>
    PROVE  /\ StoreInv'
           /\ rows'[i] = row
           /\ \A j \in Items : j # i => rows'[j] = rows[j]
<1>1. /\ rows'[i] = row
      /\ \A j \in Items : j # i => rows'[j] = rows[j]
      /\ rows' = [j \in Items |-> rows'[j]]
  BY DEF StoreInv
<1>2. \A j \in Items : RowOK(rows'[j])
  <2>. TAKE j \in Items
  <2>1. CASE j = i
    BY <1>1, <2>1
  <2>2. CASE j # i
    BY <1>1, <2>2 DEF StoreInv
  <2>. QED
    BY <2>1, <2>2
<1>. QED
  BY <1>1, <1>2 DEF StoreInv

LEMMA SaveType ==
    ASSUME StoreInv, NEW i \in Items, NEW payload, ReadingOK(payload), Save(i, payload),
           UNCHANGED <<sent, ocr>>
    PROVE  /\ StoreInv'
           /\ rows'[i] = SaveAnswer(payload)
           /\ \A j \in Items : j # i => rows'[j] = rows[j]
<1>1. rows' = [rows EXCEPT ![i] = SaveAnswer(payload)]
  BY DEF Save
<1>. QED
  BY <1>1, SavedIsRow, WriteType

LEMMA FirstIsIn == ASSUME NEW n, NEW S, IsFirst(n, S) PROVE n \in S
BY DEF IsFirst

LEMMA SaveNoOcrType == ASSUME TypeInv, NEW i \in Items, SaveNoOcr(i) PROVE TypeInv'
<1>1. ReadingOK(Failure("no_ocr", NoText))
  BY FailureIsReading DEF TypeInv, ControlInv, Verdicts
<1>2. StoreInv'
  BY <1>1, SaveType DEF SaveNoOcr, TypeInv
<1>3. ControlInv'
  BY DEF SaveNoOcr, TypeInv, ControlInv
<1>4. HandInv'
  BY DEF SaveNoOcr, TypeInv, HandInv
<1>. QED
  BY <1>2, <1>3, <1>4 DEF TypeInv

\* The call whose text a row is given, and that row.
LEMMA StoreTextRow ==
    ASSUME TypeInv, NEW i \in Items, StoreText(i)
    PROVE  \E call \in heard : \E text \in Texts :
              /\ i \in call.on
              /\ text = IF IsFirst(i, call.on) THEN call.text ELSE NoText
              /\ LET row == SavePass1(Resolution("awaiting", NoValue, text, CidOf(call.on)))
                 IN  rows' = [rows EXCEPT ![i] = row] /\ RowOK(row)
<1>. DEFINE call == CHOOSE c \in heard : i \in c.on
            text == IF IsFirst(i, call.on) THEN call.text ELSE NoText
<1>1. i \in ItemsIn(heard)
  BY FirstIsIn DEF StoreText, TypeInv, HandInv
<1>2. call \in heard /\ i \in call.on
  BY <1>1 DEF ItemsIn
<1>3. call.on \in SUBSET Items /\ call.text \in Texts /\ text \in Texts
  BY <1>2, NoTextIsText DEF TypeInv, ControlInv, Calls
<1>4. CidOf(call.on) \in Nat \X Nat /\ CidOf(call.on) # NoGroup
  BY <1>2, <1>3, CidOfType DEF TypeInv, ControlInv
<1>5. rows' = [rows EXCEPT ![i] = SavePass1(Resolution("awaiting", NoValue, text, CidOf(call.on)))]
  BY DEF StoreText
<1>. HIDE DEF call, text
<1>6. RowOK(SavePass1(Resolution("awaiting", NoValue, text, CidOf(call.on))))
  <2>1. inv \in Nat /\ "awaiting" \in Verdicts
    BY DEF TypeInv, ControlInv, Verdicts
  <2>. QED
    BY <1>3, <1>4, <2>1, ResolutionIsType, ValuesHold, StoredIsRow
<1>. QED
  BY <1>2, <1>3, <1>5, <1>6 DEF text

LEMMA StoreTextType == ASSUME TypeInv, NEW i \in Items, StoreText(i) PROVE TypeInv'
<1>1. PICK row : rows' = [rows EXCEPT ![i] = row] /\ RowOK(row)
  BY StoreTextRow
<1>2. StoreInv'
  <2>1. UNCHANGED <<sent, ocr>> /\ StoreInv
    BY DEF StoreText, TypeInv
  <2>. QED
    BY <1>1, <2>1, WriteType
<1>3. ControlInv'
  BY DEF StoreText, TypeInv, ControlInv
<1>4. HandInv'
  BY DEF StoreText, TypeInv, HandInv
<1>. QED
  BY <1>2, <1>3, <1>4 DEF TypeInv

LEMMA DropType == ASSUME TypeInv, NEW i \in Items, Drop(i) PROVE TypeInv'
<1>. DEFINE payload == Failure(IF pc = "drop1" THEN "p1_error" ELSE "p2_error", NoText)
<1>1. ReadingOK(payload)
  BY FailureIsReading DEF TypeInv, ControlInv, Verdicts
<1>2. /\ Save(i, payload) /\ UNCHANGED <<sent, ocr, pc>>
      /\ toMark' = {i} /\ todo' \subseteq todo /\ pc \in {"drop1", "drop2"}
  BY DEF Drop
<1>. HIDE DEF payload
<1>3. StoreInv' /\ rows'[i] = SaveAnswer(payload)
  BY <1>1, <1>2, SaveType DEF TypeInv
<1>4. ControlInv'
  BY DEF Drop, TypeInv, ControlInv
<1>5. HandInv'
  BY <1>2, <1>3 DEF HandInv, SaveAnswer
<1>. QED
  BY <1>3, <1>4, <1>5 DEF TypeInv

LEMMA MarkType == ASSUME TypeInv, NEW i \in Items, Mark(i) PROVE TypeInv'
<1>1. rows' = [rows EXCEPT ![i] = MarkFailed(rows[i])] /\ UNCHANGED <<sent, ocr, pc>>
  BY DEF Mark
<1>2. RowOK(MarkFailed(rows[i]))
  BY MarkFailedRow DEF Mark, TypeInv, HandInv, StoreInv
<1>3. StoreInv'
  BY <1>1, <1>2, WriteType DEF TypeInv
<1>4. ControlInv' /\ HandInv'
  BY DEF Mark, TypeInv, ControlInv, HandInv
<1>. QED
  BY <1>3, <1>4 DEF TypeInv

LEMMA SaveReadingType == ASSUME TypeInv, NEW i \in Items, SaveReading(i) PROVE TypeInv'
<1>1. ReadingOK(reading[i])
  BY FirstIsIn DEF SaveReading, TypeInv, ControlInv, HandInv, ReplyReading
<1>2. StoreInv'
  BY <1>1, SaveType DEF SaveReading, TypeInv
<1>3. ControlInv'
  BY DEF SaveReading, TypeInv, ControlInv
<1>4. HandInv'
  BY DEF SaveReading, TypeInv, HandInv
<1>. QED
  BY <1>2, <1>3, <1>4 DEF TypeInv

\* What the rows that wait are asked with.
LEMMA StoredCallsType ==
    ASSUME StoreInv, NEW p \in Papers
    PROVE  StoredCalls(p) \subseteq Calls
<1>1. SUFFICES ASSUME NEW S \in StoredGroups(p)
               PROVE  [on |-> S, text |-> StoredText(S)] \in Calls
  BY DEF StoredCalls
<1>2. Awaiting(p) \subseteq Items /\ \A i \in Awaiting(p) : rows[i].status = "pass1_done"
  BY DEF Awaiting, ItemsOf
<1>3. PICK j \in Awaiting(p) :
         S = {i \in Awaiting(p) : rows[i].payload.group = rows[j].payload.group}
  BY DEF StoredGroups
<1>4. S \subseteq Awaiting(p) /\ S # {} /\ S \in SUBSET Items /\ S \subseteq Nat
  BY <1>2, <1>3 DEF Items
<1>5. PICK n \in S : \A m \in S : n <= m
  BY <1>4, SmallestOf
<1>6. IsFirst(n, S)
  BY <1>5 DEF IsFirst
<1>. DEFINE first == CHOOSE i \in S : IsFirst(i, S)
<1>7. first \in S
  BY <1>6
<1>8. RowOK(rows[first]) /\ rows[first].status = "pass1_done"
  BY <1>2, <1>4, <1>7 DEF StoreInv
<1>9. rows[first].payload \in ResolutionType
  BY <1>8 DEF RowOK, Held
<1>10. StoredText(S) \in Texts
  BY <1>9 DEF StoredText, ResolutionType, Texts
<1>. QED
  BY <1>4, <1>10 DEF Calls

LEMMA ReadTextsType == ASSUME TypeInv, NEW p \in Papers, ReadTexts(p) PROVE TypeInv'
<1>1. heard' \subseteq Calls /\ calls' \subseteq Calls
  BY StoredCallsType DEF ReadTexts, TypeInv
<1>2. pc = "paper" /\ pc' \in {"paper", "drop1"} /\ chunk' \subseteq Papers
  BY DEF ReadTexts, TypeInv, ControlInv
<1>3. StoreInv'
  BY DEF ReadTexts, TypeInv, StoreInv
<1>4. ControlInv'
  BY <1>1, <1>2 DEF ReadTexts, TypeInv, ControlInv
<1>5. HandInv'
  BY <1>2 DEF ReadTexts, TypeInv, HandInv
<1>. QED
  BY <1>3, <1>4, <1>5 DEF TypeInv

LEMMA Pass2Type == ASSUME TypeInv, Pass2 PROVE TypeInv'
<1>1. PICK ok \in SUBSET heard :
         Mishap(ok # heard) /\ heard' = ok /\ todo' = Drops(heard \ ok)
  BY DEF Pass2
<1>2. mishaps' \in Nat /\ heard' \subseteq Calls
  BY <1>1, MishapType DEF TypeInv, ControlInv
<1>3. todo' \subseteq Items
  BY <1>1, ItemsInType DEF Drops, TypeInv, ControlInv
<1>4. toMark = {} /\ toMark' = {} /\ pc' = "drop2"
  BY DEF Pass2, Written
<1>5. StoreInv'
  BY DEF Pass2, TypeInv, StoreInv
<1>6. ControlInv'
  BY <1>2, <1>3 DEF Pass2, TypeInv, ControlInv
<1>. QED
  BY <1>4, <1>5, <1>6 DEF TypeInv, HandInv

\* What a reply makes of the items it was asked about, and of no other.
LEMMA SpreadReading ==
    ASSUME NEW group \in SUBSET Items, NEW f, DOMAIN f = group, \A i \in group : ReplyReading(f[i])
    PROVE  /\ Spread(f) = [i \in Items |-> Spread(f)[i]]
           /\ \A i \in Items : Spread(f)[i] = NoPayload \/ ReplyReading(Spread(f)[i])
           /\ \A i \in group : Spread(f)[i] = f[i] /\ Spread(f)[i] # NoPayload
BY NoPayloadIsNone DEF Spread, ReplyReading, ReadingOK

\* The three things a reply can come to.
LEMMA TakenReply ==
    ASSUME TypeInv, NEW call \in heard, TakeReply(call)
    PROVE  /\ call.on \in SUBSET Items /\ call.text \in Texts
           /\ \/ \E reply \in Replies(call.on) :
                    \/ mode = "arbitrate" /\ reading' = Spread(Arbitrated(reply, call.text))
                    \/ mode # "arbitrate" /\ reading' = Spread(Formatted(reply, call.text))
              \/ reading' = Spread(Unreadable(call.on))
<1>1. call.on \in SUBSET Items /\ call.text \in Texts
  BY DEF TypeInv, ControlInv, Calls
<1>. QED
  BY <1>1 DEF TakeReply

LEMMA TakeReplyReading ==
    ASSUME TypeInv, NEW call \in heard, TakeReply(call)
    PROVE  /\ reading' = [i \in Items |-> reading'[i]]
           /\ \A i \in Items : reading'[i] = NoPayload \/ ReplyReading(reading'[i])
           /\ \A i \in call.on : reading'[i] # NoPayload
<1>1. call.on \in SUBSET Items /\ call.text \in Texts /\ inv \in Nat
  BY TakenReply DEF TypeInv, ControlInv
<1>2. PICK f : /\ reading' = Spread(f)
               /\ \/ \E reply \in Replies(call.on) :
                        f = Arbitrated(reply, call.text) \/ f = Formatted(reply, call.text)
                  \/ f = Unreadable(call.on)
  BY TakenReply
<1>3. CASE call.on = {}
  <2>1. reading' = [i \in Items |-> NoPayload]
    <3>1. DOMAIN f = {}
      BY <1>2, <1>3 DEF Replies, Arbitrated, Formatted, Unreadable
    <3>. QED
      BY <1>2, <3>1 DEF Spread
  <2>. QED
    BY <1>3, <2>1
<1>4. CASE call.on # {}
  <2>1. DOMAIN f = call.on /\ \A i \in call.on : ReplyReading(f[i])
    BY <1>1, <1>2, <1>4, ArbitratedIsReading, FormattedIsReading, UnreadableIsReading
  <2>. QED
    BY <1>1, <1>2, <2>1, SpreadReading
<1>. QED
  BY <1>3, <1>4

LEMMA TakeReplyType == ASSUME TypeInv, NEW call \in heard, TakeReply(call) PROVE TypeInv'
<1>1. /\ todo' = call.on \cap scope /\ toMark = {} /\ toMark' = {} /\ pc' = "tail"
      /\ trouble' \in BOOLEAN /\ mishaps' \in Nat
  BY MishapType DEF TakeReply, Written, TypeInv, ControlInv
<1>2. todo' \subseteq Items /\ heard' \subseteq Calls
  BY <1>1 DEF TakeReply, TypeInv, ControlInv
<1>3. StoreInv'
  BY DEF TakeReply, TypeInv, StoreInv
<1>4. ControlInv'
  BY <1>1, <1>2, TakeReplyReading DEF TakeReply, TypeInv, ControlInv
<1>5. HandInv'
  BY <1>1, TakeReplyReading DEF HandInv
<1>. QED
  BY <1>3, <1>4, <1>5 DEF TypeInv

LEMMA BeginPostType == ASSUME TypeInv, BeginPost PROVE TypeInv'
<1>1. reading' = [i \in Items |-> NoPayload] /\ toMark = {} /\ toMark' = {} /\ pc' = "post"
  BY DEF BeginPost, NoReading, Written
<1>2. ControlInv'
  BY <1>1 DEF BeginPost, TypeInv, ControlInv
<1>. QED
  BY <1>1, <1>2 DEF BeginPost, TypeInv, StoreInv, HandInv

LEMMA BeginRepostType == ASSUME TypeInv, BeginRepost PROVE TypeInv'
BY DEF BeginRepost, TypeInv, StoreInv, ControlInv, HandInv

LEMMA ReadType == ASSUME TypeInv, NEW p \in Papers, Read(p) PROVE TypeInv'
<1>1. outbox' \in [Items -> Held]
  <2>1. \A i \in Items : rows[i].payload \in Held
    BY DEF TypeInv, StoreInv, RowOK
  <2>. QED
    BY <2>1 DEF Read, Held, TypeInv, ControlInv
<1>2. pc = "post" /\ pc' \in {"post", "send"} /\ visit' \subseteq visit
  BY DEF Read
<1>3. ControlInv'
  BY <1>1, <1>2 DEF Read, TypeInv, ControlInv
<1>. QED
  BY <1>2, <1>3 DEF Read, TypeInv, StoreInv, HandInv

LEMMA SendType == ASSUME TypeInv, Send PROVE TypeInv'
<1>1. StoreInv'
  BY DEF Send, Deliver, TypeInv, StoreInv, ControlInv
<1>2. ControlInv' /\ HandInv'
  BY DEF Send, TypeInv, ControlInv, HandInv
<1>. QED
  BY <1>1, <1>2 DEF TypeInv

LEMMA SendFailsType == ASSUME TypeInv, NEW p \in Papers, SendFails(p) PROVE TypeInv'
<1>1. StoreInv' /\ mishaps' \in Nat
  BY MishapType DEF SendFails, Deliver, TypeInv, StoreInv, ControlInv
<1>2. CASE mode = "repost"
  BY <1>1, <1>2, EndProcessType DEF SendFails, TypeInv, ControlInv
<1>3. CASE mode # "repost"
  <2>1. outbox' \in [Items -> Held] /\ visit' \subseteq visit /\ pc = "send" /\ pc' = "post"
    BY <1>3 DEF SendFails, EmptyOutbox, Held
  <2>2. ControlInv'
    BY <1>1, <1>3, <2>1 DEF SendFails, TypeInv, ControlInv
  <2>3. HandInv'
    BY <1>3, <2>1 DEF SendFails, TypeInv, HandInv
  <2>. QED
    BY <1>1, <2>2, <2>3 DEF TypeInv
<1>. QED
  BY <1>2, <1>3

LEMMA MarkSentType == ASSUME TypeInv, NEW p \in Papers, MarkSent(p) PROVE TypeInv'
<1>1. StoreInv'
  <2>1. \A i \in Items : rows'[i] \in {rows[i], MarkPosted(rows[i])}
    BY DEF MarkSent
  <2>2. \A i \in Items : RowOK(rows'[i])
    BY <2>1, MarkPostedRow DEF TypeInv, StoreInv
  <2>. QED
    BY <2>2 DEF MarkSent, TypeInv, StoreInv
<1>2. outbox' \in [Items -> Held] /\ visit' \subseteq visit /\ pc = "ack" /\ pc' = "post"
  BY DEF MarkSent, EmptyOutbox, Held
<1>3. ControlInv'
  BY <1>2 DEF MarkSent, TypeInv, ControlInv
<1>4. HandInv'
  BY <1>2 DEF MarkSent, TypeInv, HandInv
<1>. QED
  BY <1>1, <1>3, <1>4 DEF TypeInv

LEMMA EndPostsType == ASSUME TypeInv, EndPosts PROVE TypeInv'
<1>1. StoreInv'
  BY DEF EndPosts, TypeInv, StoreInv
<1>2. CASE mode = "repost" \/ (mode = "arbitrate" /\ FailFast /\ trouble)
  BY <1>1, <1>2, EndProcessType DEF EndPosts, TypeInv, ControlInv
<1>3. CASE ~(mode = "repost" \/ (mode = "arbitrate" /\ FailFast /\ trouble))
  BY <1>1, <1>3 DEF EndPosts, TypeInv, ControlInv, HandInv
<1>. QED
  BY <1>2, <1>3

LEMMA InitType == Init => TypeInv
<1>1. SUFFICES ASSUME Init PROVE TypeInv
  OBVIOUS
<1>2. StoreInv
  BY <1>1, NoRowIsRow DEF Init, StoreInv, Held
<1>3. ControlInv
  BY <1>1 DEF Init, ControlInv, NoReading, EmptyOutbox, Held, Commands
<1>. QED
  BY <1>1, <1>2, <1>3 DEF Init, TypeInv, HandInv

LEMMA UserStepCommand ==
    ASSUME UserStep
    PROVE  \E command \in Commands : \E S \in SUBSET Items :
              /\ StartCommand(command, S)
              /\ \E n \in DOMAIN Script : <<command, S>> \in Script[n]
<1>1. PICK given \in UNION {Script[n] : n \in DOMAIN Script} : StartCommand(given[1], given[2])
  BY DEF UserStep
<1>2. PICK n \in DOMAIN Script : given \in Script[n]
  BY <1>1
<1>3. given \in Commands \X SUBSET Items
  BY <1>2, ScriptIsCommands
<1>4. given = <<given[1], given[2]>> /\ given[1] \in Commands /\ given[2] \in SUBSET Items
  BY <1>3
<1>. QED
  BY <1>1, <1>2, <1>4

LEMMA TypeNext == ASSUME TypeInv, [Next]_vars PROVE TypeInv'
<1>1. CASE \/ BeginChunk \/ Cancel \/ FinishRun \/ Pass1 \/ FinishPass1 \/ Pass2
           \/ BeginPost \/ BeginRepost \/ Send \/ EndPosts \/ FinishPass2
  BY <1>1, BeginChunkType, CancelType, FinishRunType, Pass1Type, FinishPass1Type, Pass2Type,
     BeginPostType, BeginRepostType, SendType, EndPostsType, FinishPass2Type
<1>2. CASE \E p \in Papers : FetchText(p) \/ ReadTexts(p) \/ Read(p) \/ SendFails(p) \/ MarkSent(p)
  BY <1>2, FetchTextType, ReadTextsType, ReadType, SendFailsType, MarkSentType
<1>3. CASE \E i \in Items : SaveNoOcr(i) \/ StoreText(i) \/ Drop(i) \/ Mark(i) \/ SaveReading(i)
  BY <1>3, SaveNoOcrType, StoreTextType, DropType, MarkType, SaveReadingType
<1>4. CASE \E call \in heard : TakeReply(call)
  BY <1>4, TakeReplyType
<1>5. CASE UserStep
  BY <1>5, UserStepCommand, StartCommandType
<1>6. CASE Crash
  BY <1>6, CrashType
<1>7. CASE UNCHANGED vars
  BY <1>7 DEF vars, TypeInv, StoreInv, ControlInv, HandInv
<1>. QED
  BY <1>1, <1>2, <1>3, <1>4, <1>5, <1>6, <1>7 DEF Next, ProgramStep

LEMMA TypesHold == Spec => []TypeInv
BY InitType, TypeNext, PTL DEF Spec

\* Every variable of the arbitration commands, the resolutions table and SEER
\* keeps its type; only an answer has a value, and only a row that awaits Pass 2
\* the group it was asked in, whatever command wrote it (store.py, twins of the
\* answers table; arbitrate_orchestrator.py:1091-1108).
THEOREM ArbitrationTypeCorrect == Spec => []TypeOK
BY TypesHold, TypeInvMeansTypeOK, PTL

---------------------------------------------------------------------------
(* Delivery.  What is marked is what was read, sent, and still stands.     *)

InOutbox == {i \in Items : outbox[i] # NoPayload}

\* Nothing is rewritten between reading the resolutions and marking them; between
\* the answer of SEER and mark_resolutions_posted, SEER holds what was sent.
DeliveryInv ==
    /\ TypeInv
    /\ pc \in {"send", "ack"} => \A i \in InOutbox : outbox[i] = rows[i].payload
    /\ pc = "ack" => \A i \in InOutbox : sent[i] = outbox[i]

\* What each step does to the invariant and to the promise.
DeliveryStep == DeliveryInv' /\ [Delivery!Next]_Delivery!vars

\* Steps that leave the rows and SEER alone, away from posting.
LEMMA IdleDelivers ==
    ASSUME DeliveryInv, TypeInv', rows' = rows, sent' = sent, pc' \notin {"send", "ack"}
    PROVE  DeliveryStep
<1>1. DeliveryInv'
  BY DEF DeliveryInv
<1>2. UNCHANGED Delivery!vars
  BY DEF Delivery!vars
<1>. QED
  BY <1>1, <1>2 DEF DeliveryStep

\* A new resolution, or a text that waits, puts an item in debt.
LEMMA BuildStep ==
    ASSUME DeliveryInv, TypeInv', NEW i \in Items, NEW row, rows' = [rows EXCEPT ![i] = row],
           row.payload \in ResolutionType, ~row.posted, sent' = sent, pc' \notin {"send", "ack"}
    PROVE  DeliveryStep
<1>1. /\ rows'[i] = row
      /\ \A j \in Items : j # i => rows'[j] = rows[j]
  BY DEF DeliveryInv, TypeInv, StoreInv
<1>2. row.payload # NoPayload
  BY NoPayloadIsNone
<1>3. DeliveryInv'
  BY DEF DeliveryInv
<1>4. [j \in Items |-> rows'[j].payload]
         = [[j \in Items |-> rows[j].payload] EXCEPT ![i] = row.payload]
  <2>. DEFINE payload == row.payload
  <2>1. rows'[i].payload = payload /\ \A j \in Items : j # i => rows'[j].payload = rows[j].payload
    BY <1>1
  <2>. HIDE DEF payload
  <2>2. \A j \in Items : rows'[j].payload = IF j = i THEN payload ELSE rows[j].payload
    BY <2>1
  <2>3. [j \in Items |-> rows'[j].payload]
           = [j \in Items |-> IF j = i THEN payload ELSE rows[j].payload]
    BY <2>2, Zenon
  <2>4. [[j \in Items |-> rows[j].payload] EXCEPT ![i] = payload]
           = [j \in Items |-> IF j = i THEN payload ELSE rows[j].payload]
    OBVIOUS
  <2>. QED
    BY <2>3, <2>4 DEF payload
<1>5. {j \in Items : rows'[j].payload # NoPayload /\ ~rows'[j].posted}
         = {j \in Items : rows[j].payload # NoPayload /\ ~rows[j].posted} \union {i}
  BY <1>1, <1>2
<1>6. Delivery!Build(i)
  BY <1>1, <1>4, <1>5 DEF Delivery!Build
<1>. QED
  BY <1>3, <1>6 DEF DeliveryStep, Delivery!Next

LEMMA SaveDelivers ==
    ASSUME DeliveryInv, TypeInv', NEW i \in Items, NEW payload, ReadingOK(payload),
           Save(i, payload), sent' = sent, pc' \notin {"send", "ack"}
    PROVE  DeliveryStep
<1>. DEFINE row == SaveAnswer(payload)
<1>1. rows' = [rows EXCEPT ![i] = row]
  BY DEF Save
<1>2. row.payload \in ResolutionType /\ ~row.posted
  BY DEF SaveAnswer, ReadingOK
<1>. HIDE DEF row
<1>. QED
  BY <1>1, <1>2, BuildStep

LEMMA SaveNoOcrDelivers == ASSUME DeliveryInv, NEW i \in Items, SaveNoOcr(i) PROVE DeliveryStep
<1>1. ReadingOK(Failure("no_ocr", NoText))
  BY FailureIsReading DEF DeliveryInv, TypeInv, ControlInv, Verdicts
<1>. QED
  BY <1>1, SaveNoOcrType, SaveDelivers DEF SaveNoOcr, DeliveryInv

LEMMA DropDelivers == ASSUME DeliveryInv, NEW i \in Items, Drop(i) PROVE DeliveryStep
<1>. DEFINE payload == Failure(IF pc = "drop1" THEN "p1_error" ELSE "p2_error", NoText)
<1>1. ReadingOK(payload)
  BY FailureIsReading DEF DeliveryInv, TypeInv, ControlInv, Verdicts
<1>2. Save(i, payload) /\ sent' = sent /\ pc' \in {"drop1", "drop2"}
  BY DEF Drop
<1>. HIDE DEF payload
<1>. QED
  BY <1>1, <1>2, DropType, SaveDelivers DEF DeliveryInv

LEMMA SaveReadingDelivers ==
    ASSUME DeliveryInv, NEW i \in Items, SaveReading(i)
    PROVE  DeliveryStep
<1>1. ReadingOK(reading[i])
  BY FirstIsIn DEF SaveReading, DeliveryInv, TypeInv, ControlInv, HandInv, ReplyReading
<1>. QED
  BY <1>1, SaveReadingType, SaveDelivers DEF SaveReading, DeliveryInv

LEMMA StoreTextDelivers == ASSUME DeliveryInv, NEW i \in Items, StoreText(i) PROVE DeliveryStep
<1>1. TypeInv /\ TypeInv' /\ sent' = sent /\ pc' = "store"
  BY StoreTextType DEF StoreText, DeliveryInv
<1>2. PICK call \in heard, text \in Texts :
         LET row == SavePass1(Resolution("awaiting", NoValue, text, CidOf(call.on)))
         IN  rows' = [rows EXCEPT ![i] = row] /\ RowOK(row)
  BY <1>1, StoreTextRow
<1>. DEFINE row == SavePass1(Resolution("awaiting", NoValue, text, CidOf(call.on)))
<1>3. row.status = "pass1_done" /\ ~row.posted /\ RowOK(row)
  BY <1>2 DEF SavePass1
<1>4. rows' = [rows EXCEPT ![i] = row]
  BY <1>2
<1>. HIDE DEF row
<1>5. row.payload \in ResolutionType
  BY <1>3 DEF RowOK, Held
<1>. QED
  BY <1>1, <1>3, <1>4, <1>5, BuildStep

\* Marking an item 'failed' changes neither its resolution nor its debt.
LEMMA MarkDelivers == ASSUME DeliveryInv, NEW i \in Items, Mark(i) PROVE DeliveryStep
<1>1. TypeInv' /\ sent' = sent /\ pc' = pc /\ pc \in {"drop1", "drop2"}
  BY MarkType DEF Mark, DeliveryInv, TypeInv, HandInv
<1>2. /\ rows' = [rows EXCEPT ![i] = MarkFailed(rows[i])]
      /\ rows = [j \in Items |-> rows[j]]
      /\ RowOK(rows[i])
  BY DEF Mark, DeliveryInv, TypeInv, StoreInv
<1>3. \A j \in Items : rows'[j].payload = rows[j].payload /\ rows'[j].posted = rows[j].posted
  BY <1>2 DEF MarkFailed, RowOK
<1>4. [j \in Items |-> rows'[j].payload] = [j \in Items |-> rows[j].payload]
  BY <1>3
<1>5. {j \in Items : rows'[j].payload # NoPayload /\ ~rows'[j].posted}
         = {j \in Items : rows[j].payload # NoPayload /\ ~rows[j].posted}
  BY <1>3
<1>6. UNCHANGED Delivery!vars
  BY <1>1, <1>4, <1>5 DEF Delivery!vars
<1>. QED
  BY <1>1, <1>6 DEF DeliveryInv, DeliveryStep

LEMMA ReadDelivers == ASSUME DeliveryInv, NEW p \in Papers, Read(p) PROVE DeliveryStep
<1>1. TypeInv' /\ rows' = rows /\ sent' = sent /\ pc' \in {"post", "send"}
  BY ReadType DEF Read, DeliveryInv
<1>2. pc' = "send" => \A i \in Items : outbox'[i] \in {rows[i].payload, NoPayload}
  BY DEF Read
<1>3. DeliveryInv'
  BY <1>1, <1>2 DEF DeliveryInv, InOutbox
<1>4. UNCHANGED Delivery!vars
  BY <1>1 DEF Delivery!vars
<1>. QED
  BY <1>3, <1>4 DEF DeliveryStep

\* A resolution that reaches SEER is the row's current one.
LEMMA DeliverReceives ==
    ASSUME DeliveryInv, rows' = rows, Deliver, pc = "send"
    PROVE  /\ \A i \in InOutbox : sent'[i] = outbox[i]
           /\ [Delivery!Next]_Delivery!vars
<1>1. InOutbox \in SUBSET Items
  BY DEF InOutbox
<1>2. \A i \in InOutbox : outbox[i] = rows[i].payload /\ outbox[i] # NoPayload
  BY DEF DeliveryInv, InOutbox
<1>3. sent' = [i \in Items |-> IF i \in InOutbox THEN rows[i].payload ELSE sent[i]]
  BY <1>2 DEF Deliver, InOutbox
<1>4. Delivery!Receive(InOutbox)
  BY <1>1, <1>2, <1>3 DEF Delivery!Receive
<1>. QED
  BY <1>1, <1>2, <1>3, <1>4 DEF Delivery!Next

LEMMA SendDelivers == ASSUME DeliveryInv, Send PROVE DeliveryStep
<1>1. TypeInv' /\ rows' = rows /\ outbox' = outbox /\ pc = "send" /\ pc' = "ack" /\ Deliver
  BY SendType DEF Send, DeliveryInv
<1>2. DeliveryInv'
  BY <1>1, DeliverReceives DEF DeliveryInv, InOutbox
<1>. QED
  BY <1>1, <1>2, DeliverReceives DEF DeliveryStep

LEMMA SendFailsDelivers == ASSUME DeliveryInv, NEW p \in Papers, SendFails(p) PROVE DeliveryStep
<1>1. TypeInv' /\ rows' = rows /\ pc = "send" /\ pc' \in {"idle", "post"}
  BY SendFailsType DEF SendFails, EndProcess, DeliveryInv
<1>2. CASE sent' = sent
  BY <1>1, <1>2, IdleDelivers
<1>3. CASE Deliver
  <2>1. DeliveryInv'
    BY <1>1 DEF DeliveryInv
  <2>. QED
    BY <1>1, <1>3, <2>1, DeliverReceives DEF DeliveryStep
<1>. QED
  BY <1>2, <1>3 DEF SendFails

\* The debts written off are paid.
LEMMA MarkSentDelivers == ASSUME DeliveryInv, NEW p \in Papers, MarkSent(p) PROVE DeliveryStep
<1>1. TypeInv' /\ InOutbox \in SUBSET Items
  BY MarkSentType DEF DeliveryInv, InOutbox
<1>2. /\ rows' = [i \in Items |-> IF i \in InOutbox THEN MarkPosted(rows[i]) ELSE rows[i]]
      /\ sent' = sent /\ pc = "ack" /\ pc' = "post"
  BY DEF MarkSent, InOutbox
<1>3. \A i \in InOutbox : /\ rows[i].payload # NoPayload
                          /\ sent[i] = rows[i].payload
                          /\ rows[i].status # "absent"
  BY <1>2 DEF DeliveryInv, TypeInv, StoreInv, RowOK, InOutbox
<1>4. \A i \in Items : RowOK(rows[i])
  BY DEF DeliveryInv, TypeInv, StoreInv
<1>5. \A i \in Items : /\ rows'[i].payload = rows[i].payload
                       /\ i \in InOutbox => rows'[i].posted
                       /\ i \notin InOutbox => rows'[i] = rows[i]
  BY <1>2, <1>3, <1>4 DEF MarkPosted, RowOK
<1>6. {i \in Items : rows'[i].payload # NoPayload /\ ~rows'[i].posted}
         = {i \in Items : rows[i].payload # NoPayload /\ ~rows[i].posted} \ InOutbox
  BY <1>5
<1>7. [i \in Items |-> rows'[i].payload] = [i \in Items |-> rows[i].payload]
  BY <1>5
<1>8. Delivery!Settle(InOutbox)
  BY <1>1, <1>2, <1>3, <1>6, <1>7 DEF Delivery!Settle
<1>9. Delivery!Next
  BY <1>1, <1>8 DEF Delivery!Next, Delivery!Settle
<1>. QED
  BY <1>1, <1>2, <1>9 DEF DeliveryInv, DeliveryStep

LEMMA StartCommandDelivers ==
    ASSUME DeliveryInv, NEW command \in Commands, NEW S \in SUBSET Items, StartCommand(command, S)
    PROVE  DeliveryStep
<1>1. TypeInv' /\ sent' = sent /\ pc' \in {"chunk", "paper"}
  BY StartCommandType DEF StartCommand, DeliveryInv
<1>2. CASE command # "reset"
  BY <1>1, <1>2, IdleDelivers DEF StartCommand
<1>3. CASE command = "reset"
  <2>1. rows' = [i \in Items |-> NoRow]
    BY <1>3 DEF StartCommand
  <2>2. Delivery!Discard
    BY <1>1, <2>1 DEF Delivery!Discard, NoRow
  <2>. QED
    BY <1>1, <2>2 DEF DeliveryInv, DeliveryStep, Delivery!Next
<1>. QED
  BY <1>2, <1>3

LEMMA DeliveryInit == Init => DeliveryInv /\ Delivery!Init
<1>1. SUFFICES ASSUME Init PROVE DeliveryInv /\ Delivery!Init
  OBVIOUS
<1>2. rows = [i \in Items |-> NoRow] /\ pc = "idle" /\ sent = [i \in Items |-> NoPayload]
  BY <1>1 DEF Init
<1>. QED
  BY <1>1, <1>2, InitType DEF DeliveryInv, NoRow, Delivery!Init

LEMMA DeliveryNext == ASSUME DeliveryInv, [Next]_vars PROVE DeliveryStep
<1>. TypeInv'
  BY TypeNext DEF DeliveryInv
<1>1. CASE BeginChunk \/ Pass1 \/ Pass2 \/ BeginPost \/ BeginRepost \/ EndPosts
  BY <1>1, IdleDelivers DEF BeginChunk, Pass1, Pass2, BeginPost, BeginRepost, EndPosts, EndProcess
<1>2. CASE Cancel \/ FinishRun \/ FinishPass1 \/ FinishPass2 \/ Crash
  BY <1>2, IdleDelivers DEF Cancel, FinishRun, FinishPass1, FinishPass2, Crash, EndProcess
<1>3. CASE \/ \E p \in Papers : FetchText(p) \/ ReadTexts(p)
           \/ \E call \in heard : TakeReply(call)
  BY <1>3, IdleDelivers DEF FetchText, ReadTexts, TakeReply
<1>4. CASE \E i \in Items : SaveNoOcr(i) \/ StoreText(i) \/ Drop(i) \/ Mark(i) \/ SaveReading(i)
  BY <1>4, SaveNoOcrDelivers, StoreTextDelivers, DropDelivers, MarkDelivers, SaveReadingDelivers
<1>5. CASE \E p \in Papers : Read(p) \/ SendFails(p) \/ MarkSent(p)
  BY <1>5, ReadDelivers, SendFailsDelivers, MarkSentDelivers
<1>6. CASE Send
  BY <1>6, SendDelivers
<1>7. CASE UserStep
  BY <1>7, UserStepCommand, StartCommandDelivers
<1>8. CASE UNCHANGED vars
  <2>1. UNCHANGED Delivery!vars
    BY <1>8 DEF vars, Delivery!vars
  <2>. QED
    BY <1>8, <2>1 DEF vars, DeliveryInv, InOutbox, DeliveryStep
<1>. QED
  BY <1>1, <1>2, <1>3, <1>4, <1>5, <1>6, <1>7, <1>8 DEF Next, ProgramStep

\* The arbitration commands, in any order, whole or in stages, over all disputes or
\* a few, with failed posts and crashes, do to resolutions only what
\* AnswerDelivery allows: no debt is written off before SEER has what the store
\* holds (arbitrate_orchestrator.py:769-773, store.py:490-501).
THEOREM ArbitrationDelivers == Spec => ImplementsDelivery
<1>1. DeliveryInv /\ [Next]_vars => DeliveryInv' /\ [Delivery!Next]_Delivery!vars
  BY DeliveryNext DEF DeliveryStep
<1>. QED
  BY DeliveryInit, <1>1, PTL DEF Spec, ImplementsDelivery, Delivery!Spec

---------------------------------------------------------------------------
(* Retries.                                                                *)

ProviderFailed(row) == row.payload # NoPayload /\ row.payload.verdict \in {"p1_error", "p2_error"}

\* A provider's error that is not marked yet is about to be, or an earlier crash
\* has left it so.
RetryInv(L) ==
    /\ TypeInv
    /\ \A i \in Items : ProviderFailed(rows[i]) => rows[i].status = "failed" \/ i \in toMark \/ i \in L

LEMMA QuietRetries ==
    ASSUME NEW L, RetryInv(L), TypeInv', rows' = rows, toMark = {}
    PROVE  RetryInv(L)'
BY DEF RetryInv

\* A row is written with what is no provider's error, or is remembered.
LEMMA WriteRetries ==
    ASSUME NEW L, RetryInv(L), TypeInv', NEW i \in Items, NEW row, rows' = [rows EXCEPT ![i] = row],
           ~ProviderFailed(row) \/ toMark' = {i}, toMark = {}
    PROVE  RetryInv(L)'
<1>1. rows'[i] = row /\ \A j \in Items : j # i => rows'[j] = rows[j]
  BY DEF RetryInv, TypeInv, StoreInv
<1>. QED
  BY <1>1 DEF RetryInv

LEMMA SaveRetries ==
    ASSUME NEW L, RetryInv(L), TypeInv', NEW i \in Items, NEW payload, Save(i, payload),
           payload.verdict \notin {"p1_error", "p2_error"} \/ toMark' = {i}, toMark = {}
    PROVE  RetryInv(L)'
<1>. DEFINE row == SaveAnswer(payload)
<1>1. rows' = [rows EXCEPT ![i] = row] /\ row.payload = payload
  BY DEF Save, SaveAnswer
<1>. HIDE DEF row
<1>2. ~ProviderFailed(row) \/ toMark' = {i}
  BY <1>1 DEF ProviderFailed
<1>. QED
  BY <1>1, <1>2, WriteRetries

LEMMA SaveNoOcrRetries == ASSUME NEW L, RetryInv(L), NEW i \in Items, SaveNoOcr(i) PROVE RetryInv(L)'
<1>1. Failure("no_ocr", NoText).verdict = "no_ocr"
  BY FailureIsReading DEF RetryInv, TypeInv, ControlInv, Verdicts
<1>2. TypeInv' /\ Save(i, Failure("no_ocr", NoText)) /\ toMark = {}
  BY SaveNoOcrType DEF SaveNoOcr, RetryInv, TypeInv, HandInv
<1>. QED
  BY <1>1, <1>2, SaveRetries

LEMMA SaveReadingRetries == ASSUME NEW L, RetryInv(L), NEW i \in Items, SaveReading(i) PROVE RetryInv(L)'
<1>1. ReplyReading(reading[i])
  BY FirstIsIn DEF SaveReading, RetryInv, TypeInv, ControlInv, HandInv
<1>2. TypeInv' /\ Save(i, reading[i]) /\ toMark = {}
  BY SaveReadingType DEF SaveReading, RetryInv, TypeInv, HandInv
<1>. QED
  BY <1>1, <1>2, SaveRetries DEF ReplyReading

LEMMA DropRetries == ASSUME NEW L, RetryInv(L), NEW i \in Items, Drop(i) PROVE RetryInv(L)'
<1>1. TypeInv' /\ toMark = {} /\ toMark' = {i}
  BY DropType DEF Drop, RetryInv
<1>2. PICK payload : Save(i, payload)
  BY DEF Drop
<1>. QED
  BY <1>1, <1>2, SaveRetries

LEMMA StoreTextRetries == ASSUME NEW L, RetryInv(L), NEW i \in Items, StoreText(i) PROVE RetryInv(L)'
<1>1. TypeInv /\ TypeInv' /\ toMark = {} /\ inv \in Nat
  BY StoreTextType DEF StoreText, RetryInv, TypeInv, ControlInv, HandInv
<1>2. PICK call \in heard, text \in Texts :
         /\ i \in call.on
         /\ LET row == SavePass1(Resolution("awaiting", NoValue, text, CidOf(call.on)))
            IN  rows' = [rows EXCEPT ![i] = row]
  BY <1>1, StoreTextRow
<1>. DEFINE row == SavePass1(Resolution("awaiting", NoValue, text, CidOf(call.on)))
<1>3. ~ProviderFailed(row)
  BY DEF ProviderFailed, SavePass1, Resolution
<1>4. rows' = [rows EXCEPT ![i] = row]
  BY <1>2
<1>. HIDE DEF row
<1>. QED
  BY <1>1, <1>3, <1>4, WriteRetries

LEMMA MarkRetries == ASSUME NEW L, RetryInv(L), NEW i \in Items, Mark(i) PROVE RetryInv(L)'
<1>1. /\ TypeInv' /\ i \in toMark /\ toMark' = {}
      /\ rows' = [rows EXCEPT ![i] = MarkFailed(rows[i])]
      /\ rows[i].status = "done"
      /\ rows = [j \in Items |-> rows[j]] /\ RowOK(rows[i])
  BY MarkType DEF Mark, RetryInv, TypeInv, StoreInv, HandInv
<1>2. rows'[i].status = "failed" /\ \A j \in Items : j # i => rows'[j] = rows[j]
  BY <1>1 DEF MarkFailed, RowOK
<1>3. toMark = {i}
  BY <1>1 DEF RetryInv, TypeInv, HandInv
<1>. QED
  BY <1>1, <1>2, <1>3 DEF RetryInv

LEMMA MarkSentRetries == ASSUME NEW L, RetryInv(L), NEW p \in Papers, MarkSent(p) PROVE RetryInv(L)'
<1>1. TypeInv' /\ toMark = {} /\ toMark' = {}
  BY MarkSentType DEF MarkSent, RetryInv, TypeInv, HandInv
<1>2. \A i \in Items : rows'[i] \in {rows[i], MarkPosted(rows[i])} /\ RowOK(rows[i])
  BY DEF MarkSent, RetryInv, TypeInv, StoreInv
<1>3. \A i \in Items : /\ rows'[i].payload = rows[i].payload
                       /\ rows[i].status = "failed" => rows'[i].status = "failed"
  BY <1>2 DEF MarkPosted, RowOK
<1>. QED
  BY <1>1, <1>3 DEF RetryInv, ProviderFailed

LEMMA StartCommandRetries ==
    ASSUME NEW L, RetryInv(L), NEW command \in Commands, NEW S \in SUBSET Items, StartCommand(command, S)
    PROVE  RetryInv(L)'
<1>1. TypeInv' /\ toMark = {}
  BY StartCommandType DEF StartCommand, RetryInv, TypeInv, HandInv
<1>2. rows' = rows \/ rows' = [i \in Items |-> NoRow]
  BY DEF StartCommand
<1>. QED
  BY <1>1, <1>2, QuietRetries DEF RetryInv, ProviderFailed, NoRow

\* Every step but a crash.
LEMMA RetryNext ==
    ASSUME NEW L, RetryInv(L), ProgramStep \/ UserStep \/ UNCHANGED vars
    PROVE  RetryInv(L)'
<1>. TypeInv /\ TypeInv' /\ HandInv
  BY TypeNext DEF RetryInv, Next, TypeInv
<1>1. CASE \/ BeginChunk \/ Cancel \/ FinishRun \/ Pass1 \/ FinishPass1 \/ Pass2
           \/ BeginPost \/ BeginRepost \/ Send \/ EndPosts \/ FinishPass2
  <2>1. rows' = rows /\ toMark = {}
    BY <1>1
    DEF HandInv, BeginChunk, Cancel, FinishRun, Pass1, FinishPass1, Pass2, BeginPost, BeginRepost,
        Send, EndPosts, FinishPass2, Written
  <2>. QED
    BY <2>1, QuietRetries
<1>2. CASE \E p \in Papers : FetchText(p) \/ ReadTexts(p) \/ Read(p) \/ SendFails(p)
  <2>1. rows' = rows /\ toMark = {}
    BY <1>2 DEF HandInv, FetchText, ReadTexts, Read, SendFails
  <2>. QED
    BY <2>1, QuietRetries
<1>3. CASE \E p \in Papers : MarkSent(p)
  BY <1>3, MarkSentRetries
<1>4. CASE \E i \in Items : SaveNoOcr(i) \/ StoreText(i) \/ Drop(i) \/ Mark(i) \/ SaveReading(i)
  BY <1>4, SaveNoOcrRetries, StoreTextRetries, DropRetries, MarkRetries, SaveReadingRetries
<1>5. CASE \E call \in heard : TakeReply(call)
  <2>1. rows' = rows /\ toMark = {}
    BY <1>5 DEF TakeReply, Written
  <2>. QED
    BY <2>1, QuietRetries
<1>6. CASE UserStep
  BY <1>6, UserStepCommand, StartCommandRetries
<1>7. CASE UNCHANGED vars
  BY <1>7 DEF vars, RetryInv
<1>. QED
  BY <1>1, <1>2, <1>3, <1>4, <1>5, <1>6, <1>7 DEF ProgramStep

\* What crashes have left: errors that are not marked, and will not be.
LeftBehind == Stranded \ toMark

LeftInv == TypeInv /\ Cardinality(LeftBehind) <= crashes

LEMMA LeftIsFinite == IsFiniteSet(LeftBehind)
<1>1. IsFiniteSet(Items)
  BY ItemsHavePapers, FS_Interval DEF Items
<1>. QED
  BY <1>1, FS_Subset DEF LeftBehind, Stranded

LEMMA LeftNext == ASSUME LeftInv, [Next]_vars PROVE LeftInv'
<1>1. PICK left : left = LeftBehind
  OBVIOUS
<1>2. RetryInv(left) /\ TypeInv /\ TypeInv' /\ crashes \in Nat
  BY <1>1, TypeNext
  DEF LeftInv, RetryInv, LeftBehind, Stranded, ProviderFailed, TypeInv, ControlInv
<1>3. IsFiniteSet(left) /\ Cardinality(left) \in Nat /\ Cardinality(left) <= crashes
  BY <1>1, LeftIsFinite, FS_CardinalityType DEF LeftInv
<1>4. CASE ProgramStep \/ UserStep \/ UNCHANGED vars
  <2>1. crashes' = crashes
    BY <1>4
    DEF ProgramStep, UserStep, StartCommand, vars, BeginChunk, Cancel, FinishRun, Pass1,
        FinishPass1, Pass2, BeginPost, BeginRepost, Send, EndPosts, FinishPass2, FetchText,
        ReadTexts, Read, SendFails, MarkSent, SaveNoOcr, StoreText, Drop, Mark, SaveReading,
        TakeReply
  <2>2. RetryInv(left)'
    BY <1>2, <1>4, RetryNext
  <2>3. LeftBehind' \subseteq left
    BY <2>2 DEF RetryInv, LeftBehind, Stranded, ProviderFailed
  <2>4. Cardinality(LeftBehind') <= Cardinality(left) /\ Cardinality(LeftBehind') \in Nat
    BY <1>3, <2>3, FS_Subset, FS_CardinalityType
  <2>. QED
    BY <1>2, <1>3, <2>1, <2>4 DEF LeftInv
<1>5. CASE Crash
  <2>1. rows' = rows /\ toMark' = {} /\ crashes' = crashes + 1
    BY <1>5 DEF Crash, EndProcess
  <2>2. LeftBehind' = Stranded
    BY <2>1 DEF LeftBehind, Stranded
  <2>3. CASE toMark = {}
    BY <1>1, <1>2, <1>3, <2>1, <2>2, <2>3 DEF LeftInv, LeftBehind
  <2>4. CASE toMark # {}
    <3>1. PICK i \in toMark : toMark = {i}
      BY <1>2, <2>4 DEF TypeInv, HandInv
    <3>2. /\ IsFiniteSet(left \union {i}) /\ Cardinality(left \union {i}) \in Nat
          /\ Cardinality(left \union {i}) <= Cardinality(left) + 1
      BY <1>3, FS_AddElement, FS_CardinalityType
    <3>3. LeftBehind' \subseteq left \union {i}
      BY <1>1, <2>2, <3>1 DEF LeftBehind
    <3>4. Cardinality(LeftBehind') <= Cardinality(left \union {i}) /\ Cardinality(LeftBehind') \in Nat
      BY <3>2, <3>3, FS_Subset, FS_CardinalityType
    <3>. QED
      BY <1>2, <1>3, <2>1, <3>2, <3>4 DEF LeftInv
  <2>. QED
    BY <2>3, <2>4
<1>. QED
  BY <1>4, <1>5 DEF Next

\* Between commands, a provider's failure is open to another try, but for one item
\* at most for each time a process was killed: what saves it and what marks it are
\* two transactions, and nothing but a kill ends the command between them
\* (arbitrate_orchestrator.py:673-750).
THEOREM ArbitrationStaysRetryable == Spec => []RetryableAtRest
<1>1. Init => LeftInv
  <2>1. Init => LeftBehind = {} /\ crashes = 0
    BY DEF Init, LeftBehind, Stranded, NoRow
  <2>. QED
    BY <2>1, InitType, FS_EmptySet DEF LeftInv
<1>2. LeftInv => RetryableAtRest
  BY DEF LeftInv, LeftBehind, TypeInv, HandInv, RetryableAtRest
<1>. QED
  BY <1>1, <1>2, LeftNext, PTL DEF Spec

---------------------------------------------------------------------------
(* The path of the study.  A paper that is asked in one group is firm when *)
(* nothing of it is open and its rows keep to the path, and loose when     *)
(* whatever is said of an item has an open item after it.  It is loose     *)
(* until its rows have all been written by one reply, since they are       *)
(* written in order and a group with an open item is asked whole.          *)

\* No command but arbitrate writes answers, and --disputes takes a paper's
\* items from the first on, a continuation item among them if there is one.
KeepsOrder(S) ==
    \A i \in S, j \in Items : PaperOf[j] = PaperOf[i] =>
        /\ j < i => j \in S
        /\ j \in Continuation => \E k \in S \cap Continuation : PaperOf[k] = PaperOf[i]

ScriptKeepsOrder ==
    \A n \in DOMAIN Script : \A given \in Script[n] :
        given[1] \notin {"pass2", "pass2nopost"} /\ KeepsOrder(given[2])

Of(p)    == ItemsOf({p}, Items)
Asked(p) == ItemsOf({p}, scope)
Grouped  == {p \in Papers : ~PerQuestion \/ ItemsOf({p}, Continuation) # {}}

Is(resolution, verdict) == resolution # NoPayload /\ resolution.verdict = verdict
Says(resolution)   == Is(resolution, "ok") \/ Is(resolution, "not_applicable")
Sure(resolution)   == Is(resolution, "ok") /\ resolution.text.inv = resolution.inv

\* What is said of item i agrees with what is said of those before it.
Agrees(said, i) ==
    /\ Is(said[i], "ok") =>
          \A g \in Of(PaperOf[i]) \cap Gates : g < i =>
              ~(Sure(said[g]) /\ said[g].value \in Failing)
    /\ Is(said[i], "not_applicable") =>
          \E j \in Of(PaperOf[i]) :
              /\ j < i
              /\ j \in Gates \/ \E need \in Needs[i] : need[1] = j
              /\ \/ Is(said[j], "damaged")
                 \/ /\ Sure(said[j])
                    /\ \/ j \in Gates /\ said[j].value \in Failing
                       \/ \E need \in Needs[i] : need[1] = j /\ said[j].value \notin need[2]

Table     == [i \in Items |-> rows[i].payload]
Spoken(i) == Says(rows[i].payload)
Later(i)  == \E m \in Of(PaperOf[i]) : i < m /\ ~Settled(m)

Firm(p)  == \A i \in Of(p) : Settled(i) /\ (Spoken(i) => Agrees(Table, i))
Loose(p) == \A i \in Of(p) : Spoken(i) => Later(i)

\* The items of a paper that the loop at pc has written.
Behind(p) == Asked(p) \ todo

\* What a command has in hand.
OrderInv ==
    /\ mode \notin {"pass2", "pass2nopost"}
    /\ KeepsOrder(scope)
    /\ pc \in {"chunk", "fetch"} => mode \in {"arbitrate", "pass1"}
    /\ pc \in {"drop1", "drop2", "tail"} => mode = "arbitrate"
    /\ todo # {} => pc \in {"fetch", "store", "drop1", "drop2", "tail"}
    /\ heard # {} => pc \in {"store", "drop1", "drop2", "tail"}
    /\ todo \subseteq scope
    /\ \A i \in todo : PaperOf[i] \in ocr <=> pc # "fetch"
    /\ \A call \in heard :
          /\ call.on \subseteq scope
          /\ call.text = [inv |-> inv, on |-> call.on]
          /\ \A i \in call.on : PaperOf[i] \in ocr
    /\ \A p \in Grouped, call \in heard : call.on \cap Of(p) # {} =>
          /\ call.on = Asked(p)
          /\ pc # "store" => todo \cap Of(p) = {}
    /\ pc # "fetch" => \A p \in Grouped : \A i \in Behind(p), j \in todo \cap Of(p) : i < j

\* What the table holds.
SpokenInv ==
    \A i \in Items : Spoken(i) =>
        PaperOf[i] \in ocr /\ rows[i].payload.text.inv = rows[i].payload.inv

LooseInv ==
    \A p \in Grouped :
        /\ Firm(p) \/ Loose(p)
        /\ \/ \E call \in heard : call.on \cap Of(p) # {}
           \/ toMark \cap Of(p) # {}
           \/ pc \in {"store", "drop1", "drop2"} /\ todo \cap Of(p) # {}
           => Loose(p)
        /\ (pc \in {"store", "drop1", "drop2"} /\ todo \cap Of(p) # {}) =>
              \A i \in Behind(p) : ~Spoken(i)

\* A reply is being saved: what is behind is the reply, what is ahead is loose.
TailInv ==
    pc = "tail" =>
        /\ \A i \in Items : Says(reading[i]) => reading[i].text.inv = reading[i].inv
        /\ \A p \in Grouped : todo \cap Of(p) # {} =>
              /\ \A i \in Behind(p) : rows[i].status = "done" /\ rows[i].payload = reading[i]
              /\ \A i \in Of(p) \ Behind(p) : Spoken(i) => Later(i)
              /\ \A i \in Asked(p) : Says(reading[i]) => Agrees(reading, i)

PathInv == TypeInv /\ OrderInv /\ SpokenInv /\ LooseInv /\ TailInv

---------------------------------------------------------------------------
(* Firm and loose papers.                                                  *)

LEMMA OfItems ==
    /\ \A p : Of(p) = {i \in Items : PaperOf[i] = p}
    /\ \A p : Asked(p) = {i \in scope : PaperOf[i] = p}
    /\ \A i \in Items : i \in Nat /\ PaperOf[i] \in Papers
BY DEF Of, Asked, ItemsOf, Items, Papers

LEMMA AgreesSame ==
    ASSUME NEW said, NEW other, NEW i \in Items,
           \A g \in Of(PaperOf[i]) : g <= i => said[g] = other[g],
           Agrees(said, i)
    PROVE  Agrees(other, i)
<1>1. i \in Nat /\ i \in Of(PaperOf[i]) /\ said[i] = other[i]
  BY OfItems
<1>2. \A g \in Of(PaperOf[i]) : g < i => said[g] = other[g]
  <2>1. \A g \in Of(PaperOf[i]) : g \in Nat
    BY OfItems
  <2>. QED
    BY <1>1, <2>1
<1>3. Is(other[i], "ok") =>
        \A g \in Of(PaperOf[i]) \cap Gates : g < i =>
            ~(Sure(other[g]) /\ other[g].value \in Failing)
  BY <1>1, <1>2 DEF Agrees
<1>4. Is(other[i], "not_applicable") =>
        \E j \in Of(PaperOf[i]) :
            /\ j < i
            /\ j \in Gates \/ \E need \in Needs[i] : need[1] = j
            /\ \/ Is(other[j], "damaged")
               \/ /\ Sure(other[j])
                  /\ \/ j \in Gates /\ other[j].value \in Failing
                     \/ \E need \in Needs[i] : need[1] = j /\ other[j].value \notin need[2]
  <2>1. SUFFICES ASSUME Is(other[i], "not_applicable")
                 PROVE  \E j \in Of(PaperOf[i]) :
                            /\ j < i
                            /\ j \in Gates \/ \E need \in Needs[i] : need[1] = j
                            /\ \/ Is(other[j], "damaged")
                               \/ /\ Sure(other[j])
                                  /\ \/ j \in Gates /\ other[j].value \in Failing
                                     \/ \E need \in Needs[i] :
                                           need[1] = j /\ other[j].value \notin need[2]
    OBVIOUS
  <2>2. PICK j \in Of(PaperOf[i]) :
            /\ j < i
            /\ j \in Gates \/ \E need \in Needs[i] : need[1] = j
            /\ \/ Is(said[j], "damaged")
               \/ /\ Sure(said[j])
                  /\ \/ j \in Gates /\ said[j].value \in Failing
                     \/ \E need \in Needs[i] : need[1] = j /\ said[j].value \notin need[2]
    BY <1>1, <2>1 DEF Agrees
  <2>3. said[j] = other[j]
    BY <1>2, <2>2
  <2>. QED
    BY <2>2, <2>3
<1>. QED
  BY <1>3, <1>4 DEF Agrees

\* A paper whose rows say what they said, and are as open as they were.
LEMMA SamePaper ==
    ASSUME NEW p \in Papers,
           \A i \in Of(p) : rows'[i].payload = rows[i].payload /\ (Settled(i)' <=> Settled(i))
    PROVE  /\ Firm(p) => Firm(p)'
           /\ Loose(p) => Loose(p)'
           /\ \A i \in Of(p) : (Later(i) => Later(i)') /\ (Spoken(i)' <=> Spoken(i))
<1>1. \A i \in Of(p) : Spoken(i)' <=> Spoken(i)
  BY DEF Spoken
<1>2. \A i \in Of(p) : PaperOf[i] = p /\ i \in Items
  BY OfItems
<1>3. ASSUME NEW i \in Of(p), Later(i) PROVE Later(i)'
  <2>1. PICK m \in Of(p) : i < m /\ ~Settled(m)
    BY <1>2, <1>3 DEF Later
  <2>2. ~Settled(m)'
    BY <2>1
  <2>. QED
    BY <1>2, <2>1, <2>2 DEF Later
<1>4. ASSUME NEW i \in Of(p), Agrees(Table, i) PROVE Agrees(Table, i)'
  <2>1. \A g \in Of(PaperOf[i]) : Table[g] = Table'[g]
    BY <1>2 DEF Table
  <2>2. Agrees(Table', i)
    BY <1>2, <1>4, <2>1, AgreesSame
  <2>. QED
    BY <2>2 DEF Agrees
<1>5. Firm(p) => Firm(p)'
  BY <1>1, <1>4 DEF Firm
<1>6. Loose(p) => Loose(p)'
  BY <1>1, <1>3 DEF Loose
<1>. QED
  BY <1>1, <1>3, <1>5, <1>6

\* A row that is written concerns its own paper.
LEMMA OtherPaper ==
    ASSUME NEW i \in Items, \A j \in Items : j # i => rows'[j] = rows[j],
           NEW p \in Papers, PaperOf[i] # p
    PROVE  /\ Firm(p) => Firm(p)'
           /\ Loose(p) => Loose(p)'
           /\ \A j \in Of(p) : /\ rows'[j] = rows[j]
                               /\ Later(j) => Later(j)'
                               /\ Spoken(j)' <=> Spoken(j)
<1>1. \A j \in Of(p) : rows'[j] = rows[j]
  BY OfItems
<1>2. \A j \in Of(p) : rows'[j].payload = rows[j].payload /\ (Settled(j)' <=> Settled(j))
  BY <1>1 DEF Settled
<1>. QED
  BY <1>1, <1>2, SamePaper

\* With nothing said of an item or of those before it, a loose paper stays loose.
LEMMA EraseLoose ==
    ASSUME NEW i \in Items, \A j \in Items : j # i => rows'[j] = rows[j],
           ~Says(rows'[i].payload), Loose(PaperOf[i]),
           \A j \in Of(PaperOf[i]) : j < i => ~Spoken(j)
    PROVE  Loose(PaperOf[i])'
<1>1. SUFFICES ASSUME NEW j \in Of(PaperOf[i]), Spoken(j)' PROVE Later(j)'
  BY DEF Loose
<1>2. j \in Items /\ PaperOf[j] = PaperOf[i] /\ j \in Nat /\ i \in Nat
  BY OfItems
<1>3. j # i
  BY <1>1 DEF Spoken
<1>4. Spoken(j)
  BY <1>1, <1>2, <1>3 DEF Spoken
<1>5. i < j
  BY <1>2, <1>3, <1>4
<1>6. PICK m \in Of(PaperOf[i]) : j < m /\ ~Settled(m)
  BY <1>2, <1>4 DEF Loose, Later
<1>7. m \in Items /\ m # i
  BY <1>2, <1>5, <1>6, OfItems
<1>8. ~Settled(m)'
  BY <1>6, <1>7 DEF Settled
<1>. QED
  BY <1>2, <1>6, <1>8 DEF Later

\* Half written by a reply that agrees, a paper is firm or loose.
LEMMA HalfWritten ==
    ASSUME NEW p \in Papers, NEW B, B \subseteq Of(p),
           \A i \in B, j \in Of(p) \ B : i < j,
           \A i \in B : Settled(i)' /\ (Spoken(i)' => Agrees(Table, i)'),
           \A i \in Of(p) \ B : Spoken(i)' => Later(i)'
    PROVE  Firm(p)' \/ Loose(p)'
<1>1. CASE \E m \in Of(p) \ B : ~Settled(m)'
  <2>1. PICK m \in Of(p) \ B : ~Settled(m)'
    BY <1>1
  <2>2. \A i \in B : Later(i)'
    BY <2>1, OfItems DEF Later
  <2>. QED
    BY <2>2 DEF Loose
<1>2. CASE ~\E m \in Of(p) \ B : ~Settled(m)'
  <2>1. \A i \in Of(p) : Settled(i)'
    BY <1>2
  <2>2. \A i \in Of(p) : ~Later(i)'
    BY <2>1, OfItems DEF Later
  <2>. QED
    BY <2>1, <2>2 DEF Firm
<1>. QED
  BY <1>1, <1>2

\* A paper with an open item is loose.
LEMMA OpenIsLoose ==
    ASSUME LooseInv, NEW p \in Grouped, NEW m \in Of(p), ~Settled(m)
    PROVE  Loose(p)
BY DEF LooseInv, Firm

LEMMA AskedOf ==
    ASSUME scope \subseteq Items, NEW p
    PROVE  Asked(p) \subseteq Of(p) /\ \A i \in scope : i \in Of(p) => i \in Asked(p)
BY OfItems

---------------------------------------------------------------------------
(* What a command has in hand.                                             *)

\* Nothing in hand: the steps that begin and end chunks, papers and posts.
LEMMA QuietOrder ==
    ASSUME OrderInv, ocr' = ocr, todo' = {}, heard' = {}, mode' = mode, scope' \in {scope, {}},
           pc' \notin {"drop1", "drop2", "tail"},
           pc' \in {"chunk", "fetch"} => mode \in {"arbitrate", "pass1"}
    PROVE  OrderInv'
<1>1. KeepsOrder(scope')
  BY DEF OrderInv, KeepsOrder
<1>. QED
  BY <1>1 DEF OrderInv

\* The loop at pc has written its first item.
LEMMA WriteOrder ==
    ASSUME TypeInv, OrderInv, NEW i \in Items, IsFirst(i, todo), todo' = todo \ {i},
           UNCHANGED <<ocr, pc, mode, scope, heard, inv>>
    PROVE  OrderInv'
<1>1. i \in todo /\ \A j \in todo' : i < j
  BY DEF IsFirst, Items, TypeInv, ControlInv
<1>2. \A p : \A k \in Behind(p)' : k \in Behind(p) \/ k = i
  BY DEF Behind, Asked
<1>3. pc # "fetch" => \A p \in Grouped : \A k \in Behind(p)', j \in todo' \cap Of(p) : k < j
  BY <1>1, <1>2 DEF OrderInv
<1>4. \A p \in Grouped, call \in heard : call.on \cap Of(p) # {} =>
          /\ call.on = Asked(p)
          /\ pc # "store" => todo' \cap Of(p) = {}
  BY DEF OrderInv
<1>5. \A p : Asked(p)' = Asked(p)
  BY DEF Asked
<1>6. KeepsOrder(scope)'
  BY DEF OrderInv, KeepsOrder
<1>. QED
  BY <1>3, <1>4, <1>5, <1>6 DEF OrderInv

LEMMA FetchTextOrder ==
    ASSUME TypeInv, OrderInv, NEW p \in Papers, FetchText(p)
    PROVE  OrderInv'
<1>1. /\ pc = "fetch" /\ heard = {} /\ heard' = {} /\ UNCHANGED <<pc, mode, scope, inv>>
      /\ mode \in {"arbitrate", "pass1"}
  BY DEF FetchText, OrderInv
<1>2. todo' \subseteq Asked(p) /\ \A i \in todo' : PaperOf[i] \notin ocr'
  BY OfItems DEF FetchText, Asked
<1>3. todo' \subseteq scope
  BY <1>2, OfItems
<1>4. KeepsOrder(scope)'
  BY <1>1 DEF OrderInv, KeepsOrder
<1>. QED
  BY <1>1, <1>2, <1>3, <1>4 DEF OrderInv

\* The groups that are asked: a paper in one group is asked whole, and only if it
\* has an open item.
LEMMA AskedCalls ==
    ASSUME TypeInv, OrderInv, Pass1, NEW call \in calls'
    PROVE  /\ call \in Calls /\ call.text = [inv |-> inv, on |-> call.on]
           /\ call.on \subseteq scope
           /\ \A i \in call.on : PaperOf[i] \in ocr
           /\ \A p \in Grouped : call.on \cap Of(p) # {} =>
                 call.on = Asked(p) /\ \E i \in Of(p) : ~Settled(i)
<1>1. PICK asked \in Pending : call = [asked EXCEPT !.text = [inv |-> inv, on |-> asked.on]]
  BY DEF Pass1
<1>2. PICK q \in chunk \cap ocr : asked.on \in Ask(q)
  BY <1>1 DEF Pending
<1>3. call \in Calls /\ call.text = [inv |-> inv, on |-> call.on] /\ call.on = asked.on
  BY <1>1, PendingType DEF Pending, Calls, Texts, TypeInv, ControlInv
<1>4. call.on \in GroupsOf(q) /\ \E i \in call.on : ~Settled(i)
  BY <1>2, <1>3 DEF Ask, ShouldSkip, Settled
<1>5. \A i \in call.on : i \in scope /\ PaperOf[i] = q
  BY <1>4 DEF GroupsOf, ItemsOf
<1>6. ASSUME NEW p \in Grouped, call.on \cap Of(p) # {}
      PROVE  call.on = Asked(p) /\ \E i \in Of(p) : ~Settled(i)
  <2>1. p = q
    BY <1>5, <1>6, OfItems
  <2>2. PerQuestion => Asked(p) \cap Continuation # {}
    <3>1. SUFFICES ASSUME PerQuestion PROVE Asked(p) \cap Continuation # {}
      OBVIOUS
    <3>2. PICK j \in Continuation : PaperOf[j] = p /\ j \in Items
      BY <3>1, KindsAreItems DEF Grouped, ItemsOf
    <3>3. PICK i \in call.on : i \in scope /\ PaperOf[i] = p
      BY <1>5, <1>6, <2>1
    <3>4. PICK k \in scope \cap Continuation : PaperOf[k] = p
      BY <3>2, <3>3 DEF OrderInv, KeepsOrder
    <3>. QED
      BY <3>4, OfItems
  <2>3. call.on = Asked(p)
    BY <1>4, <2>1, <2>2 DEF GroupsOf, Asked
  <2>4. Asked(p) \subseteq Of(p)
    BY OfItems DEF TypeInv, ControlInv
  <2>. QED
    BY <1>4, <2>3, <2>4
<1>. QED
  BY <1>2, <1>3, <1>5, <1>6

\* The calls of a pass: one text each, and a paper in one group has one call.
CallsOK(cs) ==
    /\ cs \subseteq Calls
    /\ \A call \in cs :
          /\ call.on \subseteq scope
          /\ call.text = [inv |-> inv, on |-> call.on]
          /\ \A i \in call.on : PaperOf[i] \in ocr
    /\ \A p \in Grouped, call \in cs : call.on \cap Of(p) # {} => call.on = Asked(p)

LEMMA OneCall ==
    ASSUME NEW cs, CallsOK(cs), NEW p \in Grouped, NEW some, some \subseteq cs,
           ItemsIn(some) \cap Of(p) # {}
    PROVE  \E call \in some :
              /\ call.on = Asked(p) /\ call.on \cap Of(p) # {}
              /\ Asked(p) \subseteq ItemsIn(some)
              /\ \A c \in cs : c.on \cap Of(p) # {} => c = call
<1>1. PICK call \in some : call.on \cap Of(p) # {}
  BY DEF ItemsIn
<1>2. call \in cs /\ call.on = Asked(p)
  BY <1>1 DEF CallsOK
<1>3. Asked(p) \subseteq ItemsIn(some)
  BY <1>1, <1>2 DEF ItemsIn
<1>4. ASSUME NEW c \in cs, c.on \cap Of(p) # {} PROVE c = call
  <2>1. c.on = call.on
    BY <1>2, <1>4 DEF CallsOK
  <2>3. c.text = [inv |-> inv, on |-> c.on] /\ call.text = [inv |-> inv, on |-> call.on]
    BY <1>2 DEF CallsOK
  <2>2. c \in Calls /\ call \in Calls
    BY <1>2 DEF CallsOK
  <2>. QED
    BY <2>1, <2>2, <2>3 DEF Calls
<1>. QED
  BY <1>1, <1>2, <1>3, <1>4

\* The loop at pc has the items of some calls to write, others are still to hear.
LEMMA HandOrder ==
    ASSUME TypeInv, OrderInv, NEW cs, CallsOK(cs), NEW some, NEW rest,
           some \subseteq cs, rest \subseteq cs, todo' = ItemsIn(some), heard' = rest,
           UNCHANGED <<ocr, mode, scope, inv>>,
           pc' = "store" \/ some \cap rest = {},
           pc' \in {"store", "drop1", "drop2", "tail"}, pc' # "store" => mode = "arbitrate"
    PROVE  OrderInv'
<1>1. ASSUME NEW i \in todo' PROVE PaperOf[i] \in ocr /\ i \in scope
  <2>1. PICK call \in some : i \in call.on
    BY <1>1 DEF ItemsIn
  <2>2. call \in cs
    OBVIOUS
  <2>. QED
    BY <2>1, <2>2 DEF CallsOK
<1>2. ASSUME NEW p \in Grouped, NEW call \in rest, call.on \cap Of(p) # {}
      PROVE  call.on = Asked(p) /\ (pc' # "store" => todo' \cap Of(p) = {})
  <2>1. call.on = Asked(p)
    BY <1>2 DEF CallsOK
  <2>2. ASSUME pc' # "store", todo' \cap Of(p) # {} PROVE FALSE
    <3>1. PICK other \in some : \A c \in cs : c.on \cap Of(p) # {} => c = other
      BY <2>2, OneCall
    <3>2. call = other
      BY <1>2, <3>1
    <3>. QED
      BY <2>2, <3>1, <3>2
  <2>. QED
    BY <2>1, <2>2
<1>3. ASSUME NEW p \in Grouped, NEW i \in Behind(p)', NEW j \in todo' \cap Of(p) PROVE FALSE
  <2>1. Asked(p) \subseteq todo'
    BY <1>3, OneCall
  <2>. QED
    BY <1>3, <2>1 DEF Behind, Asked
<1>4. KeepsOrder(scope)' /\ mode' \notin {"pass2", "pass2nopost"}
  BY DEF OrderInv, KeepsOrder
<1>5. \A p : Asked(p)' = Asked(p)
  BY DEF Asked
<1>6. \A call \in heard' :
          /\ call.on \subseteq scope'
          /\ call.text = [inv |-> inv, on |-> call.on]' /\ \A i \in call.on : PaperOf[i] \in ocr'
  BY DEF CallsOK
<1>7. \A p \in Grouped, call \in heard' : call.on \cap Of(p) # {} =>
          /\ call.on = Asked(p)'
          /\ pc' # "store" => todo' \cap Of(p) = {}
  BY <1>2, <1>5
<1>8. \A i \in todo' : PaperOf[i] \in ocr' <=> pc' # "fetch"
  BY <1>1
<1>9. pc' # "fetch" => \A p \in Grouped : \A i \in Behind(p)', j \in todo' \cap Of(p) : i < j
  BY <1>3
<1>10. /\ pc' \in {"chunk", "fetch"} => mode' \in {"arbitrate", "pass1"}
       /\ pc' \in {"drop1", "drop2", "tail"} => mode' = "arbitrate"
       /\ todo' # {} => pc' \in {"fetch", "store", "drop1", "drop2", "tail"}
       /\ heard' # {} => pc' \in {"store", "drop1", "drop2", "tail"}
       /\ todo' \subseteq scope'
  BY <1>1
<1>. QED
  BY <1>4, <1>6, <1>7, <1>8, <1>9, <1>10 DEF OrderInv

LEMMA Pass1Calls ==
    ASSUME TypeInv, OrderInv, Pass1
    PROVE  CallsOK(calls')
<1>1. calls' \subseteq Calls
  BY AskedCalls
<1>4. \A call \in calls' :
          /\ call.on \subseteq scope
          /\ call.text = [inv |-> inv, on |-> call.on]
          /\ \A i \in call.on : PaperOf[i] \in ocr
  BY AskedCalls
<1>5. \A p \in Grouped, call \in calls' : call.on \cap Of(p) # {} => call.on = Asked(p)
  BY AskedCalls
<1>. QED
  BY <1>1, <1>4, <1>5 DEF CallsOK

LEMMA HeardCalls ==
    ASSUME TypeInv, OrderInv
    PROVE  CallsOK(heard)
BY DEF CallsOK, TypeInv, ControlInv, OrderInv

\* What Pass 1 hears, and what its loop has to write.
LEMMA Pass1Hands ==
    ASSUME TypeInv, OrderInv, Pass1
    PROVE  \E some \in SUBSET calls' :
              /\ heard' \subseteq calls' /\ todo' = ItemsIn(some)
              /\ \/ mode = "pass1" /\ pc' = "store"
                 \/ mode = "arbitrate" /\ pc' = "drop1" /\ some \cap heard' = {}
<1>1. mode \in {"arbitrate", "pass1"}
  BY DEF Pass1, OrderInv
<1>2. PICK ok \in SUBSET calls' :
         /\ heard' = ok
         /\ todo' = IF mode = "pass1" THEN ItemsIn(ToStore(ok)) ELSE Drops(calls' \ ok)
  BY DEF Pass1
<1>3. CASE mode = "pass1"
  <2>1. ToStore(ok) \in SUBSET calls'
    BY DEF ToStore
  <2>. QED
    BY <1>2, <1>3, <2>1 DEF Pass1
<1>4. CASE mode = "arbitrate"
  BY <1>2, <1>4 DEF Pass1, Drops
<1>. QED
  BY <1>1, <1>3, <1>4

LEMMA Pass1Order == ASSUME TypeInv, OrderInv, Pass1 PROVE OrderInv'
<1>1. PICK some \in SUBSET calls' :
          /\ heard' \subseteq calls' /\ todo' = ItemsIn(some)
          /\ \/ mode = "pass1" /\ pc' = "store"
             \/ mode = "arbitrate" /\ pc' = "drop1" /\ some \cap heard' = {}
  BY Pass1Hands
<1>2. CallsOK(calls')
  BY Pass1Calls
<1>3. UNCHANGED <<ocr, mode, scope, inv>>
  BY DEF Pass1
<1>. QED
  BY <1>1, <1>2, <1>3, HandOrder

LEMMA Pass2Hands ==
    ASSUME TypeInv, OrderInv, Pass2
    PROVE  /\ \E some \in SUBSET heard : todo' = ItemsIn(some) /\ some \cap heard' = {}
           /\ heard' \subseteq heard /\ pc = "drop1" /\ pc' = "drop2" /\ mode = "arbitrate"
           /\ todo = {} /\ toMark = {}
<1>1. pc = "drop1" /\ pc' = "drop2" /\ mode = "arbitrate" /\ todo = {} /\ toMark = {}
  BY DEF Pass2, Written, OrderInv
<1>2. PICK ok \in SUBSET heard : heard' = ok /\ todo' = Drops(heard \ ok)
  BY DEF Pass2
<1>. QED
  BY <1>1, <1>2 DEF Drops

LEMMA Pass2Order == ASSUME TypeInv, OrderInv, Pass2 PROVE OrderInv'
<1>1. CallsOK(heard)
  BY HeardCalls
<1>2. PICK some \in SUBSET heard : todo' = ItemsIn(some) /\ some \cap heard' = {}
  BY Pass2Hands
<1>3. heard' \subseteq heard /\ pc' = "drop2" /\ mode = "arbitrate"
  BY Pass2Hands
<1>4. UNCHANGED <<ocr, mode, scope, inv>>
  BY DEF Pass2
<1>. QED
  BY <1>1, <1>2, <1>3, <1>4, HandOrder

LEMMA TakeReplyHands ==
    ASSUME TypeInv, OrderInv, NEW call \in heard, TakeReply(call)
    PROVE  /\ mode = "arbitrate" /\ pc \in {"drop2", "tail"} /\ pc' = "tail"
           /\ todo = {} /\ toMark = {} /\ toMark' = {}
           /\ heard' = heard \ {call}
           /\ todo' = call.on
           /\ UNCHANGED <<rows, ocr, mode, scope, inv>>
<1>1. call.on \subseteq scope
  BY DEF OrderInv
<1>. QED
  BY <1>1 DEF TakeReply, Written, OrderInv

LEMMA TakeReplyOrder ==
    ASSUME TypeInv, OrderInv, NEW call \in heard, TakeReply(call)
    PROVE  OrderInv'
<1>1. CallsOK(heard)
  BY HeardCalls
<1>2. /\ mode = "arbitrate" /\ pc' = "tail" /\ heard' = heard \ {call}
      /\ todo' = call.on
      /\ UNCHANGED <<ocr, mode, scope, inv>>
  BY TakeReplyHands
<1>3. todo' = ItemsIn({call})
  BY <1>2 DEF ItemsIn
<1>. QED
  BY <1>1, <1>2, <1>3, HandOrder

LEMMA StartCommandOrder ==
    ASSUME TypeInv, OrderInv, NEW command \in Commands, NEW S \in SUBSET Items,
           StartCommand(command, S), KeepsOrder(S), command \notin {"pass2", "pass2nopost"}
    PROVE  OrderInv'
<1>1. todo = {} /\ heard = {}
  BY DEF StartCommand, OrderInv
<1>2. /\ todo' = {} /\ heard' = {} /\ ocr' = ocr /\ scope' = S
      /\ mode' \notin {"pass2", "pass2nopost"}
      /\ pc' \in {"chunk", "paper"} /\ (pc' = "chunk" => mode' \in {"arbitrate", "pass1"})
  BY <1>1 DEF StartCommand
<1>3. KeepsOrder(scope')
  BY <1>2 DEF KeepsOrder
<1>. QED
  BY <1>2, <1>3 DEF OrderInv

\* The steps that have nothing in hand and write no row.
Idle ==
    \/ BeginChunk \/ Cancel \/ FinishRun \/ FinishPass1 \/ FinishPass2 \/ Crash
    \/ BeginPost \/ BeginRepost \/ Send \/ EndPosts
    \/ \E p \in Papers : Read(p) \/ SendFails(p)

LEMMA IdleStep ==
    ASSUME TypeInv, OrderInv, Idle
    PROVE  /\ rows' = rows /\ ocr' = ocr /\ todo' = {} /\ heard' = {} /\ toMark' = {}
           /\ mode' = mode /\ scope' \in {scope, {}}
           /\ pc' \notin {"store", "drop1", "drop2", "tail"}
           /\ pc' \in {"chunk", "fetch"} => mode \in {"arbitrate", "pass1"}
<1>. USE DEF HandInv, TypeInv, OrderInv, Written
<1>1. CASE \/ Cancel \/ FinishRun \/ FinishPass1 \/ FinishPass2 \/ Crash
  BY <1>1, EndProcessHands DEF Cancel, FinishRun, FinishPass1, FinishPass2, Crash
<1>2. CASE BeginChunk \/ BeginPost \/ BeginRepost \/ Send
  BY <1>2 DEF BeginChunk, BeginPost, BeginRepost, Send
<1>3. CASE EndPosts
  BY <1>3, EndProcessHands DEF EndPosts
<1>4. CASE \E p \in Papers : Read(p) \/ SendFails(p)
  BY <1>4, EndProcessHands DEF Read, SendFails
<1>. QED
  BY <1>1, <1>2, <1>3, <1>4 DEF Idle

LEMMA UserStepKeeps ==
    ASSUME ScriptKeepsOrder, UserStep
    PROVE  \E command \in Commands : \E S \in SUBSET Items :
              /\ StartCommand(command, S)
              /\ KeepsOrder(S) /\ command \notin {"pass2", "pass2nopost"}
<1>1. PICK command \in Commands : \E S \in SUBSET Items :
          /\ StartCommand(command, S)
          /\ \E n \in DOMAIN Script : <<command, S>> \in Script[n]
  BY UserStepCommand
<1>2. PICK S \in SUBSET Items :
          /\ StartCommand(command, S)
          /\ \E n \in DOMAIN Script : <<command, S>> \in Script[n]
  BY <1>1
<1>3. KeepsOrder(S) /\ command \notin {"pass2", "pass2nopost"}
  BY <1>2 DEF ScriptKeepsOrder
<1>. QED
  BY <1>2, <1>3

---------------------------------------------------------------------------
(* The table, step by step.                                                *)

\* With nothing in hand and no row written, firm and loose stay what they are.
LEMMA QuietPath ==
    ASSUME PathInv, TypeInv', OrderInv', rows' = rows, ocr \subseteq ocr', heard' = {}, toMark' = {},
           pc' \notin {"store", "drop1", "drop2", "tail"}
    PROVE  PathInv'
<1>1. SpokenInv'
  BY DEF PathInv, SpokenInv, Spoken
<1>2. \A p \in Grouped : Firm(p)' \/ Loose(p)'
  <2>. TAKE p \in Grouped
  <2>1. p \in Papers /\ \A i \in Of(p) : Settled(i)' <=> Settled(i)
    BY DEF Grouped, Settled
  <2>2. Firm(p) \/ Loose(p)
    BY DEF PathInv, LooseInv
  <2>. QED
    BY <2>1, <2>2, SamePaper
<1>3. LooseInv'
  BY <1>2 DEF LooseInv
<1>4. TailInv'
  BY DEF TailInv
<1>. QED
  BY <1>1, <1>3, <1>4 DEF PathInv

LEMMA IdlePath == ASSUME PathInv, Idle, TypeInv' PROVE PathInv'
<1>1. /\ rows' = rows /\ ocr' = ocr /\ todo' = {} /\ heard' = {} /\ toMark' = {}
      /\ mode' = mode /\ scope' \in {scope, {}}
      /\ pc' \notin {"store", "drop1", "drop2", "tail"}
      /\ pc' \in {"chunk", "fetch"} => mode \in {"arbitrate", "pass1"}
  BY IdleStep DEF PathInv
<1>2. OrderInv'
  BY <1>1, QuietOrder DEF PathInv
<1>. QED
  BY <1>1, <1>2, QuietPath

LEMMA FetchTextPath == ASSUME PathInv, NEW p \in Papers, FetchText(p) PROVE PathInv'
<1>1. TypeInv' /\ OrderInv'
  BY FetchTextType, FetchTextOrder DEF PathInv
<1>2. /\ rows' = rows /\ ocr \subseteq ocr' /\ heard' = {} /\ toMark' = {}
      /\ pc' \notin {"store", "drop1", "drop2", "tail"}
  BY DEF FetchText, PathInv, OrderInv, TypeInv, HandInv
<1>. QED
  BY <1>1, <1>2, QuietPath

\* A table that says nothing.
LEMMA SilentPath ==
    ASSUME TypeInv', OrderInv', \A i \in Items : ~Says(rows'[i].payload), pc' # "tail"
    PROVE  PathInv'
<1>1. \A i \in Items : ~Spoken(i)'
  BY DEF Spoken
<1>2. \A p \in Grouped : Loose(p)' /\ \A i \in Behind(p)' : ~Spoken(i)'
  <2>. TAKE p \in Grouped
  <2>1. Of(p) \subseteq Items
    BY OfItems
  <2>2. Behind(p)' \subseteq Items
    BY OfItems DEF Behind, Asked, ItemsOf, TypeInv, ControlInv
  <2>. QED
    BY <1>1, <2>1, <2>2 DEF Loose
<1>3. LooseInv'
  BY <1>2 DEF LooseInv
<1>. QED
  BY <1>1, <1>3 DEF PathInv, SpokenInv, TailInv

LEMMA StartCommandPath ==
    ASSUME PathInv, NEW command \in Commands, NEW S \in SUBSET Items, StartCommand(command, S),
           KeepsOrder(S), command \notin {"pass2", "pass2nopost"}
    PROVE  PathInv'
<1>1. TypeInv' /\ OrderInv'
  BY StartCommandType, StartCommandOrder DEF PathInv
<1>2. ocr' = ocr /\ heard' = {} /\ toMark' = {} /\ pc' \in {"chunk", "paper"}
  BY DEF StartCommand, PathInv, OrderInv, TypeInv, HandInv
<1>3. CASE rows' = rows
  BY <1>1, <1>2, <1>3, QuietPath
<1>4. CASE rows' = [i \in Items |-> NoRow]
  <2>1. \A i \in Items : ~Says(rows'[i].payload)
    BY <1>4 DEF NoRow, Says, Is
  <2>. QED
    BY <1>1, <1>2, <2>1, SilentPath
<1>. QED
  BY <1>3, <1>4 DEF StartCommand

\* A row is written that says nothing, or what arbitrate made of a text.
LEMMA WriteSpoken ==
    ASSUME SpokenInv, NEW i \in Items, \A j \in Items : j # i => rows'[j] = rows[j], ocr' = ocr,
           Says(rows'[i].payload) =>
              PaperOf[i] \in ocr /\ rows'[i].payload.text.inv = rows'[i].payload.inv
    PROVE  SpokenInv'
<1>1. SUFFICES ASSUME NEW j \in Items, Spoken(j)'
               PROVE  PaperOf[j] \in ocr' /\ rows'[j].payload.text.inv = rows'[j].payload.inv
  BY DEF SpokenInv
<1>2. CASE j = i
  BY <1>1, <1>2 DEF Spoken
<1>3. CASE j # i
  BY <1>1, <1>3 DEF SpokenInv, Spoken
<1>. QED
  BY <1>2, <1>3

\* A paper without a text has nothing said of it, before the error and after.
LEMMA SaveNoOcrPath == ASSUME PathInv, NEW i \in Items, SaveNoOcr(i) PROVE PathInv'
<1>1. /\ pc = "fetch" /\ pc' = "fetch" /\ heard' = {} /\ toMark' = {}
      /\ IsFirst(i, todo) /\ todo' = todo \ {i} /\ UNCHANGED <<ocr, pc, mode, scope, heard, inv>>
  BY DEF SaveNoOcr, PathInv, OrderInv, TypeInv, HandInv
<1>2. TypeInv' /\ OrderInv'
  BY <1>1, SaveNoOcrType, WriteOrder DEF PathInv
<1>3. PaperOf[i] \notin ocr
  BY <1>1, FirstIsIn DEF PathInv, OrderInv
<1>4. ~Says(rows'[i].payload) /\ \A j \in Items : j # i => rows'[j] = rows[j]
  <2>. DEFINE payload == Failure("no_ocr", NoText)
  <2>1. ReadingOK(payload) /\ payload.verdict = "no_ocr"
    BY FailureIsReading DEF PathInv, TypeInv, ControlInv, Verdicts
  <2>2. Save(i, payload) /\ StoreInv /\ UNCHANGED <<sent, ocr>>
    BY DEF SaveNoOcr, PathInv, TypeInv
  <2>. HIDE DEF payload
  <2>3. rows'[i] = SaveAnswer(payload) /\ \A j \in Items : j # i => rows'[j] = rows[j]
    BY <2>1, <2>2, SaveType
  <2>. QED
    BY <2>1, <2>3 DEF SaveAnswer, Says, Is
<1>5. SpokenInv'
  BY <1>1, <1>4, WriteSpoken DEF PathInv
<1>6. ASSUME NEW p \in Grouped PROVE Firm(p)' \/ Loose(p)'
  <2>1. CASE PaperOf[i] # p
    <3>1. p \in Papers /\ (Firm(p) \/ Loose(p))
      BY DEF PathInv, LooseInv, Grouped
    <3>. QED
      BY <1>4, <2>1, <3>1, OtherPaper
  <2>2. CASE PaperOf[i] = p
    <3>1. \A j \in Of(p) : ~Spoken(j)'
      BY <1>1, <1>3, <1>5, <2>2, OfItems DEF SpokenInv
    <3>. QED
      BY <3>1 DEF Loose
  <2>. QED
    BY <2>1, <2>2
<1>7. LooseInv' /\ TailInv'
  BY <1>1, <1>6 DEF LooseInv, TailInv
<1>. QED
  BY <1>2, <1>5, <1>7 DEF PathInv

\* The items of a paper before the one to write are behind.
LEMMA BeforeIsBehind ==
    ASSUME TypeInv, OrderInv, NEW i \in Items, IsFirst(i, todo), NEW j \in Of(PaperOf[i]), j < i
    PROVE  j \in Behind(PaperOf[i])
<1>1. i \in scope /\ j \in Items /\ PaperOf[j] = PaperOf[i] /\ i \in Nat /\ j \in Nat
  BY FirstIsIn, OfItems DEF OrderInv
<1>2. j \in scope
  BY <1>1 DEF OrderInv, KeepsOrder
<1>3. j \notin todo
  BY <1>1 DEF IsFirst
<1>. QED
  BY <1>1, <1>2, <1>3, OfItems DEF Behind

\* A loop writes, in order, rows that say nothing.
LEMMA ErasePath ==
    ASSUME PathInv, TypeInv', NEW i \in Items, pc \in {"store", "drop1", "drop2"},
           IsFirst(i, todo), todo' = todo \ {i},
           UNCHANGED <<ocr, pc, mode, scope, heard, inv>>,
           \A j \in Items : j # i => rows'[j] = rows[j], ~Says(rows'[i].payload), toMark' \subseteq {i}
    PROVE  PathInv'
<1>1. OrderInv'
  BY WriteOrder DEF PathInv
<1>2. SpokenInv'
  BY WriteSpoken DEF PathInv
<1>3. i \in todo /\ i \in Of(PaperOf[i]) /\ PaperOf[i] \in Papers
  BY FirstIsIn, OfItems
<1>4. ASSUME NEW p \in Grouped, PaperOf[i] = p
      PROVE  Loose(p)' /\ \A j \in Behind(p)' : ~Spoken(j)'
  <2>1. Loose(p) /\ \A j \in Behind(p) : ~Spoken(j)
    BY <1>3, <1>4 DEF PathInv, LooseInv
  <2>2. \A j \in Of(p) : j < i => ~Spoken(j)
    BY <1>4, <2>1, BeforeIsBehind DEF PathInv
  <2>3. Loose(p)'
    BY <1>4, <2>1, <2>2, EraseLoose
  <2>4. \A j \in Behind(p)' : j \in Items /\ (j \in Behind(p) \/ j = i)
    BY OfItems DEF Behind, Asked, ItemsOf, PathInv, TypeInv, ControlInv
  <2>5. ASSUME NEW j \in Behind(p)' PROVE ~Spoken(j)'
    <3>1. CASE j = i
      BY <3>1 DEF Spoken
    <3>2. CASE j # i
      BY <2>1, <2>4, <3>2 DEF Spoken
    <3>. QED
      BY <3>1, <3>2
  <2>. QED
    BY <2>3, <2>5
<1>5. ASSUME NEW p \in Grouped, PaperOf[i] # p
      PROVE  /\ Firm(p)' \/ Loose(p)'
             /\ \/ \E call \in heard' : call.on \cap Of(p) # {}
                \/ toMark' \cap Of(p) # {}
                \/ todo' \cap Of(p) # {}
                => Loose(p)'
             /\ todo' \cap Of(p) # {} => \A j \in Behind(p)' : ~Spoken(j)'
  <2>1. /\ p \in Papers /\ (Firm(p) \/ Loose(p))
        /\ \/ \E call \in heard : call.on \cap Of(p) # {}
           \/ todo \cap Of(p) # {}
           => Loose(p)
        /\ todo \cap Of(p) # {} => \A j \in Behind(p) : ~Spoken(j)
    BY DEF PathInv, LooseInv, Grouped
  <2>2. /\ Firm(p) => Firm(p)'
        /\ Loose(p) => Loose(p)'
        /\ \A j \in Of(p) : Spoken(j)' <=> Spoken(j)
    BY <1>5, <2>1, OtherPaper
  <2>3. i \notin Of(p) /\ toMark' \cap Of(p) = {} /\ todo' \cap Of(p) = todo \cap Of(p)
    BY <1>5, OfItems
  <2>4. \A j \in Behind(p)' : j \in Behind(p) /\ j \in Of(p)
    BY <1>5, OfItems DEF Behind, Asked, ItemsOf, PathInv, TypeInv, ControlInv
  <2>. QED
    BY <2>1, <2>2, <2>3, <2>4
<1>6. LooseInv'
  <2>. SUFFICES ASSUME NEW p \in Grouped
                PROVE  /\ Firm(p)' \/ Loose(p)'
                       /\ \/ \E call \in heard' : call.on \cap Of(p) # {}
                          \/ toMark' \cap Of(p) # {}
                          \/ todo' \cap Of(p) # {}
                          => Loose(p)'
                       /\ todo' \cap Of(p) # {} => \A j \in Behind(p)' : ~Spoken(j)'
    BY DEF LooseInv
  <2>1. CASE PaperOf[i] = p
    BY <1>4, <2>1
  <2>2. CASE PaperOf[i] # p
    BY <1>5, <2>2
  <2>. QED
    BY <2>1, <2>2
<1>7. TailInv'
  BY DEF TailInv
<1>. QED
  BY <1>1, <1>2, <1>6, <1>7 DEF PathInv

LEMMA StoreTextPath == ASSUME PathInv, NEW i \in Items, StoreText(i) PROVE PathInv'
<1>1. /\ pc = "store" /\ IsFirst(i, todo) /\ todo' = todo \ {i} /\ toMark' = {}
      /\ UNCHANGED <<ocr, pc, mode, scope, heard, inv>>
  BY DEF StoreText, PathInv, TypeInv, HandInv
<1>2. PICK call \in heard : \E text \in Texts :
         LET row == SavePass1(Resolution("awaiting", NoValue, text, CidOf(call.on)))
         IN  rows' = [rows EXCEPT ![i] = row]
  BY StoreTextRow DEF PathInv
<1>3. PICK text \in Texts :
         rows' = [rows EXCEPT ![i] =
                     SavePass1(Resolution("awaiting", NoValue, text, CidOf(call.on)))]
  BY <1>2
<1>. DEFINE row == SavePass1(Resolution("awaiting", NoValue, text, CidOf(call.on)))
<1>4. ~Says(row.payload)
  BY DEF SavePass1, Resolution, Says, Is
<1>5. rows' = [rows EXCEPT ![i] = row]
  BY <1>3
<1>. HIDE DEF row
<1>6. rows'[i] = row /\ \A j \in Items : j # i => rows'[j] = rows[j]
  BY <1>5 DEF PathInv, TypeInv, StoreInv
<1>7. TypeInv'
  BY StoreTextType DEF PathInv
<1>. QED
  BY <1>1, <1>4, <1>6, <1>7, ErasePath

LEMMA DropPath == ASSUME PathInv, NEW i \in Items, Drop(i) PROVE PathInv'
<1>. DEFINE payload == Failure(IF pc = "drop1" THEN "p1_error" ELSE "p2_error", NoText)
<1>1. ReadingOK(payload) /\ payload.verdict \in {"p1_error", "p2_error"}
  BY FailureIsReading DEF PathInv, TypeInv, ControlInv, Verdicts
<1>2. /\ pc \in {"drop1", "drop2"} /\ IsFirst(i, todo) /\ todo' = todo \ {i} /\ toMark' = {i}
      /\ UNCHANGED <<ocr, sent, pc, mode, scope, heard, inv>> /\ Save(i, payload)
  BY DEF Drop
<1>. HIDE DEF payload
<1>3. rows'[i] = SaveAnswer(payload) /\ \A j \in Items : j # i => rows'[j] = rows[j]
  BY <1>1, <1>2, SaveType DEF PathInv, TypeInv
<1>4. ~Says(rows'[i].payload)
  BY <1>1, <1>3 DEF SaveAnswer, Says, Is
<1>5. TypeInv'
  BY DropType DEF PathInv
<1>. QED
  BY <1>2, <1>3, <1>4, <1>5, ErasePath

\* A row is opened again, which leaves a loose paper loose.
LEMMA MarkPath == ASSUME PathInv, NEW i \in Items, Mark(i) PROVE PathInv'
<1>1. /\ i \in toMark /\ toMark' = {} /\ UNCHANGED <<ocr, pc, mode, scope, heard, todo, inv>>
      /\ rows' = [rows EXCEPT ![i] = MarkFailed(rows[i])] /\ pc \in {"drop1", "drop2"}
  BY DEF Mark, PathInv, TypeInv, HandInv
<1>2. /\ rows'[i] = MarkFailed(rows[i]) /\ RowOK(rows[i]) /\ rows[i].status = "done"
      /\ \A j \in Items : j # i => rows'[j] = rows[j]
  BY <1>1 DEF PathInv, TypeInv, StoreInv, HandInv
<1>3. rows'[i].payload = rows[i].payload /\ rows'[i].status = "failed"
  BY <1>2 DEF MarkFailed, RowOK
<1>4. \A j \in Items : /\ rows'[j].payload = rows[j].payload
                       /\ Settled(j)' => Settled(j)
                       /\ Spoken(j)' <=> Spoken(j)
  BY <1>2, <1>3 DEF Settled, Spoken
<1>5. TypeInv' /\ OrderInv'
  <2>1. OrderInv'
    BY <1>1 DEF PathInv, OrderInv, KeepsOrder, Behind, Asked
  <2>. QED
    BY <2>1, MarkType DEF PathInv
<1>6. SpokenInv'
  BY <1>1, <1>4 DEF PathInv, SpokenInv
<1>7. ASSUME NEW p \in Grouped
      PROVE  /\ Firm(p)' \/ Loose(p)'
             /\ Loose(p) => Loose(p)'
  <2>1. p \in Papers /\ (Firm(p) \/ Loose(p)) /\ (toMark \cap Of(p) # {} => Loose(p))
    BY DEF PathInv, LooseInv, Grouped
  <2>2. Loose(p) => Loose(p)'
    <3>1. SUFFICES ASSUME Loose(p), NEW j \in Of(p), Spoken(j)' PROVE Later(j)'
      BY DEF Loose
    <3>2. PICK m \in Of(p) : j < m /\ ~Settled(m)
      BY <1>4, <3>1, OfItems DEF Loose, Later
    <3>3. ~Settled(m)'
      BY <1>4, <3>2, OfItems
    <3>. QED
      BY <3>2, <3>3, OfItems DEF Later
  <2>3. CASE PaperOf[i] = p
    <3>1. i \in toMark \cap Of(p)
      BY <1>1, <2>3, OfItems
    <3>. QED
      BY <2>1, <2>2, <3>1
  <2>4. CASE PaperOf[i] # p
    BY <1>2, <2>1, <2>4, OtherPaper
  <2>. QED
    BY <2>2, <2>3, <2>4
<1>8. \A p : Behind(p)' = Behind(p) /\ Behind(p) \subseteq Items
  BY <1>1, OfItems DEF Behind, Asked, ItemsOf, PathInv, TypeInv, ControlInv
<1>9. LooseInv'
  <2>. SUFFICES ASSUME NEW p \in Grouped
                PROVE  /\ Firm(p)' \/ Loose(p)'
                       /\ \/ \E call \in heard' : call.on \cap Of(p) # {}
                          \/ toMark' \cap Of(p) # {}
                          \/ todo' \cap Of(p) # {}
                          => Loose(p)'
                       /\ todo' \cap Of(p) # {} => \A j \in Behind(p)' : ~Spoken(j)'
    BY DEF LooseInv
  <2>1. /\ \/ \E call \in heard : call.on \cap Of(p) # {}
           \/ todo \cap Of(p) # {}
           => Loose(p)
        /\ todo \cap Of(p) # {} => \A j \in Behind(p) : ~Spoken(j)
    BY <1>1 DEF PathInv, LooseInv
  <2>. QED
    BY <1>1, <1>4, <1>7, <1>8, <2>1
<1>10. TailInv'
  BY <1>1 DEF TailInv
<1>. QED
  BY <1>5, <1>6, <1>9, <1>10 DEF PathInv

\* A pass hears some of its calls and has the items of others to write: the papers
\* they are about are loose, and written from their first item on.
LEMMA PassPath ==
    ASSUME PathInv, TypeInv', OrderInv', NEW cs, CallsOK(cs),
           \A p \in Grouped, call \in cs : call.on \cap Of(p) # {} => Loose(p),
           NEW some, some \subseteq cs, heard' \subseteq cs, todo' = ItemsIn(some), toMark' = {},
           UNCHANGED <<rows, ocr, scope>>, pc' # "tail"
    PROVE  PathInv'
<1>1. SpokenInv'
  BY DEF PathInv, SpokenInv, Spoken
<1>2. ASSUME NEW p \in Grouped PROVE (Firm(p) \/ Loose(p))' /\ (Loose(p) => Loose(p)')
  <2>1. p \in Papers /\ (Firm(p) \/ Loose(p)) /\ \A i \in Of(p) : Settled(i)' <=> Settled(i)
    BY DEF PathInv, LooseInv, Grouped, Settled
  <2>. QED
    BY <2>1, SamePaper
<1>3. ASSUME NEW p \in Grouped, todo' \cap Of(p) # {} PROVE Loose(p) /\ Behind(p)' = {}
  <2>1. PICK call \in some : call.on \cap Of(p) # {} /\ Asked(p) \subseteq ItemsIn(some)
    BY <1>3, OneCall
  <2>. QED
    BY <2>1 DEF Behind, Asked
<1>4. ASSUME NEW p \in Grouped, \E call \in heard' : call.on \cap Of(p) # {} PROVE Loose(p)
  BY <1>4
<1>5. LooseInv'
  BY <1>2, <1>3, <1>4 DEF LooseInv
<1>6. TailInv'
  BY DEF TailInv
<1>. QED
  BY <1>1, <1>5, <1>6 DEF PathInv

LEMMA Pass1Path == ASSUME PathInv, Pass1 PROVE PathInv'
<1>1. TypeInv' /\ OrderInv' /\ CallsOK(calls')
  BY Pass1Type, Pass1Order, Pass1Calls DEF PathInv
<1>2. PICK some \in SUBSET calls' :
         heard' \subseteq calls' /\ todo' = ItemsIn(some) /\ pc' \in {"store", "drop1"}
  BY Pass1Hands DEF PathInv
<1>3. toMark' = {} /\ UNCHANGED <<rows, ocr, scope>>
  BY DEF Pass1, PathInv, TypeInv, HandInv
<1>4. \A p \in Grouped, call \in calls' : call.on \cap Of(p) # {} => Loose(p)
  BY AskedCalls, OpenIsLoose DEF PathInv
<1>. QED
  BY <1>1, <1>2, <1>3, <1>4, PassPath

LEMMA Pass2Path == ASSUME PathInv, Pass2 PROVE PathInv'
<1>1. TypeInv' /\ OrderInv' /\ CallsOK(heard)
  BY Pass2Type, Pass2Order, HeardCalls DEF PathInv
<1>2. PICK some \in SUBSET heard : todo' = ItemsIn(some)
  BY Pass2Hands DEF PathInv
<1>3. heard' \subseteq heard /\ pc' = "drop2" /\ toMark' = {} /\ UNCHANGED <<rows, ocr, scope>>
  BY Pass2Hands DEF Pass2, PathInv
<1>4. \A p \in Grouped, call \in heard : call.on \cap Of(p) # {} => Loose(p)
  BY DEF PathInv, LooseInv
<1>. QED
  BY <1>1, <1>2, <1>3, <1>4, PassPath

LEMMA MarkSentPath == ASSUME PathInv, NEW p \in Papers, MarkSent(p) PROVE PathInv'
<1>1. TypeInv' /\ pc' = "post" /\ toMark' = {}
  BY MarkSentType DEF MarkSent, PathInv, TypeInv, HandInv
<1>2. /\ todo' = {} /\ heard' = {} /\ UNCHANGED <<ocr, mode, scope>>
  BY DEF MarkSent, PathInv, OrderInv
<1>3. OrderInv'
  BY <1>1, <1>2, QuietOrder DEF PathInv
<1>4. \A i \in Items : rows'[i] \in {rows[i], MarkPosted(rows[i])} /\ RowOK(rows[i])
  BY DEF MarkSent, PathInv, TypeInv, StoreInv
<1>5. \A i \in Items : /\ rows'[i].payload = rows[i].payload
                       /\ Settled(i)' <=> Settled(i)
                       /\ Spoken(i)' <=> Spoken(i)
  BY <1>4 DEF MarkPosted, RowOK, Settled, Spoken
<1>6. SpokenInv'
  BY <1>2, <1>5 DEF PathInv, SpokenInv
<1>7. ASSUME NEW q \in Grouped PROVE Firm(q)' \/ Loose(q)'
  <2>1. q \in Papers /\ (Firm(q) \/ Loose(q))
    BY DEF PathInv, LooseInv, Grouped
  <2>2. \A i \in Of(q) : rows'[i].payload = rows[i].payload /\ (Settled(i)' <=> Settled(i))
    BY <1>5, OfItems
  <2>. QED
    BY <2>1, <2>2, SamePaper
<1>8. LooseInv' /\ TailInv'
  BY <1>1, <1>2, <1>7 DEF LooseInv, TailInv
<1>. QED
  BY <1>1, <1>3, <1>6, <1>8 DEF PathInv

\* What a reply makes of an item, and when it is an answer to rely on.
LEMMA ArbitratedSays ==
    ASSUME inv \in Nat, NEW group \in SUBSET Items, NEW reply \in Replies(group), NEW text \in Texts,
           text.inv = inv, NEW i \in group, NEW said, said = Spread(Arbitrated(reply, text))
    PROVE  /\ reply[i].damage # "none" => Is(said[i], "damaged") /\ ~Says(said[i])
           /\ reply[i].damage = "none" =>
                 /\ said[i] # NoPayload /\ said[i].verdict = Path(reply)[i]
                 /\ said[i].text.inv = said[i].inv
                 /\ Path(reply)[i] = "ok" => said[i].value = reply[i].value
<1>1. said[i] = Arbitrated(reply, text)[i] /\ said[i] # NoPayload
  BY ArbitratedIsReading, NoPayloadIsNone DEF Spread, ReplyReading, ReadingOK
<1>2. DOMAIN reply = group
  BY DEF Replies
<1>3. CASE reply[i].damage # "none"
  <2>1. Arbitrated(reply, text)[i] = Failure("damaged", NoText)
    BY <1>2, <1>3 DEF Arbitrated
  <2>2. Failure("damaged", NoText).verdict = "damaged"
    BY DEF Failure, Resolution
  <2>. QED
    BY <1>1, <1>3, <2>1, <2>2 DEF Is, Says
<1>4. CASE reply[i].damage = "none"
  <2>. DEFINE value == IF Path(reply)[i] = "ok" THEN reply[i].value ELSE NoValue
  <2>1. Arbitrated(reply, text)[i] = Resolution(Path(reply)[i], value, text, NoGroup)
    BY <1>2, <1>4 DEF Arbitrated
  <2>2. /\ said[i].verdict = Path(reply)[i] /\ said[i].value = value
        /\ said[i].inv = inv /\ said[i].text = text
    <3>. HIDE DEF value
    <3>. QED
      BY <1>1, <2>1 DEF Resolution
  <2>. QED
    BY <1>1, <1>4, <2>2
<1>. QED
  BY <1>3, <1>4

\* The walk agrees with itself: where an answer stands no gate failed before, and
\* what is passed over has its reason.
LEMMA ArbitratedAgrees ==
    ASSUME inv \in Nat, NEW p \in Papers, NEW group \in SUBSET Items, group \subseteq Of(p),
           \A i \in group, j \in Of(p) : j < i => j \in group,
           NEW reply \in Replies(group), NEW text \in Texts, text.inv = inv, NEW i \in group
    PROVE  Agrees(Spread(Arbitrated(reply, text)), i)
<1>. DEFINE said == Spread(Arbitrated(reply, text))
            at == Path(reply)
<1>1. DOMAIN reply = group /\ reply[i] \in ParsedItem(i)
  BY DEF Replies
<1>2. i \in Items /\ PaperOf[i] = p
  BY OfItems
<1>3. \A j \in group :
          /\ reply[j].damage # "none" => Is(said[j], "damaged") /\ ~Says(said[j])
          /\ reply[j].damage = "none" =>
                /\ said[j] # NoPayload /\ said[j].verdict = at[j]
                /\ said[j].text.inv = said[j].inv
                /\ at[j] = "ok" => said[j].value = reply[j].value
  BY ArbitratedSays
<1>4. at[i] = WalkTo(reply, at, i)
  BY PathTells
<1>. HIDE DEF said, at
<1>5. at[i] = "ok" => ~PassedOver(reply, at, i)
  BY <1>4 DEF WalkTo
<1>6. at[i] = "not_applicable" => PassedOver(reply, at, i)
  <2>1. Said(reply[i]) # "not_applicable"
    BY <1>1 DEF ParsedItem, Said
  <2>. QED
    BY <1>4, <2>1 DEF WalkTo
<1>7. ASSUME Is(said[i], "ok"), NEW g \in Of(p) \cap Gates, g < i, Sure(said[g]),
             said[g].value \in Failing
      PROVE  FALSE
  <2>1. g \in group /\ i \in group
    BY <1>7
  <2>2. at[i] = "ok"
    BY <1>3, <1>7 DEF Is, Says
  <2>3. at[g] = "ok" /\ said[g].value = reply[g].value
    BY <1>3, <1>7, <2>1 DEF Sure, Is, Says
  <2>. QED
    BY <1>1, <1>5, <1>7, <2>1, <2>2, <2>3 DEF PassedOver
<1>8. ASSUME NEW j \in group, at[j] = "ok"
      PROVE  Is(said[j], "damaged") \/ (Sure(said[j]) /\ said[j].value = reply[j].value)
  BY <1>3, <1>8 DEF Sure, Is
<1>9. ASSUME Is(said[i], "not_applicable")
      PROVE  \E j \in Of(p) :
                /\ j < i
                /\ j \in Gates \/ \E need \in Needs[i] : need[1] = j
                /\ \/ Is(said[j], "damaged")
                   \/ /\ Sure(said[j])
                      /\ \/ j \in Gates /\ said[j].value \in Failing
                         \/ \E need \in Needs[i] : need[1] = j /\ said[j].value \notin need[2]
  <2>1. PassedOver(reply, at, i)
    BY <1>3, <1>6, <1>9 DEF Is, Says
  <2>2. CASE \E g \in DOMAIN reply \cap Gates :
                g < i /\ at[g] = "ok" /\ reply[g].value \in Failing
    <3>1. PICK g \in group \cap Gates : g < i /\ at[g] = "ok" /\ reply[g].value \in Failing
      BY <1>1, <2>2
    <3>2. Is(said[g], "damaged") \/ (Sure(said[g]) /\ said[g].value = reply[g].value)
      BY <1>8, <3>1
    <3>. QED
      BY <3>1, <3>2
  <2>3. CASE \E need \in Needs[i] :
                /\ need[1] \in DOMAIN reply /\ need[1] < i /\ at[need[1]] = "ok"
                /\ reply[need[1]].value \notin need[2]
    <3>1. PICK need \in Needs[i] :
             /\ need[1] \in group /\ need[1] < i /\ at[need[1]] = "ok"
             /\ reply[need[1]].value \notin need[2]
      BY <1>1, <2>3
    <3>. DEFINE j == need[1]
    <3>2. Is(said[j], "damaged") \/ (Sure(said[j]) /\ said[j].value = reply[j].value)
      BY <1>8, <3>1
    <3>3. j \in Of(p) /\ j < i
      BY <3>1
    <3>. QED
      BY <3>1, <3>2, <3>3
  <2>. QED
    BY <2>1, <2>2, <2>3 DEF PassedOver
<1>. QED
  BY <1>2, <1>7, <1>9 DEF Agrees, said

\* The items of a paper that a command asks are the first of the paper.
LEMMA AskedIsPrefix ==
    ASSUME TypeInv, OrderInv, NEW p, NEW i \in Asked(p), NEW j \in Of(p), j < i
    PROVE  j \in Asked(p)
<1>1. i \in scope /\ j \in Items /\ PaperOf[j] = p /\ PaperOf[i] = p
  BY OfItems
<1>2. j \in scope
  BY <1>1 DEF OrderInv, KeepsOrder
<1>. QED
  BY <1>1, <1>2, OfItems

LEMMA TakeReplyPath ==
    ASSUME PathInv, NEW call \in heard, TakeReply(call)
    PROVE  PathInv'
<1>1. TypeInv' /\ OrderInv' /\ CallsOK(heard)
  BY TakeReplyType, TakeReplyOrder, HeardCalls DEF PathInv
<1>2. /\ mode = "arbitrate" /\ pc' = "tail" /\ toMark' = {}
      /\ heard' = heard \ {call} /\ todo' = call.on
      /\ UNCHANGED <<rows, ocr, scope, inv>>
  BY TakeReplyHands DEF PathInv
<1>3. SpokenInv'
  BY <1>2 DEF PathInv, SpokenInv, Spoken
<1>4. ASSUME NEW p \in Grouped
      PROVE  /\ (Firm(p) \/ Loose(p))' /\ (Loose(p) => Loose(p)')
             /\ \A i \in Of(p) : (Later(i) => Later(i)') /\ (Spoken(i)' <=> Spoken(i))
  <2>1. p \in Papers /\ (Firm(p) \/ Loose(p)) /\ \A i \in Of(p) : Settled(i)' <=> Settled(i)
    BY <1>2 DEF PathInv, LooseInv, Grouped, Settled
  <2>2. \A i \in Of(p) : rows'[i].payload = rows[i].payload
    BY <1>2
  <2>. QED
    BY <2>1, <2>2, SamePaper
<1>5. \A p \in Grouped : (\E c \in heard' : c.on \cap Of(p) # {}) => Loose(p)
  BY <1>2 DEF PathInv, LooseInv
<1>6. LooseInv'
  BY <1>2, <1>4, <1>5 DEF LooseInv
<1>7. /\ call.on \in SUBSET Items /\ call.text \in Texts /\ call.text.inv = inv /\ inv \in Nat
      /\ \/ \E reply \in Replies(call.on) : reading' = Spread(Arbitrated(reply, call.text))
         \/ reading' = Spread(Unreadable(call.on))
  <2>1. call.text = [inv |-> inv, on |-> call.on] /\ inv \in Nat
    BY DEF PathInv, OrderInv, TypeInv, ControlInv
  <2>2. /\ call.on \in SUBSET Items /\ call.text \in Texts
        /\ \/ \E reply \in Replies(call.on) : reading' = Spread(Arbitrated(reply, call.text))
           \/ reading' = Spread(Unreadable(call.on))
    BY <1>2, TakenReply DEF PathInv
  <2>3. call.text.inv = inv
    BY <2>1
  <2>. QED
    BY <2>1, <2>2, <2>3
<1>8. ASSUME reading' = Spread(Unreadable(call.on)), NEW i \in Items PROVE ~Says(reading'[i])
  BY <1>8 DEF Spread, Unreadable, Failure, Resolution, Says, Is
<1>9. ASSUME NEW i \in Items, Says(reading'[i]) PROVE reading'[i].text.inv = reading'[i].inv
  <2>1. PICK reply \in Replies(call.on) : reading' = Spread(Arbitrated(reply, call.text))
    BY <1>7, <1>8, <1>9
  <2>2. i \in call.on
    BY <1>9, <2>1 DEF Spread, Arbitrated, Replies, Says, Is
  <2>. QED
    BY <1>7, <1>9, <2>1, <2>2, ArbitratedSays
<1>10. ASSUME NEW p \in Grouped, todo' \cap Of(p) # {}
       PROVE  /\ Behind(p)' = {}
              /\ \A i \in Of(p) : Spoken(i)' => Later(i)'
              /\ \A i \in Asked(p) : Says(reading'[i]) => Agrees(reading', i)
  <2>1. call.on = Asked(p) /\ Loose(p) /\ p \in Papers
    BY <1>2, <1>10 DEF PathInv, OrderInv, LooseInv, Grouped
  <2>2. Behind(p)' = {}
    BY <1>2, <2>1 DEF Behind, Asked
  <2>3. \A i \in Of(p) : Spoken(i)' => Later(i)'
    BY <1>4, <2>1 DEF Loose
  <2>4. ASSUME NEW i \in Asked(p), Says(reading'[i]) PROVE Agrees(reading', i)
    <3>1. call.on \subseteq Of(p) /\ \A k \in call.on, j \in Of(p) : j < k => j \in call.on
      BY <2>1, AskedOf, AskedIsPrefix DEF PathInv, TypeInv, ControlInv
    <3>2. i \in call.on /\ i \in Items
      BY <1>7, <2>1, <2>4
    <3>3. PICK reply \in Replies(call.on) : reading' = Spread(Arbitrated(reply, call.text))
      BY <1>7, <1>8, <2>4, <3>2
    <3>. QED
      BY <1>7, <2>1, <3>1, <3>2, <3>3, ArbitratedAgrees
  <2>. QED
    BY <2>2, <2>3, <2>4
<1>11. TailInv'
  <2>1. \A p : Asked(p)' = Asked(p)
    BY <1>2 DEF Asked
  <2>2. \A i \in Items : Says(reading'[i]) => reading'[i].text.inv = reading'[i].inv
    BY <1>9
  <2>3. \A p \in Grouped : todo' \cap Of(p) # {} =>
            /\ \A i \in Behind(p)' : rows'[i].status = "done" /\ rows'[i].payload = reading'[i]
            /\ \A i \in Of(p) \ Behind(p)' : Spoken(i)' => Later(i)'
            /\ \A i \in Asked(p) : Says(reading'[i]) => Agrees(reading', i)
    BY <1>10
  <2>4. \A p \in Grouped : \A i \in Asked(p) : Agrees(reading', i) => Agrees(reading, i)'
    BY DEF Agrees
  <2>. QED
    BY <2>1, <2>2, <2>3, <2>4 DEF TailInv
<1>. QED
  BY <1>1, <1>3, <1>6, <1>11 DEF PathInv

\* A reading is saved: what is behind agrees with itself, what is ahead is loose or,
\* when the last one is saved, the paper is firm.
LEMMA SaveReadingPath == ASSUME PathInv, NEW i \in Items, SaveReading(i) PROVE PathInv'
<1>1. /\ pc = "tail" /\ IsFirst(i, todo) /\ i \in todo /\ todo' = todo \ {i}
      /\ toMark = {} /\ toMark' = {}
      /\ UNCHANGED <<ocr, pc, mode, scope, heard, inv, reading>>
  BY FirstIsIn DEF SaveReading, PathInv, TypeInv, HandInv
<1>2. TypeInv' /\ OrderInv'
  BY <1>1, SaveReadingType, WriteOrder DEF PathInv
<1>3. rows'[i] = SaveAnswer(reading[i]) /\ \A j \in Items : j # i => rows'[j] = rows[j]
  <2>1. Save(i, reading[i]) /\ UNCHANGED <<sent, ocr>> /\ StoreInv
    BY DEF SaveReading, PathInv, TypeInv
  <2>2. ReadingOK(reading[i])
    BY <1>1 DEF PathInv, TypeInv, ControlInv, HandInv, ReplyReading
  <2>. QED
    BY <2>1, <2>2, SaveType
<1>4. rows'[i].status = "done" /\ rows'[i].payload = reading[i]
  BY <1>3 DEF SaveAnswer
<1>5. SpokenInv'
  <2>1. PaperOf[i] \in ocr
    BY <1>1 DEF PathInv, OrderInv
  <2>2. Says(reading[i]) => reading[i].text.inv = reading[i].inv
    BY <1>1 DEF PathInv, TailInv
  <2>. QED
    BY <1>1, <1>3, <1>4, <2>1, <2>2, WriteSpoken DEF PathInv
<1>6. i \in Of(PaperOf[i]) /\ i \in Asked(PaperOf[i]) /\ PaperOf[i] \in Papers /\ i \in Nat
  BY <1>1, OfItems DEF PathInv, OrderInv
<1>7. ASSUME NEW p \in Grouped, PaperOf[i] # p
      PROVE  /\ Firm(p)' \/ Loose(p)'
             /\ (\E call \in heard' : call.on \cap Of(p) # {}) => Loose(p)'
             /\ todo' \cap Of(p) # {} =>
                   /\ \A j \in Behind(p)' : rows'[j].status = "done" /\ rows'[j].payload = reading[j]
                   /\ \A j \in Of(p) \ Behind(p)' : Spoken(j)' => Later(j)'
                   /\ \A j \in Asked(p) : Says(reading[j]) => Agrees(reading, j)
  <2>1. /\ p \in Papers /\ (Firm(p) \/ Loose(p))
        /\ (\E call \in heard : call.on \cap Of(p) # {}) => Loose(p)
    BY DEF PathInv, LooseInv, Grouped
  <2>2. /\ Firm(p) => Firm(p)'
        /\ Loose(p) => Loose(p)'
        /\ \A j \in Of(p) : /\ rows'[j] = rows[j]
                            /\ Later(j) => Later(j)'
                            /\ Spoken(j)' <=> Spoken(j)
    BY <1>3, <1>7, <2>1, OtherPaper
  <2>3. Behind(p)' = Behind(p) /\ Behind(p) \subseteq Of(p) /\ todo' \cap Of(p) = todo \cap Of(p)
    BY <1>1, <1>7, OfItems DEF Behind, Asked, ItemsOf, PathInv, TypeInv, ControlInv
  <2>4. todo \cap Of(p) # {} =>
           /\ \A j \in Behind(p) : rows[j].status = "done" /\ rows[j].payload = reading[j]
           /\ \A j \in Of(p) \ Behind(p) : Spoken(j) => Later(j)
           /\ \A j \in Asked(p) : Says(reading[j]) => Agrees(reading, j)
    BY <1>1 DEF PathInv, TailInv
  <2>5. todo \cap Of(p) # {} =>
           /\ \A j \in Behind(p) : rows'[j].status = "done" /\ rows'[j].payload = reading[j]
           /\ \A j \in Of(p) \ Behind(p) : Spoken(j)' => Later(j)'
    BY <2>2, <2>3, <2>4
  <2>. QED
    BY <1>1, <2>1, <2>2, <2>3, <2>4, <2>5
<1>8. ASSUME NEW p \in Grouped, PaperOf[i] = p
      PROVE  /\ Firm(p)' \/ Loose(p)'
             /\ ~\E call \in heard' : call.on \cap Of(p) # {}
             /\ \A j \in Behind(p)' : rows'[j].status = "done" /\ rows'[j].payload = reading[j]
             /\ \A j \in Of(p) \ Behind(p)' : Spoken(j)' => Later(j)'
             /\ \A j \in Asked(p) : Says(reading[j]) => Agrees(reading, j)
  <2>. DEFINE B == Behind(p) \union {i}
  <2>1. /\ \A j \in Behind(p) : rows[j].status = "done" /\ rows[j].payload = reading[j]
        /\ \A j \in Of(p) \ Behind(p) : Spoken(j) => Later(j)
        /\ \A j \in Asked(p) : Says(reading[j]) => Agrees(reading, j)
    BY <1>1, <1>6, <1>8 DEF PathInv, TailInv
  <2>2. Behind(p)' = B
    BY <1>1, <1>6, <1>8 DEF Behind, Asked
  <2>3. B \subseteq Asked(p) /\ B \subseteq Of(p) /\ Asked(p) \subseteq Of(p) /\ Of(p) \subseteq Items
    BY <1>6, <1>8, OfItems DEF Behind, PathInv, TypeInv, ControlInv
  <2>4. ASSUME NEW j \in B PROVE rows'[j].status = "done" /\ rows'[j].payload = reading[j]
    <3>1. CASE j = i
      BY <1>4, <3>1
    <3>2. CASE j # i
      BY <1>3, <2>1, <2>3, <3>2
    <3>. QED
      BY <3>1, <3>2
  <2>5. ASSUME NEW k \in B, NEW j \in Of(p), j <= k PROVE j \in B
    <3>1. j \in Nat /\ k \in Nat
      BY <2>3, OfItems
    <3>2. CASE j = k
      BY <3>2
    <3>3. CASE j # k
      <4>1. j < k
        BY <2>5, <3>1, <3>3
      <4>2. j \in Asked(p)
        BY <2>3, <2>5, <4>1, AskedIsPrefix DEF PathInv
      <4>3. ASSUME j \in todo, j # i PROVE FALSE
        <5>1. j \in todo' \cap Of(p)
          BY <1>1, <4>3
        <5>2. \A m \in Behind(p)', n \in todo' \cap Of(p) : m < n
          BY <1>1, <1>2 DEF OrderInv
        <5>3. k < j
          BY <2>2, <5>1, <5>2
        <5>. QED
          BY <3>1, <4>1, <5>3
      <4>. QED
        BY <4>2, <4>3 DEF Behind
    <3>. QED
      BY <3>2, <3>3
  <2>6. \A k \in B, j \in Of(p) \ B : k < j
    <3>. TAKE k \in B, j \in Of(p) \ B
    <3>1. j \in Nat /\ k \in Nat
      BY <2>3, OfItems
    <3>. QED
      BY <2>5, <3>1
  <2>7. ASSUME NEW j \in Of(p) \ B PROVE Spoken(j)' => Later(j)'
    <3>1. j # i /\ i < j /\ j \in Nat /\ j \in Items /\ PaperOf[j] = p
      BY <2>3, <2>6, OfItems
    <3>2. Spoken(j)' => Later(j)
      BY <1>3, <2>1, <3>1 DEF Spoken
    <3>3. ASSUME Later(j) PROVE Later(j)'
      <4>1. PICK m \in Of(p) : j < m /\ ~Settled(m)
        BY <3>1, <3>3 DEF Later
      <4>2. m # i /\ m \in Items
        BY <1>6, <3>1, <4>1, OfItems
      <4>3. ~Settled(m)'
        BY <1>3, <4>1, <4>2 DEF Settled
      <4>. QED
        BY <3>1, <4>1, <4>3 DEF Later
    <3>. QED
      BY <3>2, <3>3
  <2>8. ASSUME NEW k \in B PROVE Settled(k)' /\ (Spoken(k)' => Agrees(Table, k)')
    <3>1. Settled(k)' /\ (Spoken(k)' => Says(reading[k])) /\ k \in Items /\ PaperOf[k] = p
      BY <2>3, <2>4, OfItems DEF Settled, Spoken
    <3>2. ASSUME Agrees(reading, k) PROVE Agrees(Table', k)
      <4>1. \A j \in Of(PaperOf[k]) : j <= k => reading[j] = Table'[j]
        BY <2>3, <2>4, <2>5, <3>1 DEF Table
      <4>. QED
        BY <3>1, <3>2, <4>1, AgreesSame
    <3>3. Agrees(Table', k) => Agrees(Table, k)'
      BY DEF Agrees
    <3>. QED
      BY <2>1, <2>3, <3>1, <3>2, <3>3
  <2>9. Firm(p)' \/ Loose(p)'
    <3>. HIDE DEF B
    <3>. QED
      BY <1>6, <1>8, <2>3, <2>6, <2>7, <2>8, HalfWritten
  <2>10. ~\E call \in heard' : call.on \cap Of(p) # {}
    BY <1>1, <1>6, <1>8 DEF PathInv, OrderInv
  <2>. QED
    BY <2>1, <2>2, <2>4, <2>7, <2>9, <2>10
<1>9. \A p \in Grouped :
          /\ Firm(p)' \/ Loose(p)'
          /\ (\E call \in heard' : call.on \cap Of(p) # {}) => Loose(p)'
          /\ todo' \cap Of(p) # {} =>
                /\ \A j \in Behind(p)' : rows'[j].status = "done" /\ rows'[j].payload = reading[j]
                /\ \A j \in Of(p) \ Behind(p)' : Spoken(j)' => Later(j)'
                /\ \A j \in Asked(p) : Says(reading[j]) => Agrees(reading, j)
  BY <1>7, <1>8
<1>10. LooseInv'
  BY <1>1, <1>9 DEF LooseInv
<1>11. TailInv'
  <2>1. \A p : Asked(p)' = Asked(p)
    BY <1>1 DEF Asked
  <2>2. \A j \in Items : Says(reading'[j]) => reading'[j].text.inv = reading'[j].inv
    BY <1>1 DEF PathInv, TailInv
  <2>3. \A p \in Grouped : \A j \in Asked(p) : Agrees(reading, j) => Agrees(reading, j)'
    BY <1>1 DEF Agrees
  <2>. QED
    BY <1>1, <1>9, <2>1, <2>2, <2>3 DEF TailInv
<1>. QED
  BY <1>2, <1>5, <1>10, <1>11 DEF PathInv

LEMMA PathInit == Init => PathInv
<1>. SUFFICES ASSUME Init PROVE PathInv
  OBVIOUS
<1>1. TypeInv
  BY InitType
<1>2. OrderInv
  BY DEF Init, OrderInv, KeepsOrder
<1>3. \A i \in Items : ~Spoken(i)
  BY DEF Init, NoRow, Spoken, Says, Is
<1>4. SpokenInv /\ TailInv
  BY <1>3 DEF Init, SpokenInv, TailInv
<1>5. \A p : Of(p) \subseteq Items
  BY OfItems
<1>6. LooseInv
  BY <1>3, <1>5 DEF Init, LooseInv, Loose
<1>. QED
  BY <1>1, <1>2, <1>4, <1>6 DEF PathInv

LEMMA PathNext == ASSUME ScriptKeepsOrder, PathInv, [Next]_vars PROVE PathInv'
<1>. TypeInv'
  BY TypeNext DEF PathInv
<1>1. CASE Idle
  BY <1>1, IdlePath
<1>2. CASE Pass1
  BY <1>2, Pass1Path
<1>3. CASE Pass2
  BY <1>3, Pass2Path
<1>4. CASE \E p \in Papers : FetchText(p) \/ MarkSent(p)
  BY <1>4, FetchTextPath, MarkSentPath
<1>5. CASE \E p \in Papers : ReadTexts(p)
  BY <1>5 DEF ReadTexts, PathInv, OrderInv
<1>6. CASE \E i \in Items : SaveNoOcr(i) \/ StoreText(i) \/ Drop(i) \/ Mark(i) \/ SaveReading(i)
  BY <1>6, SaveNoOcrPath, StoreTextPath, DropPath, MarkPath, SaveReadingPath
<1>7. CASE \E call \in heard : TakeReply(call)
  BY <1>7, TakeReplyPath
<1>8. CASE UserStep
  BY <1>8, UserStepKeeps, StartCommandPath
<1>9. CASE UNCHANGED vars
  <2>. SUFFICES ASSUME UNCHANGED vars PROVE PathInv'
    BY <1>9
  <2>1. UNCHANGED <<rows, ocr, pc, mode, scope, calls, heard, todo, toMark, reading, inv>>
    BY DEF vars
  <2>2. OrderInv'
    BY <2>1 DEF PathInv, OrderInv, KeepsOrder, Behind, Asked
  <2>3. SpokenInv'
    BY <2>1 DEF PathInv, SpokenInv, Spoken
  <2>4. /\ \A i : (Spoken(i)' <=> Spoken(i)) /\ (Later(i)' <=> Later(i))
        /\ \A p : (Loose(p)' <=> Loose(p)) /\ Behind(p)' = Behind(p) /\ Asked(p)' = Asked(p)
    BY <2>1 DEF Spoken, Later, Settled, Loose, Behind, Asked
  <2>5. \A p \in Grouped : Firm(p) => Firm(p)'
    BY <2>1, SamePaper DEF Grouped, Settled
  <2>6. LooseInv'
    BY <2>1, <2>4, <2>5 DEF PathInv, LooseInv
  <2>7. \A i : Agrees(reading, i)' <=> Agrees(reading, i)
    BY <2>1 DEF Agrees
  <2>8. TailInv'
    BY <2>1, <2>4, <2>7 DEF PathInv, TailInv
  <2>. QED
    BY <2>2, <2>3, <2>6, <2>8 DEF PathInv
<1>. QED
  BY <1>1, <1>2, <1>3, <1>4, <1>5, <1>6, <1>7, <1>8, <1>9 DEF Next, ProgramStep, Idle

\* What is said of a settled paper agrees with what is said before it.
LEMMA SettledAgrees ==
    ASSUME PathInv, NEW p \in SettledPapers, NEW i \in Of(p), Spoken(i)
    PROVE  Agrees(Table, i)
<1>1. p \in Grouped /\ \A j \in Of(p) : Settled(j)
  BY DEF SettledPapers, Grouped, Of
<1>2. ~Later(i)
  BY <1>1, OfItems DEF Later
<1>. QED
  BY <1>1, <1>2 DEF PathInv, LooseInv, Firm, Loose

LEMMA PathInvKeepsPath == PathInv => PathIsKept
<1>. SUFFICES ASSUME PathInv, NEW p \in SettledPapers, NEW i \in Of(p)
              PROVE  /\ \A g \in Of(p) :
                           (g \in Gates /\ g < i /\ Answered(g) /\ rows[g].payload.value \in Failing)
                               => ~Answered(i)
                     /\ rows[i].payload.verdict = "not_applicable" =>
                           \E j \in Of(p) :
                               /\ j < i
                               /\ j \in Gates \/ \E need \in Needs[i] : need[1] = j
                               /\ \/ rows[j].payload.verdict = "damaged"
                                  \/ /\ Answered(j)
                                     /\ \/ j \in Gates /\ rows[j].payload.value \in Failing
                                        \/ \E need \in Needs[i] :
                                              need[1] = j /\ rows[j].payload.value \notin need[2]
  BY DEF PathIsKept, ExclusionIsFollowed, NotApplicableForReason, Of
<1>1. i \in Items /\ PaperOf[i] = p /\ Of(p) \subseteq Items
  BY OfItems
<1>2. \A j \in Of(p) : /\ Table[j] = rows[j].payload
                       /\ Sure(Table[j]) <=> Answered(j)
  BY <1>1 DEF Table, Sure, Is, Answered, ByArbitrate
<1>3. ASSUME NEW g \in Of(p), g \in Gates, g < i, Answered(g), rows[g].payload.value \in Failing,
             Answered(i)
      PROVE  FALSE
  <2>1. Spoken(i) /\ Is(Table[i], "ok")
    BY <1>2, <1>3 DEF Answered, ByArbitrate, Spoken, Says, Is
  <2>2. Agrees(Table, i)
    BY <2>1, SettledAgrees
  <2>. QED
    BY <1>1, <1>2, <1>3, <2>1, <2>2 DEF Agrees
<1>4. ASSUME rows[i].payload.verdict = "not_applicable"
      PROVE  \E j \in Of(p) :
                /\ j < i
                /\ j \in Gates \/ \E need \in Needs[i] : need[1] = j
                /\ \/ rows[j].payload.verdict = "damaged"
                   \/ /\ Answered(j)
                      /\ \/ j \in Gates /\ rows[j].payload.value \in Failing
                         \/ \E need \in Needs[i] :
                               need[1] = j /\ rows[j].payload.value \notin need[2]
  <2>1. rows[i].payload # NoPayload
    BY <1>1 DEF SettledPapers, Of, Settled, PathInv, TypeInv, StoreInv, RowOK
  <2>2. Spoken(i) /\ Is(Table[i], "not_applicable")
    BY <1>2, <1>4, <2>1 DEF Spoken, Says, Is
  <2>3. Agrees(Table, i)
    BY <2>2, SettledAgrees
  <2>4. PICK j \in Of(p) :
            /\ j < i
            /\ j \in Gates \/ \E need \in Needs[i] : need[1] = j
            /\ \/ Is(Table[j], "damaged")
               \/ /\ Sure(Table[j])
                  /\ \/ j \in Gates /\ Table[j].value \in Failing
                     \/ \E need \in Needs[i] : need[1] = j /\ Table[j].value \notin need[2]
    BY <1>1, <2>2, <2>3 DEF Agrees
  <2>5. Table[j] = rows[j].payload /\ (Sure(Table[j]) <=> Answered(j))
    BY <1>2
  <2>. QED
    BY <2>4, <2>5 DEF Is
<1>. QED
  BY <1>3, <1>4

\* A settled paper follows the path of the study, though its rows come from several
\* commands that were killed or failed half-way: an item is answered only if no
\* gate before it fails, and passed over only for a reason that stands in the
\* table (arbitrate_orchestrator.py:140-180).
THEOREM ArbitrationKeepsPath == ASSUME ScriptKeepsOrder PROVE Spec => []PathIsKept
<1>1. PathInv /\ [Next]_vars => PathInv'
  BY PathNext
<1>. QED
  BY <1>1, PathInit, PathInvKeepsPath, PTL DEF Spec
=============================================================================
