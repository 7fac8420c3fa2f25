-------------------------- MODULE EarlyExitProofs --------------------------
(***************************************************************************)
(* Theorems about EarlyExit for every number of papers, questions and      *)
(* rounds, every set of gates and conditions and every bound.              *)
(***************************************************************************)
EXTENDS EarlyExit, WellFoundedInduction, TLAPS

---------------------------------------------------------------------------
(* Types.                                                                  *)

USE DEF local, bounds

LEMMA ConstantTypes ==
    /\ NPapers \in Nat \ {0} /\ NQuestions \in Nat \ {0} /\ NRounds \in Nat \ {0}
    /\ NRounds > 1 /\ 1 \in Rounds
    /\ \A q \in Questions : RoundOf[q] \in Rounds
    /\ NoRow \in Row
    /\ \A r : Group(r) \subseteq Questions
BY CountsAreNat, ManyRounds, RoundsAreKnown DEF Rounds, NoRow, Row, Group

\* Also the reply in hand has values for answers that are "ok" only.
TypeInv ==
    /\ TypeOK
    /\ \A q \in Questions : results[q].value # NoValue => results[q].answer = "ok"

\* Whatever a reply says, what is stored of it is an answer.
LEMMA ScopedType ==
    ASSUME NEW r \in Rounds, NEW items \in [Group(r) -> Items], NEW q \in Group(r)
    PROVE  /\ Scoped(items)[q] \in Row
           /\ Scoped(items)[q].status = "done"
           /\ Scoped(items)[q].value # NoValue => Scoped(items)[q].answer = "ok"
<1>1. DOMAIN items = Group(r) /\ items[q] \in Items
  OBVIOUS
<1>2. items[q].status \in {"ok", "absent", "unmappable"}
      /\ (items[q].status = "ok" => items[q].value \in Values)
  BY <1>1 DEF Items
<1>3. \/ Scoped(items)[q] = Done("skipped", NoValue)
      \/ Scoped(items)[q] = Done("error", NoValue)
      \/ Scoped(items)[q] = Done("invalid", NoValue)
      \/ items[q].status = "ok" /\ Scoped(items)[q] = Done("ok", items[q].value)
  BY <1>1, <1>2 DEF Scoped
<1>. QED
  BY <1>2, <1>3 DEF Done, Row

LEMMA InitType == Init => TypeInv
<1>. SUFFICES ASSUME Init PROVE TypeInv
  OBVIOUS
<1>1. rows \in [Cells -> Row] /\ \A c \in Cells : rows[c] = NoRow
  BY ConstantTypes DEF Init
<1>2. results \in [Questions -> Row] /\ \A q \in Questions : results[q] = NoRow
  BY ConstantTypes DEF Init, NoResults
<1>3. NoRow.value = NoValue
  BY DEF NoRow
<1>4. pc = "idle" /\ round \in Rounds /\ verdict = "none" /\ inv \in Nat /\ mishaps \in Nat
  BY ConstantTypes DEF Init
<1>. QED
  BY <1>1, <1>2, <1>3, <1>4 DEF Init, TypeInv, TypeOK

LEMMA EndType ==
    ASSUME TypeInv, NEW how \in {"succeeded", "failed", "parked", "crashed"}, EndProcess(how),
           rows' = rows, inv' = inv, mishaps' \in Nat
    PROVE  TypeInv'
BY ConstantTypes DEF TypeInv, TypeOK, EndProcess, NoResults, NoRow

LEMMA MishapType ==
    ASSUME TypeInv, NEW b \in BOOLEAN, Mishap(b)
    PROVE  mishaps' \in Nat
BY DEF TypeInv, TypeOK, Mishap

LEMMA WriteType ==
    ASSUME TypeInv, NEW c \in Cells, SaveSkip(c) \/ Drop(c) \/ MarkFailed(c) \/ SaveReply(c)
    PROVE  TypeInv'
<1>1. CASE SaveSkip(c)
  <2>1. Done("skipped", NoValue) \in Row
    BY DEF Done, Row
  <2>. QED
    BY <1>1, <2>1 DEF SaveSkip, TypeInv, TypeOK, Done
<1>2. CASE Drop(c)
  <2>1. Done("error", NoValue) \in Row
    BY DEF Done, Row
  <2>. QED
    BY <1>2, <2>1 DEF Drop, TypeInv, TypeOK, Done
<1>3. CASE MarkFailed(c)
  <2>1. [rows[c] EXCEPT !.status = "failed"] \in Row
    BY DEF TypeInv, TypeOK, Row
  <2>. QED
    BY <1>3, <2>1 DEF MarkFailed, TypeInv, TypeOK, Row
<1>4. CASE SaveReply(c)
  <2>1. c[2] \in Questions
    BY DEF Cells
  <2>. QED
    BY <1>4, <2>1, ConstantTypes DEF SaveReply, TypeInv, TypeOK, NoRow
<1>. QED
  BY <1>1, <1>2, <1>3, <1>4

LEMMA CallType ==
    ASSUME TypeInv, Pass1 \/ Pass1Aborts \/ Pass2
    PROVE  TypeInv'
<1>1. \A S \in SUBSET Papers : CellsOf(S) \subseteq Cells
  BY ConstantTypes DEF CellsOf, Cells
<1>2. CASE Pass1
  <2>1. PICK ok \in SUBSET pending :
            /\ Mishap(ok # pending) /\ replied' = ok /\ todo' = CellsOf(pending \ ok)
            /\ lost' \in IF BatchP1 THEN SUBSET (pending \ ok) ELSE {{}}
    BY <1>2 DEF Pass1
  <2>2. mishaps' \in Nat
    BY <2>1, MishapType
  <2>3. lost' \subseteq Papers /\ replied' \subseteq Papers /\ todo' \subseteq Cells
    BY <1>1, <2>1 DEF TypeInv, TypeOK
  <2>. QED
    BY <1>2, <2>2, <2>3 DEF Pass1, TypeInv, TypeOK
<1>3. CASE Pass1Aborts
  <2>1. mishaps' \in Nat
    BY <1>3, MishapType DEF Pass1Aborts
  <2>2. todo' \subseteq Cells
    BY <1>1, <1>3 DEF Pass1Aborts, TypeInv, TypeOK
  <2>. QED
    BY <1>3, <2>1, <2>2 DEF Pass1Aborts, TypeInv, TypeOK
<1>4. CASE Pass2
  <2>1. PICK ok \in SUBSET replied : \E errors \in SUBSET (replied \ ok) :
            Mishap(ok # replied) /\ replied' = ok /\ todo' = CellsOf(errors)
    BY <1>4 DEF Pass2
  <2>2. mishaps' \in Nat
    BY <2>1, MishapType
  <2>3. replied' \subseteq Papers /\ todo' \subseteq Cells
    BY <1>1, <2>1 DEF TypeInv, TypeOK
  <2>. QED
    BY <1>4, <2>2, <2>3 DEF Pass2, TypeInv, TypeOK
<1>. QED
  BY <1>2, <1>3, <1>4

\* What is in hand of the reply for the other questions, and for its own.
LEMMA TakenType ==
    ASSUME TypeInv, NEW p \in Papers, TakeReply(p)
    PROVE  /\ results' \in [Questions -> Row]
           /\ \A q \in Questions : results'[q].value # NoValue => results'[q].answer = "ok"
           /\ \A q \in Group(round) : results'[q].status = "done"
<1>1. round \in Rounds
  BY DEF TypeInv, TypeOK
<1>2. CASE \E items \in [Group(round) -> Items] :
              results' = [q \in Questions |-> IF q \in Group(round) THEN Scoped(items)[q] ELSE NoRow]
  <2>1. PICK items \in [Group(round) -> Items] :
              results' = [q \in Questions |-> IF q \in Group(round) THEN Scoped(items)[q] ELSE NoRow]
    BY <1>2
  <2>2. \A q \in Group(round) :
            /\ Scoped(items)[q] \in Row /\ Scoped(items)[q].status = "done"
            /\ Scoped(items)[q].value # NoValue => Scoped(items)[q].answer = "ok"
    BY <1>1, ScopedType
  <2>. QED
    BY <2>1, <2>2, ConstantTypes DEF NoRow
<1>3. CASE results' = [q \in Questions |-> IF q \in Group(round) THEN Done("error", NoValue) ELSE NoRow]
  <2>1. Done("error", NoValue) \in Row
    BY DEF Done, Row
  <2>. QED
    BY <1>3, <2>1, ConstantTypes DEF Done, NoRow
<1>. QED
  BY <1>2, <1>3 DEF TakeReply

LEMMA TakeType ==
    ASSUME TypeInv, NEW p \in Papers, TakeReply(p)
    PROVE  TypeInv'
<1>1. CellsOf({p}) \subseteq Cells
  BY ConstantTypes DEF CellsOf, Cells
<1>2. excluded' \subseteq Papers
  BY DEF TakeReply, TypeInv, TypeOK
<1>3. trouble' \in BOOLEAN
  BY FlagsAreBool DEF TakeReply, TypeInv, TypeOK
<1>4. results' \in [Questions -> Row]
      /\ \A q \in Questions : results'[q].value # NoValue => results'[q].answer = "ok"
  BY TakenType
<1>5. /\ replied' = replied \ {p} /\ todo' = CellsOf({p})
      /\ UNCHANGED <<rows, pc, round, pending, toMark, lost, verdict, inv, mishaps>>
  BY DEF TakeReply
<1>. QED
  BY <1>1, <1>2, <1>3, <1>4, <1>5 DEF TypeInv, TypeOK

LEMMA TypeStep ==
    ASSUME TypeInv, [Next]_vars
    PROVE  TypeInv'
<1>1. CASE StartRun
  BY <1>1 DEF StartRun, TypeInv, TypeOK
<1>2. CASE ListPending
  BY <1>2 DEF ListPending, TypeInv, TypeOK
<1>3. CASE Park
  <2>1. mishaps' \in Nat
    BY <1>3, MishapType DEF Park
  <2>. QED
    BY <1>3, <2>1, EndType DEF Park
<1>4. CASE BeginTail
  BY <1>4 DEF BeginTail, TypeInv, TypeOK
<1>5. CASE NextRound
  <2>1. round + 1 \in Rounds
    BY <1>5, CountsAreNat DEF NextRound, TypeInv, TypeOK, Rounds
  <2>2. excluded \X Group(round + 1) \subseteq Cells
    BY ConstantTypes DEF TypeInv, TypeOK, Cells
  <2>. QED
    BY <1>5, <2>1, <2>2 DEF NextRound, TypeInv, TypeOK
<1>6. CASE Finish
  BY <1>6, EndType DEF Finish, TypeInv, TypeOK
<1>7. CASE Crash
  <2>1. mishaps' \in Nat
    BY <1>7, MishapType DEF Crash
  <2>. QED
    BY <1>7, <2>1, EndType DEF Crash
<1>8. CASE UNCHANGED vars
  BY <1>8 DEF vars, TypeInv, TypeOK
<1>. QED
  BY <1>1, <1>2, <1>3, <1>4, <1>5, <1>6, <1>7, <1>8, CallType, WriteType, TakeType
     DEF Next, ProgramStep, WriteStep

\* The table and the process always have their types, and only an answer that
\* is "ok" has a value.
THEOREM EarlyExitTypeCorrect == Spec => []TypeOK
<1>1. Init => TypeInv
  BY InitType
<1>2. TypeInv /\ [Next]_vars => TypeInv'
  BY TypeStep
<1>3. TypeInv => TypeOK
  BY DEF TypeInv
<1>. QED
  BY <1>1, <1>2, <1>3, PTL DEF Spec

---------------------------------------------------------------------------
(* What is out of scope, question by question.                             *)

\* A set of numbers has a smallest, since there is no infinite way down.
LEMMA SmallestOf ==
    ASSUME NEW S, S \subseteq Nat, S # {}
    PROVE  \E n \in S : \A m \in S : n <= m
<1>. DEFINE R == {ss \in Nat \X Nat : ss[1] < ss[2]}
<1>1. IsWellFoundedOn(R, Nat)
  BY NatLessThanWellFounded DEF OpToRel
<1>2. PICK n \in S : \A m \in S : ~(<<m, n>> \in R)
  <2>. HIDE DEF R
  <2>. QED
    BY <1>1, WFMin
<1>3. \A m \in S : ~(m < n)
  BY <1>2
<1>. QED
  BY <1>3

\* A question does not apply, given which of those before it do not.
LacksIn(items, out, q) ==
    \E need \in Needs[q] :
        /\ need[1] \in DOMAIN items /\ need[1] < q
        /\ items[need[1]].status = "ok" /\ ~out[need[1]]
        /\ items[need[1]].value \notin need[2]

\* Going down the questions ends: Inactive is what its definition says.
LEMMA InactiveIsWalk ==
    ASSUME NEW items, DOMAIN items \subseteq Questions
    PROVE  \A q \in DOMAIN items :
              q \in Inactive(items) <=>
                  \E need \in Needs[q] :
                      /\ need[1] \in DOMAIN items /\ need[1] < q
                      /\ items[need[1]].status = "ok" /\ need[1] \notin Inactive(items)
                      /\ items[need[1]].value \notin need[2]
<1>. DEFINE Upto(n) == {q \in DOMAIN items : q <= n}
            Walked(n) == \E out : out = [q \in Upto(n) |-> LacksIn(items, out, q)]
            Stuck == {n \in Nat : ~Walked(n)}
<1>1. Walked(0)
  <2>. DEFINE out0 == [q \in {} |-> FALSE]
  <2>1. Upto(0) = {}
    BY DEF Questions
  <2>2. out0 = [q \in Upto(0) |-> LacksIn(items, out0, q)]
    BY <2>1
  <2>. QED
    BY <2>2
<1>2. ASSUME NEW n \in Nat, Walked(n) PROVE Walked(n + 1)
  <2>1. PICK out0 : out0 = [q \in Upto(n) |-> LacksIn(items, out0, q)]
    BY <1>2
  <2>. DEFINE out1 == [q \in Upto(n + 1) |-> LacksIn(items, out0, q)]
  <2>2. \A q \in Upto(n + 1) : q \in Questions /\ q \in Nat /\ (q # n + 1 => q \in Upto(n))
    BY DEF Questions
  <2>3. \A q \in Upto(n + 1), g \in DOMAIN items : g < q => g \in Upto(n) /\ g \in Upto(n + 1)
    BY <2>2 DEF Questions
  <2>4. \A q \in Upto(n + 1), g \in DOMAIN items : g < q => out1[g] = out0[g]
    <3>. SUFFICES ASSUME NEW q \in Upto(n + 1), NEW g \in DOMAIN items, g < q
                  PROVE  out1[g] = out0[g]
      OBVIOUS
    <3>1. g \in Upto(n) /\ g \in Upto(n + 1)
      BY <2>3
    <3>. HIDE DEF Upto
    <3>2. out1[g] = LacksIn(items, out0, g)
      BY <3>1
    <3>3. out0[g] = LacksIn(items, out0, g)
      BY <2>1, <3>1
    <3>. QED
      BY <3>2, <3>3
  <2>5. ASSUME NEW q \in Upto(n + 1) PROVE LacksIn(items, out1, q) <=> LacksIn(items, out0, q)
    <3>. HIDE DEF out1
    <3>. QED
      BY <2>4 DEF LacksIn
  <2>6. out1 = [q \in Upto(n + 1) |-> LacksIn(items, out1, q)]
    <3>1. \A q \in Upto(n + 1) : LacksIn(items, out1, q) = LacksIn(items, out0, q)
      BY <2>5 DEF LacksIn
    <3>. QED
      BY <3>1, Zenon
  <2>. HIDE DEF out1
  <2>. QED
    BY <2>6
<1>3. Stuck = {}
  <2>1. SUFFICES ASSUME Stuck # {} PROVE FALSE
    OBVIOUS
  <2>2. PICK n \in Stuck : \A m \in Stuck : n <= m
    <3>. HIDE DEF Stuck
    <3>1. Stuck \subseteq Nat
      BY DEF Stuck
    <3>. QED
      BY <2>1, <3>1, SmallestOf
  <2>. HIDE DEF Walked
  <2>3. n \in Nat /\ n # 0
    BY <1>1
  <2>4. Walked(n - 1)
    BY <2>2, <2>3
  <2>5. Walked(n)
    BY <1>2, <2>3, <2>4
  <2>. QED
    BY <2>5
<1>4. Walked(NQuestions)
  <2>. HIDE DEF Walked
  <2>. QED
    BY <1>3, ConstantTypes
<1>5. Upto(NQuestions) = DOMAIN items
  BY DEF Questions
<1>6. \E out : out = [q \in DOMAIN items |-> LacksIn(items, out, q)]
  BY <1>4, <1>5
<1>. DEFINE walk == CHOOSE out : out = [q \in DOMAIN items |->
                        \E need \in Needs[q] :
                            /\ need[1] \in DOMAIN items /\ need[1] < q
                            /\ items[need[1]].status = "ok" /\ ~out[need[1]]
                            /\ items[need[1]].value \notin need[2]]
<1>7. Inactive(items) = {q \in DOMAIN items : walk[q]}
  BY Zenon DEF Inactive
<1>8. walk = [q \in DOMAIN items |-> LacksIn(items, walk, q)]
  BY <1>6, Zenon DEF LacksIn
<1>. HIDE DEF walk
<1>9. \A q \in DOMAIN items : walk[q] <=> LacksIn(items, walk, q)
  BY <1>8, Zenon
<1>10. \A q \in DOMAIN items : q \in Inactive(items) <=> walk[q]
  BY <1>7
<1>. QED
  BY <1>9, <1>10 DEF LacksIn

\* Items of a reply, as far as scope looks at them.
LEMMA ItemType ==
    ASSUME NEW r \in Rounds, NEW items \in [Group(r) -> Items], NEW q \in Group(r)
    PROVE  /\ items[q].status \in {"ok", "absent", "unmappable"}
           /\ items[q].status = "ok" => items[q].value \in Values
           /\ items[q].broken \in BOOLEAN
           /\ ~BrokenItems => ~items[q].broken
           /\ q \in Questions /\ q \in Nat
<1>1. items[q] \in Items
  OBVIOUS
<1>2. BrokenItems \in BOOLEAN
  BY FlagsAreBool
<1>3. q \in Questions /\ q \in Nat
  BY ConstantTypes DEF Group, Questions
<1>. QED
  BY <1>1, <1>2, <1>3 DEF Items

\* Only an answer in scope is stored with its value.
LEMMA ScopedCases ==
    ASSUME NEW r \in Rounds, NEW items \in [Group(r) -> Items], NEW q \in Group(r)
    PROVE  /\ q \in OutOfScope(items) \union Inactive(items)
                => Scoped(items)[q] = Done("skipped", NoValue)
           /\ Scoped(items)[q].answer = "skipped"
                => q \in OutOfScope(items) \union Inactive(items)
           /\ Scoped(items)[q].value # NoValue
                => /\ items[q].status = "ok" /\ Scoped(items)[q].value = items[q].value
                   /\ q \notin OutOfScope(items) \union Inactive(items)
           /\ (items[q].status = "ok" /\ ~items[q].broken
                  /\ q \notin OutOfScope(items) \union Inactive(items))
                => Scoped(items)[q].value = items[q].value
<1>1. DOMAIN items = Group(r)
  OBVIOUS
<1>2. items[q].status \in {"ok", "absent", "unmappable"}
  BY ItemType
<1>. QED
  BY <1>1, <1>2 DEF Scoped, Done

\* A gate that fails is stored, or there is an earlier one that fails and is.
LEMMA FailureIsStored ==
    ASSUME ~BrokenItems, NEW r \in Rounds, NEW items \in [Group(r) -> Items],
           NEW f \in FailedGates(items)
    PROVE  \E g \in Gates \cap Group(r) : g <= f /\ Scoped(items)[g].value \in Failing
<1>1. FailedGates(items) \subseteq Gates \cap Group(r) /\ Group(r) \subseteq Nat
  <2>1. Group(r) \subseteq Nat
    BY ConstantTypes DEF Questions
  <2>2. DOMAIN items = Group(r)
    OBVIOUS
  <2>. QED
    BY <2>1, <2>2 DEF FailedGates
<1>2. PICK g \in FailedGates(items) : \A h \in FailedGates(items) : g <= h
  BY <1>1, SmallestOf
<1>3. g \notin OutOfScope(items)
  <2>1. \A h \in FailedGates(items) : ~(h < g)
    BY <1>1, <1>2
  <2>. QED
    BY <2>1 DEF OutOfScope
<1>4. g \notin Inactive(items) /\ items[g].status = "ok" /\ items[g].value \in Failing
  BY DEF FailedGates
<1>5. ~items[g].broken
  BY <1>1, ItemType
<1>6. Scoped(items)[g].value = items[g].value
  BY <1>1, <1>3, <1>4, <1>5, ScopedCases
<1>. QED
  BY <1>1, <1>2, <1>4, <1>6

LEMMA StoredFailure ==
    ASSUME NEW r \in Rounds, NEW items \in [Group(r) -> Items], NEW g \in Gates \cap Group(r),
           Scoped(items)[g].value \in Failing
    PROVE  g \in FailedGates(items)
<1>1. Scoped(items)[g].value # NoValue
  BY FailingAreValues, NoValueIsNone
<1>2. items[g].status = "ok" /\ Scoped(items)[g].value = items[g].value /\ g \notin Inactive(items)
  BY <1>1, ScopedCases
<1>3. DOMAIN items = Group(r)
  OBVIOUS
<1>. QED
  BY <1>2, <1>3 DEF FailedGates

\* The reason for what is stored, within the group, as function of what is stored.
StoredReason(items, r, q) ==
    \/ \E g \in Gates \cap Group(r) : g < q /\ Scoped(items)[g].value \in Failing
    \/ \E need \in Needs[q] :
          /\ need[1] < q /\ need[1] \in Group(r)
          /\ Scoped(items)[need[1]].value \notin need[2] \union {NoValue}

LEMMA SkippedIsStored ==
    ASSUME ~BrokenItems, NEW r \in Rounds, NEW items \in [Group(r) -> Items],
           NEW q \in Group(r), Scoped(items)[q].answer = "skipped"
    PROVE  StoredReason(items, r, q)
<1>1. DOMAIN items = Group(r) /\ Group(r) \subseteq Questions /\ Group(r) \subseteq Nat
  BY ConstantTypes DEF Questions
<1>2. ASSUME NEW s \in Group(r), s <= q, s \in OutOfScope(items) PROVE StoredReason(items, r, q)
  <2>1. PICK f \in FailedGates(items) : f < s
    BY <1>2 DEF OutOfScope
  <2>2. PICK g \in Gates \cap Group(r) : g <= f /\ Scoped(items)[g].value \in Failing
    BY FailureIsStored
  <2>3. f \in Nat
    BY <1>1 DEF FailedGates
  <2>4. g < q
    BY <1>1, <1>2, <2>1, <2>2, <2>3
  <2>. QED
    BY <2>2, <2>4 DEF StoredReason
<1>3. CASE q \in OutOfScope(items)
  BY <1>1, <1>2, <1>3
<1>4. CASE q \in Inactive(items)
  <2>1. PICK need \in Needs[q] :
            /\ need[1] \in Group(r) /\ need[1] < q
            /\ items[need[1]].status = "ok" /\ need[1] \notin Inactive(items)
            /\ items[need[1]].value \notin need[2]
    BY <1>1, <1>4, InactiveIsWalk
  <2>2. CASE need[1] \in OutOfScope(items)
    BY <1>1, <1>2, <2>1, <2>2
  <2>3. CASE need[1] \notin OutOfScope(items)
    <3>1. ~items[need[1]].broken /\ items[need[1]].value \in Values
      BY <2>1, ItemType
    <3>2. Scoped(items)[need[1]].value = items[need[1]].value
      BY <2>1, <2>3, <3>1, ScopedCases
    <3>3. Scoped(items)[need[1]].value \notin need[2] \union {NoValue}
      BY <2>1, <3>1, <3>2, NoValueIsNone
    <3>. QED
      BY <2>1, <3>3 DEF StoredReason
  <2>. QED
    BY <2>2, <2>3
<1>. QED
  BY <1>3, <1>4, ScopedCases

LEMMA StoredIsSkipped ==
    ASSUME NEW r \in Rounds, NEW items \in [Group(r) -> Items], NEW q \in Group(r),
           StoredReason(items, r, q)
    PROVE  Scoped(items)[q].answer = "skipped"
<1>1. DOMAIN items = Group(r) /\ Group(r) \subseteq Questions
  BY ConstantTypes
<1>2. CASE \E g \in Gates \cap Group(r) : g < q /\ Scoped(items)[g].value \in Failing
  <2>1. \E g \in FailedGates(items) : g < q
    BY <1>2, StoredFailure
  <2>2. q \in OutOfScope(items)
    BY <1>1, <2>1 DEF OutOfScope
  <2>. QED
    BY <2>2, ScopedCases DEF Done
<1>3. CASE \E need \in Needs[q] :
              /\ need[1] < q /\ need[1] \in Group(r)
              /\ Scoped(items)[need[1]].value \notin need[2] \union {NoValue}
  <2>1. PICK need \in Needs[q] :
              /\ need[1] < q /\ need[1] \in Group(r)
              /\ Scoped(items)[need[1]].value \notin need[2] \union {NoValue}
    BY <1>3
  <2>2. /\ items[need[1]].status = "ok" /\ need[1] \notin Inactive(items)
        /\ items[need[1]].value \notin need[2]
    BY <2>1, ScopedCases
  <2>3. q \in Inactive(items)
    BY <1>1, <2>1, <2>2, InactiveIsWalk
  <2>. QED
    BY <2>3, ScopedCases DEF Done
<1>. QED
  BY <1>2, <1>3 DEF StoredReason

---------------------------------------------------------------------------
(* Where nothing failed.  The first run finds an empty table and fills it  *)
(* round by round; every later one finds it complete and leaves it.        *)

\* The table as it will be when the reply in hand is saved.
Ahead == [c \in Cells |-> IF pc = "tail" /\ c \in todo THEN results[c[2]] ELSE rows[c]]

GateBefore(table, p, q) == \E g \in Gates : g < q /\ table[<<p, g>>].value \in Failing

Lacks(table, p, q) ==
    \E need \in Needs[q] :
        /\ need[1] < q /\ RoundOf[need[1]] = RoundOf[q]
        /\ table[<<p, need[1]>>].value \notin need[2] \union {NoValue}

Answered(table, c) ==
    /\ table[c].status = "done"
    /\ GateBefore(table, c[1], c[2]) \/ Lacks(table, c[1], c[2]) => table[c].answer = "skipped"

\* The cells the first run has come to.
Reached(c) ==
    \/ RoundOf[c[2]] < round
    \/ /\ RoundOf[c[2]] = round
       /\ \/ pc = "skips" /\ c[1] \in excluded /\ c \notin todo
          \/ pc = "pass1" /\ c[1] \notin pending
          \/ pc \in {"drop1", "drop2", "tail"} /\ c[1] \notin replied

FirstRun ==
    /\ verdict # "succeeded"
    /\ pc \in {"idle", "skips", "pass1", "drop1", "drop2", "tail"}
    /\ toMark = {}
    /\ pc = "idle" => round = 1 /\ excluded = {} /\ replied = {}
    /\ pc = "skips" => todo \subseteq excluded \X Group(round)
    /\ pc = "tail" => \A c \in todo : RoundOf[c[2]] = round /\ c[1] \notin replied
    /\ pc = "tail" => \A c, d \in todo : c[1] = d[1]
    /\ pc \in {"pass1", "drop1", "drop2", "idle"} => todo = {}
    /\ pc \in {"pass1", "drop1"} => pending \cap excluded = {}
    /\ pc \in {"skips", "pass1"} => replied = {}
    /\ replied \cap excluded = {}
    /\ \A c \in Cells : Reached(c) => Answered(Ahead, c)
    /\ \A c \in Cells : ~Reached(c) => Ahead[c] = NoRow
    /\ \A p \in Papers, g \in Gates : Ahead[<<p, g>>].value \in Failing => p \in excluded

Settled ==
    /\ pc \in {"idle", "skips", "tail"}
    /\ excluded = {} /\ pending = {} /\ replied = {} /\ todo = {} /\ toMark = {}
    /\ \A c \in Cells : Answered(rows, c)

ScopeInv == TypeInv /\ (mishaps = 0 => FirstRun \/ Settled)

\* Groups follow the study order, as batching makes them unless it is told a list.
RoundsInOrder == \A q, d \in Questions : q < d => RoundOf[q] <= RoundOf[d]

\* Away from a reply in hand, what lies ahead is the table.
LEMMA AheadIsRows ==
    ASSUME TypeInv, pc # "tail" \/ todo = {}
    PROVE  Ahead = rows
BY DEF Ahead, TypeInv, TypeOK

LEMMA AheadStays ==
    ASSUME rows' = rows, pc # "tail" \/ todo = {}, pc' # "tail" \/ todo' = {}
    PROVE  Ahead' = Ahead
BY DEF Ahead

LEMMA NeedType ==
    ASSUME NEW q \in Questions, NEW need \in Needs[q]
    PROVE  need[1] \in Questions
<1>1. Needs[q] \in SUBSET (Questions \X SUBSET Values)
  BY NeedsAreConditions
<1>. QED
  BY <1>1

\* What a question is judged by are the values before it.
LEMMA AnsweredKept ==
    ASSUME NEW old, NEW new, NEW c \in Cells, Answered(old, c), new[c] = old[c],
           \A q \in Questions : q < c[2] => new[<<c[1], q>>].value = old[<<c[1], q>>].value
    PROVE  Answered(new, c)
<1>1. c[2] \in Questions
  BY DEF Cells
<1>2. GateBefore(new, c[1], c[2]) => GateBefore(old, c[1], c[2])
  BY GatesAreQuestions DEF GateBefore
<1>3. Lacks(new, c[1], c[2]) => Lacks(old, c[1], c[2])
  BY <1>1, NeedType DEF Lacks
<1>. QED
  BY <1>2, <1>3 DEF Answered

LEMMA AllAnswered ==
    ASSUME TypeInv, \A c \in Cells : Answered(rows, c)
    PROVE  OutOfScopeIsSkipped
<1>1. SUFFICES ASSUME NEW c \in Cells, Reason(c[1], c[2]) PROVE rows[c].answer = "skipped"
  BY DEF OutOfScopeIsSkipped
<1>2. GateBefore(rows, c[1], c[2]) \/ Lacks(rows, c[1], c[2])
  BY <1>1 DEF Reason, FailsAGateBefore, LacksACondition, GateBefore, Lacks
<1>. QED
  BY <1>2 DEF Answered

\* The part of FirstRun that is about the table.
TableFilled ==
    /\ \A c \in Cells : Reached(c) => Answered(Ahead, c)
    /\ \A c \in Cells : ~Reached(c) => Ahead[c] = NoRow
    /\ \A p \in Papers, g \in Gates : Ahead[<<p, g>>].value \in Failing => p \in excluded

LEMMA FilledStays ==
    ASSUME TableFilled, Ahead' = Ahead, excluded' = excluded,
           \A c \in Cells : Reached(c)' <=> Reached(c)
    PROVE  TableFilled'
BY DEF TableFilled, Answered, GateBefore, Lacks

LEMMA FirstStart ==
    ASSUME TypeInv, FirstRun, StartRun
    PROVE  FirstRun'
<1>1. Ahead' = Ahead
  BY AheadStays DEF StartRun
<1>2. \A c \in Cells : Reached(c)' <=> Reached(c)
  BY DEF Reached, StartRun, FirstRun
<1>3. TableFilled'
  BY <1>1, <1>2, FilledStays DEF StartRun, FirstRun, TableFilled
<1>. QED
  BY <1>3 DEF StartRun, FirstRun, TableFilled

LEMMA FirstSkip ==
    ASSUME TypeInv, FirstRun, NEW c \in Cells, SaveSkip(c)
    PROVE  FirstRun'
<1>1. /\ c \in todo /\ c[1] \in excluded /\ RoundOf[c[2]] = round
      /\ c[1] \in Papers /\ c[2] \in Questions
  BY DEF SaveSkip, IsFirst, FirstRun, Group, Cells
<1>2. Ahead = rows /\ Ahead' = [rows EXCEPT ![c] = Done("skipped", NoValue)]
  BY AheadIsRows DEF SaveSkip, Ahead, TypeInv, TypeOK
<1>3. rows \in [Cells -> Row] /\ rows[c] = NoRow
  BY <1>1, <1>2, ConstantTypes DEF FirstRun, Reached, SaveSkip, TypeInv, TypeOK, Rounds
<1>4. \A d \in Cells : Ahead'[d].value = Ahead[d].value /\ (d # c => Ahead'[d] = Ahead[d])
  BY <1>2, <1>3 DEF Done, NoRow
<1>5. \A d \in Cells : Reached(d)' <=> Reached(d) \/ d = c
  BY <1>1 DEF Reached, SaveSkip, FirstRun
<1>6. Answered(Ahead', c)
  BY <1>2, <1>3 DEF Answered, Done
<1>7. ASSUME NEW d \in Cells, Reached(d), d # c PROVE Answered(Ahead', d)
  <2>1. Answered(Ahead, d) /\ Ahead'[d] = Ahead[d]
    BY <1>4, <1>7 DEF FirstRun
  <2>2. \A q \in Questions : Ahead'[<<d[1], q>>].value = Ahead[<<d[1], q>>].value
    BY <1>4 DEF Cells
  <2>. QED
    BY <2>1, <2>2, AnsweredKept
<1>8. TableFilled'
  <2>1. \A d \in Cells : Reached(d)' => Answered(Ahead, d)'
    BY <1>5, <1>6, <1>7 DEF Answered, GateBefore, Lacks
  <2>2. \A d \in Cells : ~Reached(d)' => Ahead'[d] = NoRow
    BY <1>4, <1>5 DEF FirstRun
  <2>3. \A p \in Papers, g \in Gates : Ahead'[<<p, g>>].value \in Failing => p \in excluded'
    BY <1>4, GatesAreQuestions DEF FirstRun, SaveSkip, Cells
  <2>. QED
    BY <2>1, <2>2, <2>3 DEF TableFilled
<1>. QED
  BY <1>8 DEF SaveSkip, FirstRun, TableFilled

LEMMA FirstList ==
    ASSUME TypeInv, FirstRun, ListPending
    PROVE  FirstRun'
<1>1. Ahead' = Ahead /\ Ahead = rows
  BY AheadStays, AheadIsRows DEF ListPending
<1>2. pending' = {p \in Papers \ excluded : \E c \in CellsOf({p}) : rows[c].status # "done"}
  BY DEF ListPending
<1>3. \A c \in Cells : RoundOf[c[2]] = round => (c[1] \in pending' <=> c[1] \notin excluded)
  <2>. SUFFICES ASSUME NEW c \in Cells, RoundOf[c[2]] = round, c[1] \notin excluded
                PROVE  c[1] \in pending'
    BY <1>2
  <2>1. rows[c] = NoRow
    BY <1>1, ConstantTypes DEF FirstRun, Reached, ListPending, TypeInv, TypeOK, Rounds
  <2>2. c[1] \in Papers /\ c \in CellsOf({c[1]})
    BY DEF Cells, CellsOf, Group
  <2>. QED
    BY <1>2, <2>1, <2>2 DEF NoRow
<1>4. \A c \in Cells : Reached(c)' <=> Reached(c)
  BY <1>3 DEF Reached, ListPending, FirstRun
<1>5. TableFilled'
  BY <1>1, <1>4, FilledStays DEF ListPending, FirstRun, TableFilled
<1>. QED
  BY <1>2, <1>5 DEF ListPending, FirstRun, TableFilled

LEMMA FirstCall ==
    ASSUME TypeInv, FirstRun, mishaps = 0, mishaps' = 0, Pass1 \/ Pass1Aborts \/ Pass2
    PROVE  FirstRun'
<1>1. ~Pass1Aborts
  BY DEF Pass1Aborts, Mishap
<1>2. ASSUME NEW b \in BOOLEAN, Mishap(b) PROVE ~b
  BY <1>2 DEF Mishap
<1>3. CASE Pass1
  <2>1. PICK ok \in SUBSET pending :
            Mishap(ok # pending) /\ replied' = ok /\ todo' = CellsOf(pending \ ok)
    BY <1>3 DEF Pass1
  <2>2. ok = pending
    BY <1>2, <2>1
  <2>3. replied' = pending /\ todo' = {}
    BY <2>1, <2>2 DEF CellsOf
  <2>4. Ahead' = Ahead
    BY <1>3, AheadStays DEF Pass1
  <2>5. \A c \in Cells : Reached(c)' <=> Reached(c)
    BY <1>3, <2>3 DEF Reached, Pass1, FirstRun
  <2>6. TableFilled'
    BY <1>3, <2>4, <2>5, FilledStays DEF Pass1, FirstRun, TableFilled
  <2>. QED
    BY <1>3, <2>3, <2>6 DEF Pass1, FirstRun, TableFilled
<1>4. CASE Pass2
  <2>1. PICK ok \in SUBSET replied : \E errors \in SUBSET (replied \ ok) :
            Mishap(ok # replied) /\ replied' = ok /\ todo' = CellsOf(errors)
    BY <1>4 DEF Pass2
  <2>2. ok = replied
    BY <1>2, <2>1
  <2>3. replied' = replied /\ todo' = {}
    BY <2>1, <2>2 DEF CellsOf
  <2>4. Ahead' = Ahead
    BY <1>4, AheadStays DEF Pass2, DropsDone
  <2>5. \A c \in Cells : Reached(c)' <=> Reached(c)
    BY <1>4, <2>3 DEF Reached, Pass2, DropsDone
  <2>6. TableFilled'
    BY <1>4, <2>4, <2>5, FilledStays DEF Pass2, FirstRun, TableFilled
  <2>. QED
    BY <1>4, <2>3, <2>6 DEF Pass2, DropsDone, FirstRun, TableFilled
<1>. QED
  BY <1>1, <1>3, <1>4

LEMMA FirstBegin ==
    ASSUME TypeInv, FirstRun, BeginTail
    PROVE  FirstRun'
<1>1. Ahead' = Ahead
  BY AheadStays DEF BeginTail
<1>2. \A c \in Cells : Reached(c)' <=> Reached(c)
  BY DEF Reached, BeginTail
<1>3. TableFilled'
  BY <1>1, <1>2, FilledStays DEF BeginTail, FirstRun, TableFilled
<1>. QED
  BY <1>3 DEF BeginTail, FirstRun, TableFilled

\* What is in hand is of one paper, so that saving a row of it changes nothing ahead.
LEMMA AheadSaved ==
    ASSUME TypeInv, NEW c \in Cells, SaveReply(c), \A d, e \in todo : d[1] = e[1]
    PROVE  Ahead' = Ahead
<1>1. rows \in [Cells -> Row] /\ results \in [Questions -> Row] /\ c[2] \in Questions
  BY DEF TypeInv, TypeOK, Cells
<1>2. c \in todo /\ pc = "tail" /\ pc' = "tail" /\ todo' = todo \ {c}
  BY DEF SaveReply, IsFirst
<1>3. \A d \in Cells : d \in todo /\ d # c => d[2] # c[2]
  BY <1>2 DEF Cells
<1>4. ASSUME NEW d \in Cells PROVE Ahead'[d] = Ahead[d]
  <2>1. CASE d = c
    BY <1>1, <1>2, <2>1 DEF Ahead, SaveReply
  <2>2. CASE d # c /\ d \in todo
    <3>1. results'[d[2]] = results[d[2]]
      BY <1>1, <1>3, <2>2 DEF SaveReply, Cells
    <3>. QED
      BY <1>2, <2>2, <3>1 DEF Ahead
  <2>3. CASE d # c /\ d \notin todo
    BY <1>1, <1>2, <2>3 DEF Ahead, SaveReply
  <2>. QED
    BY <2>1, <2>2, <2>3
<1>. QED
  BY <1>4 DEF Ahead

LEMMA FirstSave ==
    ASSUME TypeInv, FirstRun, NEW c \in Cells, SaveReply(c)
    PROVE  FirstRun'
<1>1. Ahead' = Ahead
  BY AheadSaved DEF SaveReply, FirstRun
<1>2. \A d \in Cells : Reached(d)' <=> Reached(d)
  BY DEF Reached, SaveReply
<1>3. TableFilled'
  BY <1>1, <1>2, FilledStays DEF SaveReply, FirstRun, TableFilled
<1>. QED
  BY <1>3 DEF SaveReply, FirstRun, TableFilled

LEMMA FirstNext ==
    ASSUME TypeInv, FirstRun, NextRound
    PROVE  FirstRun'
<1>1. Ahead' = Ahead
  BY AheadStays DEF NextRound
<1>2. round \in Nat /\ \A q \in Questions : RoundOf[q] \in Nat
  BY ConstantTypes DEF TypeInv, TypeOK, Rounds
<1>3. \A c \in Cells : Reached(c)' <=> Reached(c)
  <2>. SUFFICES ASSUME NEW c \in Cells PROVE Reached(c)' <=> Reached(c)
    OBVIOUS
  <2>1. c[2] \in Questions /\ c[1] \in Papers /\ c = <<c[1], c[2]>>
    BY DEF Cells
  <2>2. Reached(c) <=> RoundOf[c[2]] <= round
    BY <1>2, <2>1 DEF Reached, NextRound
  <2>3. RoundOf[c[2]] = round' => (c[1] \in excluded => c \in todo')
    BY <2>1 DEF NextRound, Group
  <2>4. Reached(c)' <=> RoundOf[c[2]] < round'
    BY <2>3 DEF Reached, NextRound
  <2>. QED
    BY <1>2, <2>1, <2>2, <2>4 DEF NextRound
<1>4. TableFilled'
  BY <1>1, <1>3, FilledStays DEF NextRound, FirstRun, TableFilled
<1>5. todo' \subseteq excluded' \X Group(round')
  BY DEF NextRound
<1>. QED
  BY <1>4, <1>5 DEF NextRound, FirstRun, TableFilled, Group

\* A reply answers its group for what it says itself, and for nothing before it:
\* a gate before it that failed would have kept the paper out of the round.
LEMMA TakenAnswers ==
    ASSUME TypeInv, NEW p \in Papers, TakeReply(p), NEW q \in Group(round)
    PROVE  /\ (\E g \in Gates \cap Group(round) : g < q /\ results'[g].value \in Failing)
                => results'[q].answer = "skipped"
           /\ (\E need \in Needs[q] : /\ need[1] < q /\ need[1] \in Group(round)
                                      /\ results'[need[1]].value \notin need[2] \union {NoValue})
                => results'[q].answer = "skipped"
           /\ (\E g \in Gates \cap Group(round) : results'[g].value \in Failing)
                => p \in excluded'
<1>1. round \in Rounds /\ Group(round) \subseteq Questions
  BY ConstantTypes DEF TypeInv, TypeOK
<1>2. CASE \E items \in [Group(round) -> Items] :
             /\ results' = [s \in Questions |-> IF s \in Group(round) THEN Scoped(items)[s] ELSE NoRow]
             /\ excluded' = IF FailedGates(items) # {} THEN excluded \union {p} ELSE excluded
  <2>1. PICK items \in [Group(round) -> Items] :
             /\ results' = [s \in Questions |-> IF s \in Group(round) THEN Scoped(items)[s] ELSE NoRow]
             /\ excluded' = IF FailedGates(items) # {} THEN excluded \union {p} ELSE excluded
    BY <1>2
  <2>2. \A s \in Group(round) : results'[s] = Scoped(items)[s]
    BY <1>1, <2>1
  <2>3. StoredReason(items, round, q) => results'[q].answer = "skipped"
    BY <1>1, <2>2, StoredIsSkipped
  <2>4. (\E g \in Gates \cap Group(round) : results'[g].value \in Failing) => p \in excluded'
    BY <1>1, <2>1, <2>2, StoredFailure
  <2>. QED
    BY <2>2, <2>3, <2>4 DEF StoredReason
<1>3. CASE results' = [s \in Questions |-> IF s \in Group(round) THEN Done("error", NoValue) ELSE NoRow]
  <2>1. \A s \in Group(round) : results'[s].value = NoValue
    BY <1>1, <1>3 DEF Done
  <2>. QED
    BY <2>1, FailingAreValues, NoValueIsNone
<1>. QED
  BY <1>2, <1>3 DEF TakeReply

\* Taking a reply changes what lies ahead for its group only.
LEMMA AheadTaken ==
    ASSUME TypeInv, NEW p \in Papers, TakeReply(p), NEW c \in Cells
    PROVE  /\ Ahead[c] = rows[c]
           /\ (c[1] = p /\ RoundOf[c[2]] = round) => c \in todo' /\ Ahead'[c] = results'[c[2]]
           /\ ~(c[1] = p /\ RoundOf[c[2]] = round) => c \notin todo' /\ Ahead'[c] = rows[c]
<1>1. todo = {} /\ todo' = CellsOf({p}) /\ pc' = "tail" /\ rows' = rows
  BY DEF TakeReply
<1>2. c \in todo' <=> c[1] = p /\ RoundOf[c[2]] = round
  BY <1>1 DEF CellsOf, Group, Cells
<1>. QED
  BY <1>1, <1>2 DEF Ahead

LEMMA FirstTake ==
    ASSUME RoundsInOrder, TypeInv, FirstRun, NEW p \in Papers, TakeReply(p)
    PROVE  FirstRun'
<1>. DEFINE Own(c) == c[1] = p /\ RoundOf[c[2]] = round
<1>1. /\ p \in replied /\ p \notin excluded /\ pc = "tail" /\ todo = {} /\ round \in Rounds
      /\ replied' = replied \ {p} /\ pc' = pc /\ round' = round /\ todo' = CellsOf({p})
      /\ excluded \subseteq excluded' /\ excluded' \subseteq excluded \union {p}
  BY DEF TakeReply, FirstRun, TypeInv, TypeOK
<1>2. round \in Nat /\ \A q \in Questions : RoundOf[q] \in Nat
  BY <1>1, ConstantTypes DEF Rounds
<1>3. \A c \in Cells : Reached(c)' <=> Reached(c) \/ Own(c)
  BY <1>1 DEF Reached
<1>4. \A g \in Gates : Ahead[<<p, g>>].value \notin Failing
  BY <1>1 DEF FirstRun
<1>5. ASSUME NEW c \in Cells, Own(c) PROVE Answered(Ahead', c)
  <2>. DEFINE q == c[2]
  <2>1. q \in Questions /\ q \in Group(round) /\ c = <<p, q>>
    BY <1>5 DEF Cells, Group
  <2>2. \A s \in Questions : <<p, s>> \in Cells
    BY DEF Cells
  <2>3. Ahead'[c] = results'[q] /\ results'[q].status = "done"
    BY <1>5, <2>1, AheadTaken, TakenType
  <2>. HIDE DEF q
  <2>4. ASSUME GateBefore(Ahead', p, q) PROVE results'[q].answer = "skipped"
    <3>1. PICK g \in Gates : g < q /\ Ahead'[<<p, g>>].value \in Failing
      BY <2>4 DEF GateBefore
    <3>2. g \in Questions /\ <<p, g>> \in Cells
      BY <2>2, GatesAreQuestions
    <3>3. RoundOf[g] = round
      BY <1>4, <3>1, <3>2, AheadTaken
    <3>4. g \in Gates \cap Group(round) /\ results'[g].value \in Failing
      BY <3>1, <3>2, <3>3, AheadTaken DEF Group
    <3>. QED
      BY <2>1, <3>1, <3>4, TakenAnswers
  <2>5. ASSUME Lacks(Ahead', p, q) PROVE results'[q].answer = "skipped"
    <3>1. PICK need \in Needs[q] :
              /\ need[1] < q /\ RoundOf[need[1]] = RoundOf[q]
              /\ Ahead'[<<p, need[1]>>].value \notin need[2] \union {NoValue}
      BY <2>5 DEF Lacks
    <3>2. need[1] \in Questions /\ <<p, need[1]>> \in Cells
      BY <2>1, <2>2, NeedType
    <3>3. RoundOf[need[1]] = round /\ need[1] \in Group(round)
      BY <2>1, <3>1, <3>2 DEF Group
    <3>4. Ahead'[<<p, need[1]>>] = results'[need[1]]
      BY <3>2, <3>3, AheadTaken
    <3>. QED
      BY <2>1, <3>1, <3>3, <3>4, TakenAnswers
  <2>. QED
    BY <2>1, <2>3, <2>4, <2>5 DEF Answered
<1>6. ASSUME NEW c \in Cells, Reached(c), ~Own(c) PROVE Answered(Ahead', c)
  <2>1. Answered(Ahead, c) /\ Ahead'[c] = Ahead[c]
    BY <1>6, AheadTaken DEF FirstRun
  <2>2. c[1] \in Papers /\ c[2] \in Questions
    BY DEF Cells
  <2>3. ASSUME NEW q \in Questions, q < c[2] PROVE ~Own(<<c[1], q>>)
    <3>1. CASE c[1] # p
      BY <3>1
    <3>2. CASE c[1] = p
      <4>1. RoundOf[c[2]] < round
        BY <1>1, <1>6, <3>2 DEF Reached
      <4>2. RoundOf[q] <= RoundOf[c[2]]
        BY <2>2, <2>3 DEF RoundsInOrder
      <4>3. RoundOf[q] # round
        BY <1>2, <2>2, <4>1, <4>2
      <4>. QED
        BY <4>3
    <3>. QED
      BY <3>1, <3>2
  <2>4. ASSUME NEW q \in Questions, q < c[2]
        PROVE  Ahead'[<<c[1], q>>].value = Ahead[<<c[1], q>>].value
    <3>1. <<c[1], q>> \in Cells
      BY <2>2 DEF Cells
    <3>. QED
      BY <2>3, <2>4, <3>1, AheadTaken
  <2>. QED
    BY <2>1, <2>4, AnsweredKept
<1>7. \A c \in Cells : Reached(c)' => Answered(Ahead, c)'
  BY <1>3, <1>5, <1>6 DEF Answered, GateBefore, Lacks
<1>8. \A c \in Cells : ~Reached(c)' => Ahead'[c] = NoRow
  BY <1>3, AheadTaken DEF FirstRun
<1>9. ASSUME NEW x \in Papers, NEW g \in Gates, Ahead'[<<x, g>>].value \in Failing
      PROVE  x \in excluded'
  <2>1. <<x, g>> \in Cells /\ g \in Questions
    BY GatesAreQuestions DEF Cells
  <2>2. CASE x = p /\ RoundOf[g] = round
    <3>1. g \in Group(round) /\ results'[g].value \in Failing
      BY <1>9, <2>1, <2>2, AheadTaken DEF Group
    <3>. QED
      BY <2>2, <3>1, TakenAnswers
  <2>3. CASE ~(x = p /\ RoundOf[g] = round)
    BY <1>1, <1>9, <2>1, <2>3, AheadTaken DEF FirstRun
  <2>. QED
    BY <2>2, <2>3
<1>10. TableFilled'
  BY <1>7, <1>8, <1>9 DEF TableFilled
<1>11. \A c, d \in todo' : RoundOf[c[2]] = round /\ c[1] = d[1] /\ c[1] \notin replied'
  BY <1>1 DEF CellsOf, Group
<1>12. replied' \cap excluded' = {}
  BY <1>1 DEF FirstRun
<1>13. verdict' = verdict /\ verdict # "succeeded" /\ toMark' = toMark /\ toMark = {}
  BY DEF TakeReply, FirstRun
<1>. QED
  BY <1>1, <1>10, <1>11, <1>12, <1>13 DEF FirstRun, TableFilled

\* After the last round everything has been reached.
LEMMA FirstFinish ==
    ASSUME TypeInv, FirstRun, Finish
    PROVE  Settled'
<1>1. pc = "tail" /\ replied = {} /\ round = NRounds /\ todo = {}
  BY DEF Finish, FirstRun
<1>2. Ahead = rows
  BY <1>1, AheadIsRows
<1>3. \A c \in Cells : Reached(c)
  <2>. SUFFICES ASSUME NEW c \in Cells PROVE Reached(c)
    OBVIOUS
  <2>1. RoundOf[c[2]] \in 1..NRounds
    BY ConstantTypes DEF Cells, Rounds
  <2>. QED
    BY <1>1, <2>1, ConstantTypes DEF Reached
<1>4. \A c \in Cells : Answered(rows, c)
  BY <1>2, <1>3 DEF FirstRun
<1>5. rows' = rows
  BY DEF Finish
<1>. QED
  BY <1>4, <1>5 DEF Finish, EndProcess, Settled, Answered, GateBefore, Lacks

LEMMA SettledStays ==
    ASSUME TypeInv, Settled, mishaps = 0, mishaps' = 0, [Next]_vars
    PROVE  Settled'
<1>1. ASSUME rows' = rows, pc' \in {"idle", "skips", "tail"}, excluded' = {}, pending' = {},
             replied' = {}, todo' = {}, toMark' = {}
      PROVE  Settled'
  BY <1>1 DEF Settled, Answered, GateBefore, Lacks
<1>2. CASE StartRun
  BY <1>1, <1>2 DEF StartRun, Settled
<1>3. CASE ListPending
  <2>1. \A p \in Papers : \A c \in CellsOf({p}) : c \in Cells
    BY ConstantTypes DEF CellsOf, Cells
  <2>2. pending' = {}
    BY <1>3, <2>1 DEF ListPending, Settled, Answered
  <2>. QED
    BY <1>1, <1>3, <2>2 DEF ListPending, Settled
<1>4. CASE NextRound
  BY <1>1, <1>4 DEF NextRound, Settled
<1>5. CASE Finish
  BY <1>1, <1>5 DEF Finish, EndProcess
<1>6. CASE UNCHANGED vars
  BY <1>1, <1>6 DEF vars, Settled
<1>7. CASE Pass1 \/ Pass1Aborts \/ Pass2 \/ BeginTail
  BY <1>7 DEF Pass1, Pass1Aborts, Pass2, DropsDone, BeginTail, Settled
<1>8. CASE Park \/ Crash
  BY <1>8 DEF Park, Crash, Mishap
<1>9. CASE WriteStep
  BY <1>9 DEF WriteStep, SaveSkip, Drop, MarkFailed, SaveReply, IsFirst, Settled
<1>10. CASE \E p \in Papers : TakeReply(p)
  BY <1>10 DEF TakeReply, Settled
<1>. QED
  BY <1>2, <1>3, <1>4, <1>5, <1>6, <1>7, <1>8, <1>9, <1>10 DEF Next, ProgramStep

LEMMA FirstStep ==
    ASSUME RoundsInOrder, TypeInv, FirstRun, mishaps = 0, mishaps' = 0, [Next]_vars
    PROVE  FirstRun' \/ Settled'
<1>1. CASE WriteStep
  <2>1. PICK c \in Cells : SaveSkip(c) \/ Drop(c) \/ MarkFailed(c) \/ SaveReply(c)
    BY <1>1 DEF WriteStep
  <2>2. ~Drop(c) /\ ~MarkFailed(c)
    BY DEF Drop, MarkFailed, IsFirst, FirstRun
  <2>. QED
    BY <2>1, <2>2, FirstSkip, FirstSave
<1>2. CASE Park \/ Crash
  BY <1>2 DEF Park, Crash, Mishap
<1>3. CASE UNCHANGED vars
  <2>1. Ahead' = Ahead
    BY <1>3 DEF vars, Ahead
  <2>2. \A c \in Cells : Reached(c)' <=> Reached(c)
    BY <1>3 DEF vars, Reached
  <2>3. TableFilled'
    BY <1>3, <2>1, <2>2, FilledStays DEF vars, FirstRun, TableFilled
  <2>. QED
    BY <1>3, <2>3 DEF vars, FirstRun, TableFilled
<1>. QED
  BY <1>1, <1>2, <1>3, FirstStart, FirstList, FirstCall, FirstBegin, FirstTake, FirstNext, FirstFinish
     DEF Next, ProgramStep

LEMMA ScopeStep ==
    ASSUME RoundsInOrder, ScopeInv, [Next]_vars
    PROVE  ScopeInv'
<1>1. TypeInv'
  BY TypeStep DEF ScopeInv
<1>2. mishaps \in Nat /\ (mishaps' = mishaps \/ mishaps' = mishaps + 1)
  <2>1. mishaps \in Nat
    BY DEF ScopeInv, TypeInv, TypeOK
  <2>2. \A b \in BOOLEAN : Mishap(b) => mishaps' = mishaps \/ mishaps' = mishaps + 1
    BY DEF Mishap
  <2>3. CASE Pass1 \/ Pass1Aborts
    BY <2>1, <2>2, <2>3 DEF Pass1, Pass1Aborts
  <2>4. CASE Pass2
    BY <2>1, <2>2, <2>4 DEF Pass2
  <2>5. CASE Park \/ Crash
    BY <2>1, <2>2, <2>5 DEF Park, Crash
  <2>6. CASE WriteStep \/ (\E p \in Papers : TakeReply(p))
    BY <2>1, <2>6 DEF WriteStep, SaveSkip, Drop, MarkFailed, SaveReply, TakeReply
  <2>7. CASE StartRun \/ ListPending \/ BeginTail \/ NextRound \/ Finish \/ UNCHANGED vars
    BY <2>1, <2>7 DEF StartRun, ListPending, BeginTail, NextRound, Finish, vars
  <2>. QED
    BY <2>3, <2>4, <2>5, <2>6, <2>7 DEF Next, ProgramStep
<1>3. mishaps' = 0 => mishaps = 0
  BY <1>2
<1>. QED
  BY <1>1, <1>3, FirstStep, SettledStays DEF ScopeInv

\* Where nothing failed, every question that the stored answers put out of
\* scope is skipped once a run has succeeded: also those of later rounds, whose
\* replies were never asked for.
THEOREM OutOfScopeSkips ==
    ASSUME RoundsInOrder
    PROVE  Spec => []OutOfScopeIsSkipped
<1>1. Init => ScopeInv
  <2>. SUFFICES ASSUME Init PROVE ScopeInv
    OBVIOUS
  <2>1. TypeInv
    BY InitType
  <2>2. Ahead = rows /\ \A c \in Cells : rows[c] = NoRow
    BY <2>1, AheadIsRows DEF Init
  <2>3. \A c \in Cells : ~Reached(c)
    <3>. SUFFICES ASSUME NEW c \in Cells PROVE ~Reached(c)
      OBVIOUS
    <3>1. RoundOf[c[2]] \in 1..NRounds
      BY ConstantTypes DEF Cells, Rounds
    <3>. QED
      BY <3>1 DEF Init, Reached
  <2>4. \A p \in Papers, g \in Gates : Ahead[<<p, g>>].value \notin Failing
    BY <2>2, GatesAreQuestions, FailingAreValues, NoValueIsNone DEF Cells, NoRow
  <2>. QED
    BY <2>1, <2>2, <2>3, <2>4 DEF Init, ScopeInv, FirstRun
<1>2. ScopeInv /\ [Next]_vars => ScopeInv'
  BY ScopeStep
<1>3. ScopeInv => OutOfScopeIsSkipped
  BY AllAnswered DEF ScopeInv, OutOfScopeIsSkipped, FirstRun, Settled
<1>. QED
  BY <1>1, <1>2, <1>3, PTL DEF Spec

---------------------------------------------------------------------------
(* Groups of a paper: what its rows say, and what bears them out.          *)

\* A row without a value that is not skipped bears out nothing and needs nothing.
Silent(row) == row.answer # "skipped" /\ row.value = NoValue

Whole(table, p, r) == \A q \in Group(r) : table[<<p, q>>].status = "done"

\* Reason, as far as it lies within the group.
ReasonIn(table, p, q) ==
    \/ \E g \in Gates :
          g < q /\ RoundOf[g] = RoundOf[q] /\ table[<<p, g>>].value \in Failing
    \/ Lacks(table, p, q)

Sound(table, p, r) ==
    \A q \in Group(r) : table[<<p, q>>].answer = "skipped" => ReasonIn(table, p, q)

\* Whatever is said will be said again: an open cell follows it.
\* Only a question before it puts one of the group out of scope.
Loose(table, p, r) ==
    \A q \in Group(r) :
        /\ ~Silent(table[<<p, q>>]) =>
              \E d \in Group(r) : q < d /\ table[<<p, d>>].status # "done"
        /\ table[<<p, q>>].answer = "skipped" => \E e \in Group(r) : e < q

\* A gate of an earlier round fails, in a group that is not asked again.
Excluded(table, p, r) ==
    \E g \in Gates :
        RoundOf[g] < r /\ table[<<p, g>>].value \in Failing /\ Whole(table, p, RoundOf[g])

Closed(table, p, r) == Excluded(table, p, r) \/ Sound(table, p, r)

\* At rest a group is whole and sound, or it has cells left that open it again.
Resting(table, p, r) ==
    Excluded(table, p, r) \/ (Whole(table, p, r) /\ Sound(table, p, r)) \/ Loose(table, p, r)

GroupInv == \A p \in Papers, r \in Rounds : Resting(rows, p, r)

\* A batched Pass 2 may say nothing of a paper, and a Pass 1 that aborts ends the
\* rounds: without fail_fast the run still succeeds.  Either leaves a group as it was.
NobodyIsPassedOver == ~BatchP2 /\ (BatchP1 \/ FailFast)

\* A group of two with a cell left has no question that is skipped.
PairsAtMost ==
    \A a, b, c \in Questions : a < b /\ b < c => ~(RoundOf[a] = RoundOf[b] /\ RoundOf[b] = RoundOf[c])

---------------------------------------------------------------------------
(* What a round has in hand.                                               *)

Dropping == pc \in {"drop1", "abort", "drop2"}
Asking   == Dropping \/ pc = "pass1"

\* Rows are written in study order, so what is left of a group is its end.
RoundInv ==
    /\ pc = "idle" => round = 1
    /\ pc # "idle" => verdict = "none"
    /\ pc \in {"idle", "pass1"} => todo = {}
    /\ \A c \in todo : RoundOf[c[2]] = round
    /\ \A c, d \in Cells :
          (c \in todo /\ c[1] = d[1] /\ c[2] < d[2] /\ RoundOf[d[2]] = round) => d \in todo
    /\ pc = "skips" => \A c \in todo : c[1] \in excluded
    /\ (Dropping \/ pc = "tail") => \A c \in todo : c[1] \in pending \ replied
    /\ pc = "tail" => \A c, d \in todo : c[1] = d[1]
    /\ \A c \in toMark : /\ Dropping /\ RoundOf[c[2]] = round
                         /\ c[1] \in pending \ replied /\ c \notin todo
    /\ pc \in {"idle", "skips", "pass1", "abort"} => replied = {}
    /\ replied \subseteq pending
    /\ Asking => pending \cap excluded = {}
    /\ replied \cap excluded = {}
    /\ pc = "abort" => (trouble /\ FailFast) \/ PairsAtMost

ExcludedSound ==
    \A p \in excluded :
        \/ Excluded(rows, p, round)
        \/ /\ pc = "tail"
           /\ \E g \in Gates : RoundOf[g] = round /\ Ahead[<<p, g>>].value \in Failing
           /\ \A q \in Group(round) : Ahead[<<p, q>>].status = "done"

\* The papers of the round: let alone, still to ask, being dropped, being saved.
AsideClosed ==
    /\ Asking => \A p \in Papers \ pending : Closed(rows, p, round)
    /\ pc = "tail" => \A p \in Papers \ replied :
                          (\A c \in todo : c[1] # p) => Closed(rows, p, round)

PendingLoose ==
    /\ Asking => \A p \in pending : Excluded(rows, p, round) \/ Loose(rows, p, round)
    /\ pc = "tail" => \A p \in replied : Excluded(rows, p, round) \/ Loose(rows, p, round)

\* A paper of which nothing was said is in no loop.
DroppedSilent ==
    Dropping => \A p \in pending \ replied :
        \/ \A q \in Group(round) : <<p, q>> \notin todo => Silent(rows[<<p, q>>])
        \/ Closed(rows, p, round) /\ \A c \in todo \union toMark : c[1] # p

SavedSound ==
    pc = "tail" => \A c \in todo :
        /\ Sound(Ahead, c[1], round)
        /\ \A q \in Group(round) : Ahead[<<c[1], q>>].status = "done"
        /\ \/ Excluded(rows, c[1], round)
           \/ Silent(rows[c])
           \/ \E d \in todo : c[2] < d[2] /\ rows[d].status # "done"

\* The rounds that are over, and the runs that have succeeded.
PastClosed ==
    /\ pc # "idle" => \A p \in Papers, r \in Rounds : r < round => Closed(rows, p, r)
    /\ verdict = "succeeded" => \A p \in Papers, r \in Rounds : Closed(rows, p, r)

ReasonInv ==
    /\ TypeInv
    /\ RoundInv
    /\ GroupInv
    /\ ExcludedSound
    /\ AsideClosed
    /\ PendingLoose
    /\ DroppedSilent
    /\ SavedSound
    /\ PastClosed

---------------------------------------------------------------------------
(* Tables that agree on a group, or outside one.                           *)

LEMMA InGroup ==
    ASSUME NEW r, NEW q
    PROVE  q \in Group(r) <=> q \in Questions /\ RoundOf[q] = r
BY DEF Group

LEMMA SoundAgrees ==
    ASSUME NEW old, NEW new, NEW p, NEW r, \A q \in Group(r) : new[<<p, q>>] = old[<<p, q>>],
           Sound(old, p, r)
    PROVE  Sound(new, p, r)
<1>. SUFFICES ASSUME NEW q \in Group(r), new[<<p, q>>].answer = "skipped"
              PROVE  ReasonIn(new, p, q)
  BY DEF Sound
<1>1. q \in Questions /\ RoundOf[q] = r
  BY InGroup
<1>2. ReasonIn(old, p, q)
  BY DEF Sound
<1>3. \A d \in Questions : RoundOf[d] = r => new[<<p, d>>] = old[<<p, d>>]
  BY InGroup
<1>4. Lacks(old, p, q) => Lacks(new, p, q)
  BY <1>1, <1>3, NeedType DEF Lacks
<1>. QED
  BY <1>1, <1>2, <1>3, <1>4, GatesAreQuestions DEF ReasonIn

LEMMA WholeAgrees ==
    ASSUME NEW old, NEW new, NEW p, NEW r, \A q \in Group(r) : new[<<p, q>>] = old[<<p, q>>]
    PROVE  /\ Whole(old, p, r) => Whole(new, p, r)
           /\ Loose(old, p, r) => Loose(new, p, r)
BY DEF Whole, Loose

\* Only one group is written.
OnlyIn(old, new, p, r) ==
    \A c \in Cells : ~(c[1] = p /\ RoundOf[c[2]] = r) => new[c] = old[c]

LEMMA OtherGroup ==
    ASSUME NEW old, NEW new, NEW own, NEW at, OnlyIn(old, new, own, at),
           NEW p \in Papers, NEW r, ~(p = own /\ r = at)
    PROVE  /\ \A q \in Group(r) : new[<<p, q>>] = old[<<p, q>>]
           /\ Whole(old, p, r) => Whole(new, p, r)
           /\ Loose(old, p, r) => Loose(new, p, r)
           /\ Sound(old, p, r) => Sound(new, p, r)
<1>1. \A q \in Group(r) : new[<<p, q>>] = old[<<p, q>>]
  BY InGroup DEF OnlyIn, Cells
<1>. QED
  BY <1>1, WholeAgrees, SoundAgrees

\* What a failing gate of the group that is written bears out is not lost:
\* another one bears it out, or the gate and its group stay what they are.
StillFails(old, new, p, r) ==
    \/ Excluded(old, p, r)
    \/ \A g \in Gates :
          (RoundOf[g] = r /\ old[<<p, g>>].value \in Failing /\ Whole(old, p, r))
             => new[<<p, g>>].value \in Failing /\ Whole(new, p, r)

LEMMA ExcludedKept ==
    ASSUME NEW old, NEW new, NEW own, NEW at \in Rounds, OnlyIn(old, new, own, at),
           StillFails(old, new, own, at),
           NEW p \in Papers, NEW r \in Rounds, Excluded(old, p, r)
    PROVE  Excluded(new, p, r)
<1>1. \A q \in Questions : RoundOf[q] \in Rounds
  BY ConstantTypes
<1>2. ASSUME NEW g \in Gates, old[<<p, g>>].value \in Failing, Whole(old, p, RoundOf[g]),
             ~(p = own /\ RoundOf[g] = at)
      PROVE  new[<<p, g>>].value \in Failing /\ Whole(new, p, RoundOf[g])
  <2>1. g \in Group(RoundOf[g])
    BY InGroup, GatesAreQuestions
  <2>. QED
    BY <1>2, <2>1, OtherGroup
<1>3. PICK g \in Gates :
          RoundOf[g] < r /\ old[<<p, g>>].value \in Failing /\ Whole(old, p, RoundOf[g])
  BY DEF Excluded
<1>4. CASE ~(p = own /\ RoundOf[g] = at)
  BY <1>2, <1>3, <1>4 DEF Excluded
<1>5. CASE p = own /\ RoundOf[g] = at /\ Excluded(old, own, at)
  <2>1. PICK h \in Gates :
          RoundOf[h] < at /\ old[<<p, h>>].value \in Failing /\ Whole(old, p, RoundOf[h])
    BY <1>5 DEF Excluded
  <2>2. RoundOf[h] < r /\ RoundOf[h] # at
    BY <1>1, <1>3, <1>5, <2>1, GatesAreQuestions DEF Rounds
  <2>. QED
    BY <1>2, <2>1, <2>2 DEF Excluded
<1>6. CASE p = own /\ RoundOf[g] = at /\ ~Excluded(old, own, at)
  BY <1>3, <1>6 DEF Excluded, StillFails
<1>. QED
  BY <1>4, <1>5, <1>6

\* A group with cells left bears nothing out: what it says is followed by one of them.
LEMMA LooseFailsNothing ==
    ASSUME NEW table, NEW p, NEW r, Loose(table, p, r), Whole(table, p, r)
    PROVE  \A q \in Group(r) : Silent(table[<<p, q>>])
BY DEF Loose, Whole

LEMMA SilentIsSound ==
    ASSUME NEW table, NEW p, NEW r, \A q \in Group(r) : Silent(table[<<p, q>>])
    PROVE  Sound(table, p, r) /\ \A g \in Gates : RoundOf[g] = r => table[<<p, g>>].value \notin Failing
<1>1. Sound(table, p, r)
  BY DEF Sound, Silent
<1>2. \A g \in Gates : RoundOf[g] = r => table[<<p, g>>].value = NoValue
  BY InGroup, GatesAreQuestions DEF Silent
<1>. QED
  BY <1>1, <1>2, FailingAreValues, NoValueIsNone

LEMMA LooseStillFails ==
    ASSUME NEW old, NEW new, NEW p, NEW r, Excluded(old, p, r) \/ Loose(old, p, r)
    PROVE  StillFails(old, new, p, r)
BY LooseFailsNothing, SilentIsSound DEF StillFails

LEMMA WholeIsClosed ==
    ASSUME NEW table, NEW p, NEW r, Resting(table, p, r), Whole(table, p, r)
    PROVE  Closed(table, p, r)
BY LooseFailsNothing, SilentIsSound DEF Resting, Closed

LEMMA SkippedIsPreceded ==
    ASSUME NEW table, NEW p, NEW r, Sound(table, p, r) \/ Loose(table, p, r),
           NEW q \in Group(r), table[<<p, q>>].answer = "skipped"
    PROVE  \E e \in Group(r) : e < q
<1>1. CASE Loose(table, p, r)
  BY <1>1 DEF Loose
<1>2. CASE Sound(table, p, r)
  <2>1. ReasonIn(table, p, q) /\ q \in Questions /\ RoundOf[q] = r
    BY <1>2, InGroup DEF Sound
  <2>2. CASE Lacks(table, p, q)
    BY <2>1, <2>2, InGroup, NeedType DEF Lacks
  <2>. QED
    BY <2>1, <2>2, InGroup, GatesAreQuestions DEF ReasonIn
<1>. QED
  BY <1>1, <1>2

\* Of two questions the first is never skipped, and the second not before the first.
LEMMA PairIsClosed ==
    ASSUME PairsAtMost, NEW table, NEW p, NEW r, Resting(table, p, r)
    PROVE  Closed(table, p, r)
<1>1. ASSUME Loose(table, p, r), NEW q \in Group(r), table[<<p, q>>].answer = "skipped"
      PROVE  FALSE
  <2>1. PICK e \in Group(r) : e < q
    BY <1>1 DEF Loose
  <2>2. ~Silent(table[<<p, q>>])
    BY <1>1 DEF Silent
  <2>3. PICK d \in Group(r) : q < d
    BY <1>1, <2>2 DEF Loose
  <2>. QED
    BY <1>1, <2>1, <2>3, InGroup DEF PairsAtMost
<1>. QED
  BY <1>1 DEF Resting, Closed, Sound

\* What a step that writes one group keeps of the others, and of the rounds before.
LEMMA OthersKept ==
    ASSUME NEW old, NEW new, NEW own \in Papers, NEW at \in Rounds, OnlyIn(old, new, own, at),
           StillFails(old, new, own, at)
    PROVE  /\ \A p \in Papers, r \in Rounds : Excluded(old, p, r) => Excluded(new, p, r)
           /\ \A p \in Papers, r \in Rounds : ~(p = own /\ r = at) =>
                  /\ Resting(old, p, r) => Resting(new, p, r)
                  /\ Closed(old, p, r) => Closed(new, p, r)
                  /\ Loose(old, p, r) => Loose(new, p, r)
<1>1. \A p \in Papers, r \in Rounds : Excluded(old, p, r) => Excluded(new, p, r)
  BY ExcludedKept
<1>. QED
  BY <1>1, OtherGroup DEF Resting, Closed

\* A succeeded run leaves every group closed, and a closed group has its reasons.
LEMMA ClosedHasReason ==
    ASSUME RoundsInOrder, NEW c \in Cells, Closed(rows, c[1], RoundOf[c[2]]),
           rows[c].answer = "skipped"
    PROVE  Reason(c[1], c[2])
<1>1. c[2] \in Questions /\ c = <<c[1], c[2]>> /\ c[2] \in Group(RoundOf[c[2]])
  BY InGroup DEF Cells
<1>2. \A q \in Questions : q \in Nat /\ RoundOf[q] \in Nat
  BY ConstantTypes DEF Questions, Rounds
<1>3. CASE Sound(rows, c[1], RoundOf[c[2]])
  <2>1. ReasonIn(rows, c[1], c[2])
    BY <1>1, <1>3 DEF Sound
  <2>. QED
    BY <2>1 DEF ReasonIn, Lacks, Reason, FailsAGateBefore, LacksACondition
<1>4. CASE Excluded(rows, c[1], RoundOf[c[2]])
  <2>1. PICK g \in Gates : RoundOf[g] < RoundOf[c[2]] /\ rows[<<c[1], g>>].value \in Failing
    BY <1>4 DEF Excluded
  <2>2. g \in Questions
    BY GatesAreQuestions
  <2>3. ~(c[2] < g) /\ c[2] # g
    BY <1>1, <1>2, <2>1, <2>2 DEF RoundsInOrder
  <2>4. g < c[2]
    BY <1>1, <1>2, <2>2, <2>3
  <2>. QED
    BY <2>1, <2>4 DEF Reason, FailsAGateBefore
<1>. QED
  BY <1>3, <1>4 DEF Closed

---------------------------------------------------------------------------
(* The steps of a round.                                                   *)

\* What a process has in hand keeps its shape.
LEMMA RoundWrite ==
    ASSUME TypeInv, RoundInv, NEW c \in Cells,
           SaveSkip(c) \/ Drop(c) \/ MarkFailed(c) \/ SaveReply(c)
    PROVE  RoundInv'
<1>1. CASE SaveSkip(c) \/ SaveReply(c)
  <2>1. /\ c \in todo /\ todo' = todo \ {c} /\ pc \in {"skips", "tail"} /\ toMark = {}
        /\ \A d \in todo : ~Precedes(d, c)
        /\ UNCHANGED <<pc, round, excluded, pending, replied, toMark, trouble, verdict>>
    BY <1>1 DEF SaveSkip, SaveReply, IsFirst, RoundInv, Dropping
  <2>2. \A d, e \in Cells :
          (d \in todo' /\ d[1] = e[1] /\ d[2] < e[2] /\ RoundOf[e[2]] = round') => e \in todo'
    BY <2>1 DEF RoundInv, Precedes, Cells, Papers, Questions
  <2>. QED
    BY <2>1, <2>2 DEF RoundInv, Dropping, Asking
<1>2. CASE Drop(c)
  <2>1. /\ c \in todo /\ todo' = todo \ {c} /\ pc \in {"drop1", "abort", "drop2"}
        /\ toMark' \in {{}, {c}}
        /\ \A d \in todo : ~Precedes(d, c)
        /\ UNCHANGED <<pc, round, excluded, pending, replied, trouble, verdict>>
    BY <1>2 DEF Drop, IsFirst
  <2>2. \A d, e \in Cells :
          (d \in todo' /\ d[1] = e[1] /\ d[2] < e[2] /\ RoundOf[e[2]] = round') => e \in todo'
    BY <2>1 DEF RoundInv, Precedes, Cells, Papers, Questions
  <2>. QED
    BY <2>1, <2>2 DEF RoundInv, Dropping, Asking
<1>3. CASE MarkFailed(c)
  BY <1>3 DEF MarkFailed, RoundInv, Dropping, Asking
<1>. QED
  BY <1>1, <1>2, <1>3

LEMMA RoundEnd ==
    ASSUME NEW how, EndProcess(how)
    PROVE  RoundInv'
BY DEF EndProcess, RoundInv, Dropping, Asking

LEMMA RoundCall ==
    ASSUME TypeInv, RoundInv, Pass1 \/ Pass1Aborts \/ Pass2,
           BatchP1 \/ FailFast \/ PairsAtMost
    PROVE  RoundInv'
<1>1. \A S \in SUBSET Papers : \A d \in Cells :
          d \in CellsOf(S) <=> d[1] \in S /\ RoundOf[d[2]] = round
  BY InGroup DEF CellsOf, Cells
<1>2. \A S \in SUBSET Papers : CellsOf(S) \subseteq Cells
  BY ConstantTypes DEF CellsOf, Cells
<1>3. CASE Pass1
  <2>1. PICK ok \in SUBSET pending : replied' = ok /\ todo' = CellsOf(pending \ ok)
    BY <1>3 DEF Pass1
  <2>2. pending \ ok \in SUBSET Papers
    BY DEF TypeInv, TypeOK
  <2>3. \A d \in Cells : d \in todo' <=> d[1] \in pending \ ok /\ RoundOf[d[2]] = round
    BY <1>1, <2>1, <2>2
  <2>4. todo' \subseteq Cells
    BY <1>2, <2>1, <2>2
  <2>5. /\ pc = "pass1" /\ pc' = "drop1"
        /\ UNCHANGED <<rows, round, excluded, pending, toMark, results, trouble, verdict, inv>>
    BY <1>3 DEF Pass1
  <2>. QED
    BY <2>1, <2>3, <2>4, <2>5 DEF RoundInv, Dropping, Asking
<1>4. CASE Pass1Aborts
  <2>1. todo' = CellsOf(pending) /\ pending \in SUBSET Papers
    BY <1>4 DEF Pass1Aborts, TypeInv, TypeOK
  <2>2. \A d \in Cells : d \in todo' <=> d[1] \in pending /\ RoundOf[d[2]] = round
    BY <1>1, <2>1
  <2>3. todo' \subseteq Cells
    BY <1>2, <2>1
  <2>4. /\ pc = "pass1" /\ pc' = "abort" /\ trouble' = TRUE /\ ~BatchP1
        /\ UNCHANGED <<rows, round, excluded, pending, replied, toMark, results, verdict, inv>>
    BY <1>4 DEF Pass1Aborts
  <2>. QED
    BY <2>2, <2>3, <2>4 DEF RoundInv, Dropping, Asking
<1>5. CASE Pass2
  <2>1. PICK ok \in SUBSET replied : \E errors \in SUBSET (replied \ ok) :
            replied' = ok /\ todo' = CellsOf(errors)
    BY <1>5 DEF Pass2
  <2>2. PICK errors \in SUBSET (replied \ ok) : replied' = ok /\ todo' = CellsOf(errors)
    BY <2>1
  <2>3. errors \in SUBSET Papers
    BY DEF TypeInv, TypeOK
  <2>4. \A d \in Cells : d \in todo' <=> d[1] \in errors /\ RoundOf[d[2]] = round
    BY <1>1, <2>2, <2>3
  <2>5. todo' \subseteq Cells
    BY <1>2, <2>2, <2>3
  <2>6. /\ pc = "drop1" /\ pc' = "drop2" /\ toMark = {}
        /\ UNCHANGED <<rows, round, excluded, pending, toMark, results, trouble, verdict, inv>>
    BY <1>5 DEF Pass2, DropsDone
  <2>. QED
    BY <2>2, <2>4, <2>5, <2>6 DEF RoundInv, Dropping, Asking
<1>. QED
  BY <1>3, <1>4, <1>5

LEMMA RoundOther ==
    ASSUME TypeInv, RoundInv, StartRun \/ ListPending \/ BeginTail \/ NextRound \/ UNCHANGED vars
    PROVE  RoundInv'
<1>1. CASE StartRun
  BY <1>1 DEF StartRun, RoundInv, Dropping, Asking
<1>2. CASE ListPending
  BY <1>2 DEF ListPending, RoundInv, Dropping, Asking
<1>3. CASE BeginTail
  BY <1>3 DEF BeginTail, RoundInv, Dropping, Asking
<1>4. CASE NextRound
  <2>1. todo' = excluded \X Group(round')
    BY <1>4 DEF NextRound
  <2>2. todo' \subseteq Cells
    BY <2>1, ConstantTypes DEF TypeInv, TypeOK, Cells
  <2>3. \A d \in Cells : d \in todo' <=> d[1] \in excluded /\ RoundOf[d[2]] = round'
    BY <2>1, InGroup DEF Cells
  <2>4. /\ pc = "tail" /\ pc' = "skips" /\ replied = {} /\ pending' = {}
        /\ UNCHANGED <<rows, excluded, replied, toMark, lost, results, trouble, verdict>>
    BY <1>4 DEF NextRound
  <2>. QED
    BY <2>2, <2>3, <2>4 DEF RoundInv, Dropping, Asking
<1>5. CASE UNCHANGED vars
  BY <1>5 DEF vars, RoundInv, Dropping, Asking
<1>. QED
  BY <1>1, <1>2, <1>3, <1>4, <1>5

LEMMA RoundTake ==
    ASSUME TypeInv, RoundInv, NEW p \in Papers, TakeReply(p)
    PROVE  RoundInv'
<1>1. \A d \in Cells : d \in todo' <=> d[1] = p /\ RoundOf[d[2]] = round
  BY InGroup DEF TakeReply, CellsOf, Cells
<1>2. todo' \subseteq Cells
  BY ConstantTypes DEF TakeReply, CellsOf, Cells
<1>3. /\ pc = "tail" /\ p \in replied /\ replied' = replied \ {p}
      /\ excluded' \subseteq excluded \union {p}
      /\ UNCHANGED <<rows, pc, round, pending, toMark, verdict>>
  BY DEF TakeReply
<1>. QED
  BY <1>1, <1>2, <1>3 DEF RoundInv, Dropping, Asking

LEMMA RoundStep ==
    ASSUME TypeInv, RoundInv, [Next]_vars, BatchP1 \/ FailFast \/ PairsAtMost
    PROVE  RoundInv'
<1>1. CASE Park \/ Finish \/ Crash
  BY <1>1, RoundEnd DEF Park, Finish, Crash
<1>. QED
  BY <1>1, RoundWrite, RoundCall, RoundOther, RoundTake DEF Next, ProgramStep, WriteStep

---------------------------------------------------------------------------
(* Steps that write no row.                                                *)

LEMMA ReasonEnd ==
    ASSUME ReasonInv, TypeInv', RoundInv', NEW how, EndProcess(how), rows' = rows,
           how = "succeeded" => \A p \in Papers, r \in Rounds : Closed(rows, p, r)
    PROVE  ReasonInv'
<1>1. pc' = "idle" /\ excluded' = {} /\ verdict' = how
  BY DEF EndProcess
<1>2. GroupInv'
  BY DEF ReasonInv, GroupInv
<1>3. PastClosed'
  BY <1>1 DEF PastClosed
<1>4. ExcludedSound' /\ AsideClosed' /\ PendingLoose' /\ DroppedSilent' /\ SavedSound'
  BY <1>1 DEF ExcludedSound, AsideClosed, PendingLoose, DroppedSilent, SavedSound, Dropping, Asking
<1>. QED
  BY <1>2, <1>3, <1>4 DEF ReasonInv

\* At the end of a round every paper is closed.
LEMMA RoundClosed ==
    ASSUME ReasonInv, pc = "tail", replied = {}, todo = {}
    PROVE  \A p \in Papers : Closed(rows, p, round)
BY DEF ReasonInv, AsideClosed

LEMMA ReasonFinish ==
    ASSUME ReasonInv, TypeInv', RoundInv', Finish
    PROVE  ReasonInv'
<1>1. PICK how : /\ how = IF trouble /\ FailFast THEN "failed" ELSE "succeeded"
                 /\ EndProcess(how) /\ rows' = rows
  BY DEF Finish
<1>2. ASSUME how = "succeeded" PROVE \A p \in Papers, r \in Rounds : Closed(rows, p, r)
  <2>1. CASE pc = "abort"
    <3>1. PairsAtMost
      BY <1>1, <1>2, <2>1 DEF ReasonInv, RoundInv
    <3>. QED
      BY <3>1, PairIsClosed DEF ReasonInv, GroupInv
  <2>2. CASE pc # "abort"
    <3>1. pc = "tail" /\ replied = {} /\ round = NRounds /\ todo = {}
      BY <2>2 DEF Finish
    <3>2. \A p \in Papers : Closed(rows, p, round)
      BY <3>1, RoundClosed
    <3>3. \A r \in Rounds : r = round \/ r < round
      BY <3>1, ConstantTypes DEF Rounds
    <3>. QED
      BY <3>1, <3>2, <3>3 DEF ReasonInv, PastClosed
  <2>. QED
    BY <2>1, <2>2
<1>. QED
  BY <1>1, <1>2, ReasonEnd

LEMMA ReasonStart ==
    ASSUME ReasonInv, TypeInv', RoundInv', StartRun
    PROVE  ReasonInv'
<1>1. /\ pc = "idle" /\ pc' = "skips" /\ verdict' = "none" /\ round = 1
      /\ UNCHANGED <<rows, round, excluded, pending, replied, todo, toMark, lost, results, trouble>>
  BY DEF StartRun, ReasonInv, RoundInv
<1>2. GroupInv' /\ ExcludedSound'
  BY <1>1 DEF ReasonInv, GroupInv, ExcludedSound
<1>3. PastClosed'
  BY <1>1, ConstantTypes DEF PastClosed, Rounds
<1>4. AsideClosed' /\ PendingLoose' /\ DroppedSilent' /\ SavedSound'
  BY <1>1 DEF AsideClosed, PendingLoose, DroppedSilent, SavedSound, Dropping, Asking
<1>. QED
  BY <1>2, <1>3, <1>4 DEF ReasonInv

LEMMA ReasonList ==
    ASSUME ReasonInv, TypeInv', RoundInv', ListPending
    PROVE  ReasonInv'
<1>1. /\ pc = "skips" /\ pc' \in {"tail", "pass1"} /\ (pc' = "tail" => pending' = {})
      /\ todo = {} /\ todo' = {} /\ replied' = {}
      /\ UNCHANGED <<rows, round, excluded, replied, toMark, lost, results, trouble, verdict>>
  BY DEF ListPending, ReasonInv, RoundInv
<1>2. round \in Rounds /\ pending' \subseteq Papers
  BY DEF ListPending, ReasonInv, TypeInv, TypeOK
<1>3. \A p \in excluded : p \in Papers /\ Excluded(rows, p, round)
  BY <1>1 DEF ReasonInv, ExcludedSound, TypeInv, TypeOK
<1>4. \A p \in Papers \ excluded : p \in pending' <=> ~Whole(rows, p, round)
  <2>1. \A p \in Papers \ excluded : p \in pending' <=> \E c \in CellsOf({p}) : rows[c].status # "done"
    BY DEF ListPending
  <2>2. \A p \in Papers : (\E c \in CellsOf({p}) : rows[c].status # "done") <=> ~Whole(rows, p, round)
    BY DEF CellsOf, Whole
  <2>. QED
    BY <2>1, <2>2
<1>5. \A p \in Papers \ pending' : Closed(rows, p, round)
  BY <1>2, <1>3, <1>4, WholeIsClosed DEF Closed, ReasonInv, GroupInv
<1>6. \A p \in pending' : Excluded(rows, p, round) \/ Loose(rows, p, round)
  <2>1. \A p \in pending' : p \in Papers \ excluded
    BY DEF ListPending
  <2>. QED
    BY <1>2, <1>4, <2>1 DEF ReasonInv, GroupInv, Resting
<1>7. GroupInv' /\ PastClosed' /\ ExcludedSound'
  BY <1>1, <1>3 DEF ReasonInv, GroupInv, PastClosed, ExcludedSound
<1>8. AsideClosed' /\ PendingLoose'
  BY <1>1, <1>5, <1>6 DEF AsideClosed, PendingLoose, Dropping, Asking
<1>9. DroppedSilent' /\ SavedSound'
  BY <1>1 DEF DroppedSilent, SavedSound, Dropping
<1>. QED
  BY <1>7, <1>8, <1>9 DEF ReasonInv

LEMMA ReasonCall ==
    ASSUME NobodyIsPassedOver \/ PairsAtMost, ReasonInv, TypeInv', RoundInv',
           Pass1 \/ Pass1Aborts \/ Pass2
    PROVE  ReasonInv'
<1>1. /\ pc \in {"pass1", "drop1"} /\ pc' \in {"drop1", "abort", "drop2"}
      /\ UNCHANGED <<rows, round, excluded, pending, toMark, verdict>>
  BY DEF Pass1, Pass1Aborts, Pass2, DropsDone
<1>2. GroupInv' /\ PastClosed' /\ ExcludedSound'
  BY <1>1 DEF ReasonInv, GroupInv, PastClosed, ExcludedSound
<1>3. AsideClosed' /\ PendingLoose' /\ SavedSound'
  BY <1>1 DEF ReasonInv, AsideClosed, PendingLoose, SavedSound, Dropping, Asking
<1>4. /\ \A S : \A p \in S, q \in Group(round) : <<p, q>> \in CellsOf(S)
      /\ \A S : \A c \in CellsOf(S) : c[1] \in S
  BY DEF CellsOf
<1>5. ASSUME NEW p \in pending \ replied'
      PROVE  \/ \A q \in Group(round) : <<p, q>> \notin todo' => Silent(rows[<<p, q>>])
             \/ Closed(rows, p, round) /\ \A c \in todo' \union toMark : c[1] # p
  <2>1. CASE Pass1
    <3>1. PICK ok \in SUBSET pending : replied' = ok /\ todo' = CellsOf(pending \ ok)
      BY <2>1 DEF Pass1
    <3>. QED
      BY <1>4, <3>1
  <2>2. CASE Pass1Aborts
    BY <1>4, <2>2 DEF Pass1Aborts
  <2>3. CASE Pass2 /\ p \notin replied
    <3>1. PICK errors \in SUBSET replied : todo' = CellsOf(errors)
      BY <2>3 DEF Pass2
    <3>2. todo = {} /\ toMark = {} /\ pc = "drop1"
      BY <2>3 DEF Pass2, DropsDone
    <3>3. \A c \in todo' \union toMark : c[1] # p
      BY <1>4, <2>3, <3>1, <3>2
    <3>4. (\A q \in Group(round) : Silent(rows[<<p, q>>])) \/ Closed(rows, p, round)
      BY <2>3, <3>2 DEF ReasonInv, DroppedSilent, Dropping
    <3>. QED
      BY <3>3, <3>4
  <2>4. CASE Pass2 /\ p \in replied
    <3>1. PICK ok \in SUBSET replied : \E errors \in SUBSET (replied \ ok) :
              (~BatchP2 => errors = replied \ ok) /\ replied' = ok /\ todo' = CellsOf(errors)
      BY <2>4 DEF Pass2
    <3>2. PICK errors \in SUBSET (replied \ ok) :
              (~BatchP2 => errors = replied \ ok) /\ replied' = ok /\ todo' = CellsOf(errors)
      BY <3>1
    <3>3. CASE p \in errors
      BY <1>4, <3>2, <3>3
    <3>4. CASE p \notin errors
      <4>1. PairsAtMost
        BY <2>4, <3>2, <3>4 DEF NobodyIsPassedOver
      <4>2. p \in Papers /\ round \in Rounds
        BY DEF ReasonInv, TypeInv, TypeOK
      <4>3. Closed(rows, p, round)
        BY <4>1, <4>2, PairIsClosed DEF ReasonInv, GroupInv
      <4>4. toMark = {}
        BY <2>4 DEF Pass2, DropsDone
      <4>. QED
        BY <1>4, <3>2, <3>4, <4>3, <4>4
    <3>. QED
      BY <3>3, <3>4
  <2>. QED
    BY <2>1, <2>2, <2>3, <2>4
<1>6. DroppedSilent'
  BY <1>1, <1>5 DEF DroppedSilent
<1>. QED
  BY <1>2, <1>3, <1>6 DEF ReasonInv

LEMMA ReasonBegin ==
    ASSUME ReasonInv, TypeInv', RoundInv', BeginTail
    PROVE  ReasonInv'
<1>1. /\ pc = "drop2" /\ pc' = "tail" /\ todo = {} /\ todo' = {} /\ toMark = {}
      /\ UNCHANGED <<rows, round, excluded, pending, replied, results, verdict>>
  BY DEF BeginTail
<1>2. replied \subseteq pending
  BY DEF ReasonInv, RoundInv
<1>3. GroupInv' /\ PastClosed' /\ ExcludedSound'
  BY <1>1 DEF ReasonInv, GroupInv, PastClosed, ExcludedSound
<1>4. \A p \in Papers \ replied : Closed(rows, p, round)
  <2>1. \A p \in Papers \ pending : Closed(rows, p, round)
    BY <1>1 DEF ReasonInv, AsideClosed, Asking, Dropping
  <2>2. \A p \in pending \ replied :
            (\A q \in Group(round) : Silent(rows[<<p, q>>])) \/ Closed(rows, p, round)
    BY <1>1 DEF ReasonInv, DroppedSilent, Dropping
  <2>. QED
    BY <2>1, <2>2, SilentIsSound DEF Closed
<1>5. AsideClosed' /\ PendingLoose'
  BY <1>1, <1>2, <1>4 DEF ReasonInv, AsideClosed, PendingLoose, Asking, Dropping
<1>6. DroppedSilent' /\ SavedSound'
  BY <1>1 DEF DroppedSilent, SavedSound, Dropping
<1>. QED
  BY <1>3, <1>5, <1>6 DEF ReasonInv

LEMMA ReasonNext ==
    ASSUME ReasonInv, TypeInv', RoundInv', NextRound
    PROVE  ReasonInv'
<1>1. /\ pc = "tail" /\ pc' = "skips" /\ replied = {} /\ todo = {} /\ round' = round + 1
      /\ UNCHANGED <<rows, excluded, verdict>>
  BY DEF NextRound
<1>2. round \in Nat /\ \A q \in Questions : RoundOf[q] \in Nat
  BY ConstantTypes DEF ReasonInv, TypeInv, TypeOK, Rounds
<1>3. \A p \in Papers : Closed(rows, p, round)
  BY <1>1, RoundClosed
<1>4. GroupInv'
  BY <1>1 DEF ReasonInv, GroupInv
<1>5. PastClosed'
  <2>1. \A r \in Rounds : r < round + 1 => r < round \/ r = round
    BY <1>2 DEF Rounds
  <2>. QED
    BY <1>1, <1>3, <2>1 DEF ReasonInv, PastClosed
<1>6. Ahead = rows
  BY <1>1, AheadIsRows DEF ReasonInv
<1>7. ASSUME NEW p \in excluded PROVE Excluded(rows, p, round + 1)
  <2>1. CASE Excluded(rows, p, round)
    BY <1>2, <2>1, GatesAreQuestions DEF Excluded
  <2>2. CASE /\ \E g \in Gates : RoundOf[g] = round /\ rows[<<p, g>>].value \in Failing
             /\ \A q \in Group(round) : rows[<<p, q>>].status = "done"
    BY <1>2, <2>2 DEF Excluded, Whole
  <2>. QED
    BY <1>6, <2>1, <2>2 DEF ReasonInv, ExcludedSound
<1>8. ExcludedSound'
  BY <1>1, <1>7 DEF ExcludedSound
<1>9. AsideClosed' /\ PendingLoose' /\ DroppedSilent' /\ SavedSound'
  BY <1>1 DEF AsideClosed, PendingLoose, DroppedSilent, SavedSound, Dropping, Asking
<1>. QED
  BY <1>4, <1>5, <1>8, <1>9 DEF ReasonInv

\* A reply bears itself out, and a paper it excludes has a gate that fails.
LEMMA TakenSound ==
    ASSUME ~BrokenItems, TypeInv, NEW p \in Papers, TakeReply(p)
    PROVE  /\ \A q \in Group(round) : results'[q].answer = "skipped" =>
                  \/ \E g \in Gates \cap Group(round) : g < q /\ results'[g].value \in Failing
                  \/ \E need \in Needs[q] :
                        /\ need[1] < q /\ need[1] \in Group(round)
                        /\ results'[need[1]].value \notin need[2] \union {NoValue}
           /\ excluded' # excluded =>
                  /\ excluded' = excluded \union {p}
                  /\ \E g \in Gates \cap Group(round) : results'[g].value \in Failing
<1>1. round \in Rounds /\ Group(round) \subseteq Questions
  BY ConstantTypes DEF TypeInv, TypeOK
<1>2. CASE \E items \in [Group(round) -> Items] :
             /\ results' = [s \in Questions |-> IF s \in Group(round) THEN Scoped(items)[s] ELSE NoRow]
             /\ excluded' = IF FailedGates(items) # {} THEN excluded \union {p} ELSE excluded
  <2>1. PICK items \in [Group(round) -> Items] :
             /\ results' = [s \in Questions |-> IF s \in Group(round) THEN Scoped(items)[s] ELSE NoRow]
             /\ excluded' = IF FailedGates(items) # {} THEN excluded \union {p} ELSE excluded
    BY <1>2
  <2>2. \A s \in Group(round) : results'[s] = Scoped(items)[s]
    BY <1>1, <2>1
  <2>3. \A q \in Group(round) : results'[q].answer = "skipped" => StoredReason(items, round, q)
    BY <1>1, <2>2, SkippedIsStored
  <2>4. excluded' # excluded =>
            \E g \in Gates \cap Group(round) : Scoped(items)[g].value \in Failing
    BY <1>1, <2>1, FailureIsStored
  <2>. QED
    BY <2>1, <2>2, <2>3, <2>4 DEF StoredReason
<1>3. CASE /\ results' = [s \in Questions |-> IF s \in Group(round) THEN Done("error", NoValue) ELSE NoRow]
           /\ excluded' = excluded
  <2>1. \A s \in Group(round) : results'[s].answer = "error"
    BY <1>1, <1>3 DEF Done
  <2>. QED
    BY <1>3, <2>1
<1>. QED
  BY <1>2, <1>3 DEF TakeReply

LEMMA ReasonTake ==
    ASSUME ~BrokenItems, ReasonInv, TypeInv', RoundInv', NEW p \in Papers, TakeReply(p)
    PROVE  ReasonInv'
<1>1. /\ pc = "tail" /\ pc' = "tail" /\ p \in replied /\ p \notin excluded
      /\ todo = {} /\ todo' = CellsOf({p}) /\ replied' = replied \ {p}
      /\ UNCHANGED <<rows, round, pending, verdict>>
  BY DEF TakeReply, ReasonInv, RoundInv
<1>2. TypeInv
  BY DEF ReasonInv
<1>3. \A q \in Questions : <<p, q>> \in Cells
  BY DEF Cells
<1>4. \A q \in Group(round) : <<p, q>> \in todo' /\ Ahead'[<<p, q>>] = results'[q]
  BY <1>2, <1>3, InGroup, AheadTaken
<1>5. Sound(Ahead', p, round)
  <2>. SUFFICES ASSUME NEW q \in Group(round), Ahead'[<<p, q>>].answer = "skipped"
                PROVE  ReasonIn(Ahead', p, q)
    BY DEF Sound
  <2>1. \/ \E g \in Gates \cap Group(round) : g < q /\ results'[g].value \in Failing
        \/ \E need \in Needs[q] :
              /\ need[1] < q /\ need[1] \in Group(round)
              /\ results'[need[1]].value \notin need[2] \union {NoValue}
    BY <1>2, <1>4, TakenSound
  <2>2. RoundOf[q] = round
    BY InGroup
  <2>3. CASE \E g \in Gates \cap Group(round) : g < q /\ results'[g].value \in Failing
    BY <1>4, <2>2, <2>3, InGroup DEF ReasonIn
  <2>4. CASE \E need \in Needs[q] :
              /\ need[1] < q /\ need[1] \in Group(round)
              /\ results'[need[1]].value \notin need[2] \union {NoValue}
    <3>1. PICK need \in Needs[q] :
              /\ need[1] < q /\ need[1] \in Group(round)
              /\ results'[need[1]].value \notin need[2] \union {NoValue}
      BY <2>4
    <3>2. RoundOf[need[1]] = RoundOf[q]
      BY <2>2, <3>1, InGroup
    <3>3. Ahead'[<<p, need[1]>>].value \notin need[2] \union {NoValue}
      BY <1>4, <3>1
    <3>. QED
      BY <3>1, <3>2, <3>3 DEF ReasonIn, Lacks
  <2>. QED
    BY <2>1, <2>3, <2>4
<1>6. \A q \in Group(round) : Ahead'[<<p, q>>].status = "done"
  BY <1>2, <1>4, TakenType
<1>7. \A c \in todo' : c[1] = p /\ c[2] \in Group(round) /\ c = <<p, c[2]>>
  BY <1>1 DEF CellsOf
<1>8. Excluded(rows, p, round) \/ Loose(rows, p, round)
  BY <1>1 DEF ReasonInv, PendingLoose
<1>9. ASSUME NEW c \in todo', ~Excluded(rows, p, round), ~Silent(rows[c])
      PROVE  \E d \in todo' : c[2] < d[2] /\ rows[d].status # "done"
  <2>1. PICK e \in Group(round) : c[2] < e /\ rows[<<p, e>>].status # "done"
    BY <1>7, <1>8, <1>9 DEF Loose
  <2>. QED
    BY <1>4, <2>1
<1>10. SavedSound'
  BY <1>1, <1>5, <1>6, <1>7, <1>9 DEF SavedSound
<1>11. ASSUME NEW x \in excluded, ~Excluded(rows, x, round)
       PROVE  /\ \E g \in Gates : RoundOf[g] = round /\ Ahead'[<<x, g>>].value \in Failing
              /\ \A q \in Group(round) : Ahead'[<<x, q>>].status = "done"
  <2>1. x # p /\ x \in Papers
    BY <1>1, <1>2 DEF TypeInv, TypeOK
  <2>2. \A q \in Questions : Ahead'[<<x, q>>] = Ahead[<<x, q>>]
    BY <1>2, <2>1, AheadTaken DEF Cells
  <2>3. /\ \E g \in Gates : RoundOf[g] = round /\ Ahead[<<x, g>>].value \in Failing
        /\ \A q \in Group(round) : Ahead[<<x, q>>].status = "done"
    BY <1>11 DEF ReasonInv, ExcludedSound
  <2>. QED
    BY <2>2, <2>3, InGroup, GatesAreQuestions
<1>12. ASSUME excluded' # excluded
       PROVE  /\ excluded' = excluded \union {p}
              /\ \E g \in Gates : RoundOf[g] = round /\ Ahead'[<<p, g>>].value \in Failing
  BY <1>2, <1>4, <1>12, TakenSound, InGroup
<1>13. ExcludedSound'
  <2>. SUFFICES ASSUME NEW x \in excluded', ~Excluded(rows, x, round)
                PROVE  /\ \E g \in Gates : RoundOf[g] = round /\ Ahead'[<<x, g>>].value \in Failing
                       /\ \A q \in Group(round) : Ahead'[<<x, q>>].status = "done"
    BY <1>1 DEF ExcludedSound
  <2>1. CASE x \in excluded
    BY <1>11, <2>1
  <2>2. CASE x \notin excluded
    BY <1>6, <1>12, <2>2
  <2>. QED
    BY <2>1, <2>2
<1>14. AsideClosed'
  <2>. SUFFICES ASSUME NEW x \in Papers \ replied', \A c \in todo' : c[1] # x
                PROVE  Closed(rows, x, round)
    BY <1>1 DEF AsideClosed, Asking, Dropping
  <2>1. CASE x = p
    <3>1. Group(round) = {}
      BY <1>4, <2>1
    <3>. QED
      BY <2>1, <3>1 DEF Closed, Sound
  <2>2. CASE x # p
    BY <1>1, <2>2 DEF ReasonInv, AsideClosed
  <2>. QED
    BY <2>1, <2>2
<1>15. PendingLoose' /\ DroppedSilent'
  BY <1>1 DEF ReasonInv, PendingLoose, DroppedSilent, Asking, Dropping
<1>16. GroupInv' /\ PastClosed'
  BY <1>1 DEF ReasonInv, GroupInv, PastClosed
<1>. QED
  BY <1>10, <1>13, <1>14, <1>15, <1>16 DEF ReasonInv

---------------------------------------------------------------------------
(* Steps that write a row.                                                 *)

\* What a write keeps, whatever becomes of its own group.
LEMMA WriteKeeps ==
    ASSUME ReasonInv, NEW own \in Papers, OnlyIn(rows, rows', own, round),
           StillFails(rows, rows', own, round), round' = round, verdict' = verdict,
           pc' = pc, pc # "idle", Resting(rows', own, round)
    PROVE  /\ GroupInv' /\ PastClosed'
           /\ \A p \in Papers : Excluded(rows, p, round) => Excluded(rows', p, round)
           /\ \A p \in Papers : p # own /\ Closed(rows, p, round) => Closed(rows', p, round)
           /\ \A p \in Papers : p # own /\ Loose(rows, p, round) => Loose(rows', p, round)
<1>1. round \in Rounds /\ verdict = "none"
  BY DEF ReasonInv, TypeInv, TypeOK, RoundInv
<1>2. /\ \A p \in Papers, r \in Rounds : Excluded(rows, p, r) => Excluded(rows', p, r)
      /\ \A p \in Papers, r \in Rounds : ~(p = own /\ r = round) =>
             /\ Resting(rows, p, r) => Resting(rows', p, r)
             /\ Closed(rows, p, r) => Closed(rows', p, r)
             /\ Loose(rows, p, r) => Loose(rows', p, r)
  BY <1>1, OthersKept
<1>3. GroupInv'
  BY <1>2 DEF ReasonInv, GroupInv
<1>4. PastClosed'
  <2>1. \A r \in Rounds : r < round => r # round
    BY <1>1 DEF Rounds
  <2>. QED
    BY <1>1, <1>2, <2>1 DEF ReasonInv, PastClosed
<1>. QED
  BY <1>1, <1>2, <1>3, <1>4

LEMMA ReasonSkip ==
    ASSUME ReasonInv, TypeInv', RoundInv', NEW c \in Cells, SaveSkip(c)
    PROVE  ReasonInv'
<1>1. /\ pc = "skips" /\ pc' = "skips" /\ c \in todo
      /\ rows' = [rows EXCEPT ![c] = Done("skipped", NoValue)]
      /\ UNCHANGED <<round, excluded, pending, replied, verdict>>
  BY DEF SaveSkip, IsFirst
<1>2. c[1] \in excluded /\ c[1] \in Papers /\ RoundOf[c[2]] = round /\ rows \in [Cells -> Row]
      /\ round \in Rounds
  BY <1>1 DEF ReasonInv, RoundInv, TypeInv, TypeOK, Cells
<1>3. Excluded(rows, c[1], round)
  BY <1>1, <1>2 DEF ReasonInv, ExcludedSound
<1>4. OnlyIn(rows, rows', c[1], round) /\ StillFails(rows, rows', c[1], round)
  BY <1>1, <1>2, <1>3 DEF OnlyIn, StillFails
<1>5. Excluded(rows', c[1], round)
  BY <1>2, <1>3, <1>4, ExcludedKept
<1>6. /\ GroupInv' /\ PastClosed'
      /\ \A p \in Papers : Excluded(rows, p, round) => Excluded(rows', p, round)
  BY <1>1, <1>2, <1>4, <1>5, WriteKeeps DEF Resting
<1>7. ExcludedSound'
  BY <1>1, <1>6 DEF ReasonInv, ExcludedSound, TypeInv, TypeOK
<1>8. AsideClosed' /\ PendingLoose' /\ DroppedSilent' /\ SavedSound'
  BY <1>1 DEF AsideClosed, PendingLoose, DroppedSilent, SavedSound, Dropping, Asking
<1>. QED
  BY <1>6, <1>7, <1>8 DEF ReasonInv

\* A paper that is dropped: silent as far as the loop has come, loose as a whole.
LEMMA ReasonDrop ==
    ASSUME ReasonInv, TypeInv', RoundInv', NEW c \in Cells, Drop(c) \/ MarkFailed(c)
    PROVE  ReasonInv'
<1>1. TypeInv /\ RoundInv
  BY DEF ReasonInv
<1>2. /\ Dropping /\ pc' = pc /\ c \in todo \union toMark
      /\ UNCHANGED <<round, excluded, pending, replied, verdict>>
  BY <1>1 DEF Drop, MarkFailed, IsFirst, Dropping, RoundInv
<1>3. /\ c[1] \in pending \ replied /\ c[1] \in Papers /\ c[2] \in Questions
      /\ RoundOf[c[2]] = round /\ c = <<c[1], c[2]>>
      /\ rows \in [Cells -> Row] /\ round \in Rounds
  BY <1>1, <1>2 DEF RoundInv, TypeInv, TypeOK, Cells
<1>4. \A q \in Group(round) : <<c[1], q>> \notin todo => Silent(rows[<<c[1], q>>])
  BY <1>2, <1>3 DEF ReasonInv, DroppedSilent
<1>5. /\ \A d \in Cells : d # c => rows'[d] = rows[d]
      /\ Silent(rows'[c]) /\ (c \in toMark => rows'[c].status # "done")
      /\ todo' = todo \ {c}
  <2>1. CASE Drop(c)
    <3>1. c \notin toMark
      BY <2>1 DEF Drop
    <3>. QED
      BY <1>3, <2>1, <3>1 DEF Drop, Silent, Done
  <2>2. CASE MarkFailed(c)
    <3>1. c \in toMark /\ c \notin todo /\ rows' = [rows EXCEPT ![c].status = "failed"]
          /\ todo' = todo
      BY <1>1, <2>2 DEF MarkFailed, RoundInv
    <3>2. Silent(rows[c])
      BY <1>4, <1>3, <3>1, InGroup
    <3>3. /\ rows'[c].answer = rows[c].answer /\ rows'[c].value = rows[c].value
          /\ rows'[c].status = "failed"
      BY <1>3, <3>1 DEF Row
    <3>. QED
      BY <3>1, <3>2, <3>3 DEF Silent
  <2>. QED
    BY <2>1, <2>2
<1>6. OnlyIn(rows, rows', c[1], round)
  BY <1>3, <1>5 DEF OnlyIn
<1>7. Excluded(rows, c[1], round) \/ Loose(rows, c[1], round)
  BY <1>2, <1>3 DEF ReasonInv, PendingLoose, Asking
<1>8. StillFails(rows, rows', c[1], round)
  BY <1>7, LooseStillFails
<1>9. \A q \in Group(round) : <<c[1], q>> \notin todo' => Silent(rows'[<<c[1], q>>])
  <2>1. \A q \in Group(round) : <<c[1], q>> \in Cells
    BY <1>3, InGroup DEF Cells
  <2>. QED
    BY <1>4, <1>5, <2>1
<1>10. ASSUME Loose(rows, c[1], round) PROVE Loose(rows', c[1], round)
  <2>1. ASSUME NEW q \in Group(round), rows'[<<c[1], q>>].answer = "skipped"
        PROVE  \E e \in Group(round) : e < q
    <3>1. <<c[1], q>> \in Cells /\ <<c[1], q>> # c
      BY <1>3, <1>5, <2>1, InGroup DEF Cells, Silent
    <3>2. rows[<<c[1], q>>].answer = "skipped"
      BY <1>5, <2>1, <3>1
    <3>. QED
      BY <1>10, <3>2 DEF Loose
  <2>. SUFFICES ASSUME NEW q \in Group(round), ~Silent(rows'[<<c[1], q>>])
                PROVE  \E d \in Group(round) : q < d /\ rows'[<<c[1], d>>].status # "done"
    BY <2>1 DEF Loose
  <2>2. q \in Questions /\ <<c[1], q>> \in Cells /\ <<c[1], q>> # c
    BY <1>3, <1>5, InGroup DEF Cells
  <2>3. PICK d \in Group(round) : q < d /\ rows[<<c[1], d>>].status # "done"
    BY <1>5, <1>10, <2>2 DEF Loose
  <2>4. <<c[1], q>> \in todo
    BY <1>4, <1>5, <2>2
  <2>5. d # c[2] \/ c \in toMark
    <3>1. c \in toMark \/ ~Precedes(<<c[1], q>>, c)
      BY <1>2, <2>4 DEF Drop, MarkFailed, IsFirst
    <3>. QED
      BY <1>3, <2>2, <2>3, <3>1 DEF Precedes, Questions
  <2>6. <<c[1], d>> \in Cells
    BY <1>3, InGroup DEF Cells
  <2>. QED
    BY <1>3, <1>5, <2>3, <2>5, <2>6
<1>11. Resting(rows', c[1], round)
  BY <1>3, <1>6, <1>7, <1>8, <1>10, ExcludedKept DEF Resting
<1>12. /\ GroupInv' /\ PastClosed'
       /\ \A p \in Papers : Excluded(rows, p, round) => Excluded(rows', p, round)
       /\ \A p \in Papers : p # c[1] /\ Closed(rows, p, round) => Closed(rows', p, round)
       /\ \A p \in Papers : p # c[1] /\ Loose(rows, p, round) => Loose(rows', p, round)
  BY <1>2, <1>3, <1>6, <1>8, <1>11, WriteKeeps DEF Dropping
<1>13. ExcludedSound'
  BY <1>1, <1>2, <1>12 DEF ReasonInv, ExcludedSound, TypeInv, TypeOK, Dropping
<1>14. AsideClosed'
  BY <1>1, <1>2, <1>3, <1>12 DEF ReasonInv, AsideClosed, Asking, Dropping
<1>15. PendingLoose'
  BY <1>1, <1>2, <1>10, <1>12 DEF ReasonInv, PendingLoose, Asking, Dropping, TypeInv, TypeOK
<1>16. DroppedSilent'
  <2>. SUFFICES ASSUME NEW p \in pending \ replied, p # c[1]
                PROVE  \/ \A q \in Group(round) : <<p, q>> \notin todo' => Silent(rows'[<<p, q>>])
                       \/ Closed(rows', p, round) /\ \A d \in todo' \union toMark' : d[1] # p
    BY <1>2, <1>9 DEF DroppedSilent, Dropping
  <2>1. p \in Papers /\ \A q \in Group(round) : <<p, q>> \in Cells
    BY <1>1, InGroup DEF TypeInv, TypeOK, Cells
  <2>2. toMark' \subseteq {c}
    BY DEF Drop, MarkFailed
  <2>3. CASE \A q \in Group(round) : <<p, q>> \notin todo => Silent(rows[<<p, q>>])
    BY <1>5, <2>1, <2>3
  <2>4. CASE Closed(rows, p, round) /\ \A d \in todo \union toMark : d[1] # p
    BY <1>5, <1>12, <2>1, <2>2, <2>4
  <2>. QED
    BY <1>2, <2>3, <2>4 DEF ReasonInv, DroppedSilent
<1>17. SavedSound'
  BY <1>2 DEF SavedSound, Dropping
<1>. QED
  BY <1>12, <1>13, <1>14, <1>15, <1>16, <1>17 DEF ReasonInv

\* A row of a reply is saved: what lies ahead stays, and the rest of the group is
\* as loose as it was.  With the last open cell gone, all that is left is silent.
LEMMA SavedGroup ==
    ASSUME ReasonInv, NEW c \in Cells, SaveReply(c), ~Excluded(rows, c[1], round)
    PROVE  /\ StillFails(rows, rows', c[1], round)
           /\ \/ todo' # {} /\ Loose(rows', c[1], round)
              \/ Whole(rows', c[1], round) /\ Sound(rows', c[1], round)
<1>1. TypeInv /\ RoundInv
  BY DEF ReasonInv
<1>2. /\ pc = "tail" /\ c \in todo /\ todo' = todo \ {c}
      /\ \A d \in todo : ~Precedes(d, c)
      /\ rows' = [rows EXCEPT ![c] = results[c[2]]]
  BY DEF SaveReply, IsFirst
<1>. DEFINE p == c[1]
<1>3. /\ p \in Papers /\ c[2] \in Questions /\ c[2] \in Group(round) /\ c = <<p, c[2]>>
      /\ rows \in [Cells -> Row] /\ todo \subseteq Cells
  BY <1>1, <1>2, InGroup DEF RoundInv, TypeInv, TypeOK, Cells
<1>4. \A q \in Group(round) : q \in Questions /\ q \in Nat /\ RoundOf[q] = round /\ <<p, q>> \in Cells
  BY <1>3, InGroup DEF Cells, Questions
<1>. HIDE DEF p
<1>5. \A d \in todo : d[1] = p /\ d[2] \in Group(round) /\ d = <<p, d[2]>>
  <2>1. \A d \in todo : d[1] = c[1] /\ RoundOf[d[2]] = round
    BY <1>1, <1>2 DEF RoundInv
  <2>. QED
    BY <1>3, <2>1, InGroup DEF Cells, p
<1>6. \A q \in Group(round) : <<p, q>> \in todo' => c[2] < q
  BY <1>2, <1>3, <1>4, <1>5 DEF Precedes, p, Questions
<1>7. \A q, d \in Group(round) : <<p, q>> \in todo' /\ q < d => <<p, d>> \in todo'
  <2>. SUFFICES ASSUME NEW q \in Group(round), NEW d \in Group(round), <<p, q>> \in todo', q < d
                PROVE  <<p, d>> \in todo'
    OBVIOUS
  <2>1. <<p, d>> \in todo
    BY <1>1, <1>2, <1>4 DEF RoundInv
  <2>2. d # c[2]
    BY <1>3, <1>4, <1>6 DEF Questions
  <2>. QED
    BY <1>2, <1>3, <2>1, <2>2
<1>8. Ahead' = Ahead
  BY <1>1, <1>2, AheadSaved DEF RoundInv
<1>9. /\ Sound(Ahead, p, round)
      /\ \A q \in Group(round) : Ahead[<<p, q>>].status = "done"
      /\ \A d \in todo : \/ Silent(rows[d])
                         \/ \E e \in todo : d[2] < e[2] /\ rows[e].status # "done"
  <2>1. \A d \in todo : d[1] = p
    BY <1>5
  <2>2. \A d \in todo :
            /\ Sound(Ahead, p, round)
            /\ \A q \in Group(round) : Ahead[<<p, q>>].status = "done"
            /\ \/ Silent(rows[d])
               \/ \E e \in todo : d[2] < e[2] /\ rows[e].status # "done"
    BY <1>2, <2>1 DEF ReasonInv, SavedSound, p
  <2>. QED
    BY <1>2, <2>2
<1>10. \A q \in Group(round) : <<p, q>> \notin todo' => rows'[<<p, q>>] = Ahead[<<p, q>>]
  <2>1. \A q \in Group(round) : <<p, q>> \notin todo' => rows'[<<p, q>>] = Ahead'[<<p, q>>]
    BY <1>4 DEF Ahead
  <2>. QED
    BY <1>8, <2>1
<1>11. \A q \in Group(round) : <<p, q>> # c => rows'[<<p, q>>] = rows[<<p, q>>]
  BY <1>2, <1>3, <1>4
<1>12. \A q \in Group(round) : <<p, q>> \in todo' => rows'[<<p, q>>] = rows[<<p, q>>]
  BY <1>2, <1>11
<1>13. StillFails(rows, rows', p, round)
  <2>. SUFFICES ASSUME NEW g \in Gates, RoundOf[g] = round, rows[<<p, g>>].value \in Failing,
                       Whole(rows, p, round)
                PROVE  rows'[<<p, g>>].value \in Failing /\ Whole(rows', p, round)
    BY DEF StillFails
  <2>1. g \in Group(round)
    BY InGroup, GatesAreQuestions
  <2>2. ~Silent(rows[<<p, g>>])
    BY FailingAreValues, NoValueIsNone DEF Silent
  <2>3. \A d \in todo : rows[d].status = "done"
    BY <1>5 DEF Whole
  <2>4. <<p, g>> \notin todo
    BY <1>9, <2>2, <2>3
  <2>5. rows'[<<p, g>>] = rows[<<p, g>>]
    BY <1>2, <1>11, <2>1, <2>4
  <2>6. \A q \in Group(round) : rows'[<<p, q>>].status = "done"
    BY <1>2, <1>9, <1>10, <1>11 DEF Whole
  <2>. QED
    BY <2>5, <2>6 DEF Whole
<1>14. CASE \E e \in todo' : rows[e].status # "done"
  <2>1. PICK e \in Group(round) : <<p, e>> \in todo' /\ rows[<<p, e>>].status # "done"
    BY <1>2, <1>5, <1>14
  <2>2. rows'[<<p, e>>].status # "done"
    BY <1>12, <2>1
  <2>3. ASSUME NEW q \in Group(round), ~Silent(rows'[<<p, q>>])
        PROVE  \E d \in Group(round) : q < d /\ rows'[<<p, d>>].status # "done"
    <3>1. CASE <<p, q>> \in todo'
      <4>1. ~Silent(rows[<<p, q>>]) /\ <<p, q>> \in todo
        BY <1>2, <1>12, <2>3, <3>1
      <4>2. PICK d \in todo : q < d[2] /\ rows[d].status # "done"
        BY <1>9, <4>1
      <4>3. d[2] \in Group(round) /\ d = <<p, d[2]>>
        BY <1>5
      <4>4. <<p, d[2]>> \in todo'
        BY <1>7, <3>1, <4>2, <4>3
      <4>. QED
        BY <1>12, <4>2, <4>3, <4>4
    <3>2. CASE <<p, q>> \notin todo'
      <4>1. ~(e < q) /\ e # q
        BY <1>7, <2>1, <3>2
      <4>2. e \in Nat /\ q \in Nat
        BY <1>4
      <4>3. q < e
        BY <4>1, <4>2
      <4>. QED
        BY <2>2, <4>3
    <3>. QED
      BY <3>1, <3>2
  <2>4. ASSUME NEW q \in Group(round), rows'[<<p, q>>].answer = "skipped"
        PROVE  \E d \in Group(round) : d < q
    <3>1. CASE <<p, q>> \in todo'
      <4>1. Sound(rows, p, round) \/ Loose(rows, p, round)
        BY <1>1, <1>3 DEF ReasonInv, GroupInv, Resting, TypeInv, TypeOK, p
      <4>2. rows[<<p, q>>].answer = "skipped"
        BY <1>12, <2>4, <3>1
      <4>. QED
        BY <4>1, <4>2, SkippedIsPreceded
    <3>2. CASE <<p, q>> \notin todo'
      <4>1. Ahead[<<p, q>>].answer = "skipped"
        BY <1>10, <2>4, <3>2
      <4>. QED
        BY <1>9, <4>1, SkippedIsPreceded
    <3>. QED
      BY <3>1, <3>2
  <2>. QED
    BY <1>13, <2>1, <2>3, <2>4 DEF Loose, p
<1>15. CASE \A e \in todo' : rows[e].status = "done"
  <2>1. ASSUME NEW q \in Group(round), <<p, q>> \in todo' PROVE Silent(rows'[<<p, q>>])
    <3>1. <<p, q>> \in todo
      BY <1>2, <2>1
    <3>2. ASSUME NEW e \in todo, q < e[2] PROVE rows[e].status = "done"
      <4>1. e[2] \in Group(round) /\ e = <<p, e[2]>>
        BY <1>5
      <4>2. e \in todo'
        BY <1>7, <2>1, <3>2, <4>1
      <4>. QED
        BY <1>15, <4>2
    <3>3. Silent(rows[<<p, q>>])
      BY <1>9, <3>1, <3>2
    <3>. QED
      BY <1>12, <2>1, <3>3
  <2>2. Whole(rows', p, round)
    BY <1>9, <1>10, <1>12, <1>15 DEF Whole
  <2>3. ASSUME NEW q \in Group(round), rows'[<<p, q>>].answer = "skipped"
        PROVE  ReasonIn(rows', p, q)
    <3>1. <<p, q>> \notin todo'
      BY <2>1, <2>3 DEF Silent
    <3>2. ReasonIn(Ahead, p, q)
      BY <1>9, <1>10, <2>3, <3>1 DEF Sound
    <3>3. \A d \in Group(round) : d < q => rows'[<<p, d>>] = Ahead[<<p, d>>]
      BY <1>7, <1>10, <3>1
    <3>4. RoundOf[q] = round /\ q \in Questions
      BY <1>4
    <3>5. \A g \in Gates : RoundOf[g] = round => g \in Group(round)
      BY InGroup, GatesAreQuestions
    <3>6. \A need \in Needs[q] : RoundOf[need[1]] = round => need[1] \in Group(round)
      BY <3>4, InGroup, NeedType
    <3>7. Lacks(Ahead, p, q) => Lacks(rows', p, q)
      BY <3>3, <3>4, <3>6 DEF Lacks
    <3>. QED
      BY <3>2, <3>3, <3>4, <3>5, <3>7 DEF ReasonIn
  <2>. QED
    BY <1>13, <2>2, <2>3 DEF Sound, p
<1>. QED
  BY <1>14, <1>15

LEMMA ReasonSave ==
    ASSUME ReasonInv, TypeInv', RoundInv', NEW c \in Cells, SaveReply(c)
    PROVE  ReasonInv'
<1>1. TypeInv /\ RoundInv
  BY DEF ReasonInv
<1>2. /\ pc = "tail" /\ pc' = "tail" /\ c \in todo /\ todo' = todo \ {c}
      /\ \A d \in todo : ~Precedes(d, c)
      /\ rows' = [rows EXCEPT ![c] = results[c[2]]]
      /\ UNCHANGED <<round, excluded, pending, replied, verdict>>
  BY DEF SaveReply, IsFirst
<1>3. /\ c[1] \in Papers /\ c[2] \in Questions /\ RoundOf[c[2]] = round /\ c[1] \notin replied
      /\ rows \in [Cells -> Row] /\ todo \subseteq Cells /\ round \in Rounds
  BY <1>1, <1>2 DEF RoundInv, TypeInv, TypeOK, Cells
<1>4. \A d \in todo : d[1] = c[1]
  BY <1>1, <1>2 DEF RoundInv
<1>5. Ahead' = Ahead
  BY <1>1, <1>2, AheadSaved DEF RoundInv
<1>6. \A d \in Cells : d # c => rows'[d] = rows[d]
  BY <1>2, <1>3
<1>7. OnlyIn(rows, rows', c[1], round)
  BY <1>3, <1>6 DEF OnlyIn
<1>8. StillFails(rows, rows', c[1], round)
  BY SavedGroup DEF StillFails
<1>9. Excluded(rows, c[1], round) => Excluded(rows', c[1], round)
  BY <1>3, <1>7, <1>8, ExcludedKept
<1>10. Resting(rows', c[1], round) /\ (todo' = {} => Closed(rows', c[1], round))
  BY <1>9, SavedGroup DEF Resting, Closed
<1>11. /\ GroupInv' /\ PastClosed'
       /\ \A p \in Papers : Excluded(rows, p, round) => Excluded(rows', p, round)
       /\ \A p \in Papers : p # c[1] /\ Closed(rows, p, round) => Closed(rows', p, round)
       /\ \A p \in Papers : p # c[1] /\ Loose(rows, p, round) => Loose(rows', p, round)
  BY <1>2, <1>3, <1>7, <1>8, <1>10, WriteKeeps
<1>12. ExcludedSound'
  <2>1. excluded \subseteq Papers
    BY <1>1 DEF TypeInv, TypeOK
  <2>. QED
    BY <1>2, <1>5, <1>11, <2>1 DEF ReasonInv, ExcludedSound
<1>13. AsideClosed'
  <2>. SUFFICES ASSUME NEW p \in Papers \ replied, \A d \in todo' : d[1] # p
                PROVE  Closed(rows', p, round)
    BY <1>2 DEF AsideClosed, Asking, Dropping
  <2>1. CASE p = c[1]
    <3>1. todo' = {}
      BY <1>2, <1>4, <2>1
    <3>. QED
      BY <1>10, <2>1, <3>1
  <2>2. CASE p # c[1]
    BY <1>2, <1>4, <1>11, <2>2 DEF ReasonInv, AsideClosed
  <2>. QED
    BY <2>1, <2>2
<1>14. PendingLoose'
  <2>1. replied \subseteq Papers
    BY <1>1 DEF TypeInv, TypeOK
  <2>. QED
    BY <1>2, <1>3, <1>11, <2>1 DEF ReasonInv, PendingLoose, Asking, Dropping
<1>15. SavedSound'
  <2>. SUFFICES ASSUME NEW d \in todo'
                PROVE  /\ Sound(Ahead, d[1], round)
                       /\ \A q \in Group(round) : Ahead[<<d[1], q>>].status = "done"
                       /\ \/ Excluded(rows', d[1], round)
                          \/ Silent(rows'[d])
                          \/ \E e \in todo' : d[2] < e[2] /\ rows'[e].status # "done"
    BY <1>2, <1>5 DEF SavedSound
  <2>1. d \in todo /\ d # c /\ d \in Cells /\ d[1] \in Papers
    BY <1>2, <1>3 DEF Cells
  <2>2. /\ Sound(Ahead, d[1], round)
        /\ \A q \in Group(round) : Ahead[<<d[1], q>>].status = "done"
        /\ \/ Excluded(rows, d[1], round)
           \/ Silent(rows[d])
           \/ \E e \in todo : d[2] < e[2] /\ rows[e].status # "done"
    BY <1>2, <2>1 DEF ReasonInv, SavedSound
  <2>3. ASSUME NEW e \in todo, d[2] < e[2] PROVE e \in todo' /\ rows'[e] = rows[e]
    <3>1. e # c
      BY <1>2, <1>3, <1>4, <2>1, <2>3 DEF Precedes, Cells, Questions
    <3>. QED
      BY <1>2, <1>3, <1>6, <3>1
  <2>. QED
    BY <1>6, <1>11, <2>1, <2>2, <2>3
<1>16. DroppedSilent'
  BY <1>2 DEF DroppedSilent, Dropping
<1>. QED
  BY <1>11, <1>12, <1>13, <1>14, <1>15, <1>16 DEF ReasonInv

LEMMA ReasonStutter ==
    ASSUME ReasonInv, TypeInv', RoundInv', UNCHANGED vars
    PROVE  ReasonInv'
<1>1. UNCHANGED <<rows, pc, round, excluded, pending, replied, todo, toMark, results, verdict>>
  BY DEF vars
<1>2. Ahead' = Ahead
  BY <1>1 DEF Ahead
<1>3. GroupInv' /\ PastClosed' /\ ExcludedSound'
  BY <1>1, <1>2 DEF ReasonInv, GroupInv, PastClosed, ExcludedSound
<1>4. AsideClosed' /\ PendingLoose' /\ DroppedSilent' /\ SavedSound'
  BY <1>1, <1>2 DEF ReasonInv, AsideClosed, PendingLoose, DroppedSilent, SavedSound, Dropping, Asking
<1>. QED
  BY <1>3, <1>4 DEF ReasonInv

LEMMA ReasonStep ==
    ASSUME NobodyIsPassedOver \/ PairsAtMost, ~BrokenItems, ReasonInv, [Next]_vars
    PROVE  ReasonInv'
<1>1. TypeInv' /\ RoundInv'
  BY TypeStep, RoundStep DEF ReasonInv, NobodyIsPassedOver
<1>2. CASE Park \/ Crash
  BY <1>1, <1>2, ReasonEnd DEF Park, Crash
<1>3. CASE WriteStep
  BY <1>1, <1>3, ReasonSkip, ReasonDrop, ReasonSave DEF WriteStep
<1>4. CASE \E p \in Papers : TakeReply(p)
  BY <1>1, <1>4, ReasonTake
<1>. QED
  BY <1>1, <1>2, <1>3, <1>4, ReasonStart, ReasonList, ReasonCall, ReasonBegin, ReasonNext,
     ReasonFinish, ReasonStutter DEF Next, ProgramStep

\* Whatever cut earlier runs short, once a run has succeeded no question is
\* skipped that the stored answers do not put out of scope.  Items that are thrown
\* away as damaged are left out, and so are groups of three that a run may pass over:
\* two crashes leave their skips half rewritten, and it takes a reply to mend them.
THEOREM SkippedHasReason ==
    ASSUME RoundsInOrder, ~BrokenItems, NobodyIsPassedOver \/ PairsAtMost
    PROVE  Spec => []SkippedForReason
<1>1. Init => ReasonInv
  <2>. SUFFICES ASSUME Init PROVE ReasonInv
    OBVIOUS
  <2>1. TypeInv
    BY InitType
  <2>2. RoundInv
    BY DEF Init, RoundInv, Dropping, Asking
  <2>3. \A p \in Papers, r \in Rounds : \A q \in Group(r) : Silent(rows[<<p, q>>])
    BY InGroup DEF Init, Silent, NoRow, Cells
  <2>4. GroupInv
    BY <2>3 DEF GroupInv, Resting, Loose, Silent
  <2>5. ExcludedSound /\ PastClosed
    BY DEF Init, ExcludedSound, PastClosed
  <2>6. AsideClosed /\ PendingLoose /\ DroppedSilent /\ SavedSound
    BY DEF Init, AsideClosed, PendingLoose, DroppedSilent, SavedSound, Dropping, Asking
  <2>. QED
    BY <2>1, <2>2, <2>4, <2>5, <2>6 DEF ReasonInv
<1>2. ReasonInv /\ [Next]_vars => ReasonInv'
  BY ReasonStep
<1>3. ReasonInv => SkippedForReason
  <2>. SUFFICES ASSUME ReasonInv, verdict = "succeeded", NEW c \in Cells, rows[c].answer = "skipped"
                PROVE  Reason(c[1], c[2])
    BY DEF SkippedForReason
  <2>1. c[1] \in Papers /\ RoundOf[c[2]] \in Rounds
    BY ConstantTypes DEF Cells
  <2>2. Closed(rows, c[1], RoundOf[c[2]])
    BY <2>1 DEF ReasonInv, PastClosed
  <2>. QED
    BY <2>2, ClosedHasReason
<1>. QED
  BY <1>1, <1>2, <1>3, PTL DEF Spec
=============================================================================
