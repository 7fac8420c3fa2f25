--------------------------- MODULE AnswerDelivery --------------------------
(***************************************************************************)
(* What the annotator promises about delivering answers, with no mention   *)
(* of passes, batches, chunks or crashes.  Each cell has a current answer  *)
(* and a debt.  Building an answer puts the cell in debt; the debt may be  *)
(* written off only when the current answer is what SEER was last sent,    *)
(* or when the answer itself is thrown away (--reset-runs).  Sending is    *)
(* at least once: an answer may be sent any number of times, in debt or    *)
(* not, and a send may reach SEER without the sender learning of it.       *)
(***************************************************************************)
CONSTANTS Cells,      \* the (paper, question) pairs of one run
          Answers,    \* what a cell's answer can be
          NoAnswer

VARIABLES current,    \* [Cells -> Answers \union {NoAnswer}]
          received,   \* what SEER was last sent for the cell
          owed        \* the cells whose current answer is not known to be there

vars == <<current, received, owed>>

Init ==
    /\ current = [c \in Cells |-> NoAnswer]
    /\ received = [c \in Cells |-> NoAnswer]
    /\ owed = {}

\* A new answer for one cell is stored: it is owed, whatever was owed before.
Build(c) ==
    /\ current'[c] \in Answers
    /\ current' = [current EXCEPT ![c] = current'[c]]
    /\ owed' = owed \union {c}
    /\ UNCHANGED received

\* SEER receives the current answers of a set of cells.
Receive(S) ==
    /\ \A c \in S : current[c] # NoAnswer
    /\ received' = [c \in Cells |-> IF c \in S THEN current[c] ELSE received[c]]
    /\ UNCHANGED <<current, owed>>

\* The debts of a set of cells are written off: all of them are paid.
Settle(S) ==
    /\ \A c \in S : current[c] # NoAnswer /\ received[c] = current[c]
    /\ owed' = owed \ S
    /\ UNCHANGED <<current, received>>

\* Every stored answer of the run is dropped, and the debts with them.
Discard ==
    /\ current' = [c \in Cells |-> NoAnswer]
    /\ owed' = {}
    /\ UNCHANGED received

Next ==
    \/ \E c \in Cells : Build(c)
    \/ \E S \in SUBSET Cells : Receive(S) \/ Settle(S)
    \/ Discard

Spec == Init /\ [][Next]_vars
=============================================================================
