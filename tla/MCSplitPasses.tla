--------------------------- MODULE MCSplitPasses ---------------------------
(***************************************************************************)
(* Small instances of SplitPasses for TLC: the commands given, and how the *)
(* questions are grouped.                                                  *)
(***************************************************************************)
EXTENDS SplitPasses

\* Two questions in one call.
Together == [q \in 1..2 |-> 1]
Single   == [q \in 1..1 |-> 1]

\* Three commands in any order, then all of them once more: pass2 a second
\* time, because the first may find another paper's batch under its key.
AnyThenAll ==
    LET any == {"pass1", "pass2", "pass2nopost"}
    IN  <<any, any, any, {"pass1"}, {"pass2nopost"}, {"pass2"}, {"repost"}>>

\* pass1 and pass2 in turn.
InTurn == <<{"pass1"}, {"pass2"}, {"pass1"}, {"pass2"}>>
=============================================================================
