--------------------------- MODULE MCRunPipeline ---------------------------
(***************************************************************************)
(* Small instances of RunPipeline for TLC: how the questions are grouped   *)
(* and which --papers filters the user gives.                              *)
(***************************************************************************)
EXTENDS RunPipeline

\* Two questions in one call.
Together == [q \in 1..2 |-> 1]
Single   == [q \in 1..1 |-> 1]

WholePipeline == {1..NPapers}
WholeOrLast   == {1..NPapers, {NPapers}}
=============================================================================
