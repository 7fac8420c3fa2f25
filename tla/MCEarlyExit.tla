---------------------------- MODULE MCEarlyExit ----------------------------
(***************************************************************************)
(* A small instance of EarlyExit for TLC: a gate and a question that       *)
(* depends on it asked together, and another question after them.          *)
(***************************************************************************)
EXTENDS EarlyExit

TwoThenOne == <<1, 1, 2>>
OnFirst    == <<{}, {<<1, {"in"}>>}, {}>>
=============================================================================
