-------------------------- MODULE MCBenchmarkLease -------------------------
(***************************************************************************)
(* A small instance of BenchmarkLease for TLC: two executions of one       *)
(* configuration, so that one waits while the other is called.             *)
(***************************************************************************)
EXTENDS BenchmarkLease

AllExecs == {Execs}
=============================================================================
