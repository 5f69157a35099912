--------------------------- MODULE MCRunnerLease ---------------------------
(* Values of the constants of RunnerLease for TLC. *)
EXTENDS RunnerLease

CONSTANTS r1, r2

TwoRunners == {r1, r2}
=============================================================================
