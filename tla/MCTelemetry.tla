---------------------------- MODULE MCTelemetry ----------------------------
(* Instances of Telemetry for TLC. *)
EXTENDS Telemetry, TLC

CONSTANTS t1, t2

MCThreads == {t1, t2}

ThreadSymmetry == Permutations(MCThreads)
=============================================================================
