--------------------------- MODULE MCRunnerBridge ---------------------------
(* Instances of RunnerBridge for TLC.                                      *)
EXTENDS RunnerBridge
=============================================================================
