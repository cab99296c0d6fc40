--------------------------- MODULE MCEvaluationRun ---------------------------
(* Small instances of EvaluationRun for TLC. *)
EXTENDS EvaluationRun, TLC

CONSTANTS r1, r2, large, i1, i2

\* One dataset of two items.
TwoItems == large :> {i1, i2}
==============================================================================
